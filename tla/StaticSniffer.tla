---------------------------- MODULE StaticSniffer ----------------------------
(***************************************************************************)
(* A tag and a static sniffer: the advertiser, the air, the scanner library *)
(* and the task of scanner-aio-http (src/main.rs) that posts every report   *)
(* it receives to a server.                                                 *)
(*                                                                         *)
(* The sniffer scans all the time, its interval being shorter than the      *)
(* longest the radio accepts, so no clock is needed: `now` stands still.    *)
(***************************************************************************)
EXTENDS Advertiser, TagScanner, HttpPost

CONSTANT MaxReceptions      \* bound: receptions of the tag's advertisements

ASSUME SnifferAssumption ==
    /\ Payload = ParsedAdvertisement
    /\ NoPayload = NoAdvertisement
    /\ ~LongInterval
    /\ MaxReceptions \in Nat

VARIABLES
    receptions,     \* history: how many advertisements of tags were received
    origins         \* history: where the reports in `queue` come from

snifferVars == <<now, scannerVars, receptions, origins>>
vars        == <<advertiserVars, snifferVars, httpVars>>

Item   == 1 .. MaxReceptions
Origin == [item : Item, radio : ChannelNumber, sequence : SequenceNumber]

Init ==
    /\ AdvertiserInit
    /\ now = 0
    /\ ScannerInit
    /\ HttpInit
    /\ receptions = 0
    /\ origins = <<>>

-----------------------------------------------------------------------------
(* The tag's advertisement is received on one of the channels it is sent on. *)
TagReceived(addr, radio) ==
    /\ receptions < MaxReceptions
    /\ radio \in onAir.map
    /\ NextReport([addr |-> addr, payload |-> ParseManufacturerData(onAir.data)])
    /\ receptions' = receptions + 1
    /\ origins' =
        IF queue' = queue
        THEN origins
        ELSE Append(origins,
                    [item     |-> receptions',
                     radio    |-> radio,
                     sequence |-> LastOfKind(onAir.data, "manufacturer").payload.sequence])
    /\ UNCHANGED <<advertiserVars, httpVars>>

(* Whatever else is received is passed over.                                 *)
OtherReceived(addr) ==
    /\ SkipReport([addr |-> addr, payload |-> NoPayload])
    /\ UNCHANGED <<advertiserVars, httpVars, receptions, origins>>

Scanner ==
    /\ StartScan \/ OnAdvReports \/ EndOfReports
    /\ UNCHANGED <<advertiserVars, httpVars, receptions, origins>>

-----------------------------------------------------------------------------
(* receive_tags: a report is taken from the channel and posted.              *)
ReceiveTags ==
    /\ Receive
    /\ Post(Head(origins).item, [report |-> Head(queue), origin |-> Head(origins)])
    /\ origins' = Tail(origins)
    /\ UNCHANGED <<advertiserVars, receptions>>

(* send_data_to_backend is the gateway's send_kuzzle_post_request again.     *)
SendDataToBackend == HttpNext /\ UNCHANGED <<advertiserVars, snifferVars>>

(* A slip: what could not be posted goes back into the channel. *)
PostReturned_Requeues ==
    /\ Idle
    /\ Returned
    /\ IF http = "error" /\ Len(queue) < CHANNEL_CAPACITY
       THEN queue' = Append(queue, body.report) /\ origins' = Append(origins, body.origin)
       ELSE UNCHANGED <<queue, origins>>
    /\ UNCHANGED <<advertiserVars, now, instant, scanning, switchAt, receptions>>

(* A slip: an error ends the task. *)
PostReturned_EndsTask ==
    /\ Idle
    /\ http = "ok"
    /\ Returned
    /\ UNCHANGED <<advertiserVars, snifferVars>>

(* An error is logged, and the next report awaited.                          *)
PostReturned ==
    /\ Idle
    /\ Returned
    /\ UNCHANGED <<advertiserVars, snifferVars>>

Next ==
    \/ AdvertiserNext /\ UNCHANGED <<snifferVars, httpVars>>
    \/ Scanner
    \/ \E addr \in BdAddr, radio \in ChannelNumber : TagReceived(addr, radio)
    \/ \E addr \in BdAddr : OtherReceived(addr)
    \/ ReceiveTags
    \/ SendDataToBackend
    \/ PostReturned

Spec == Init /\ [][Next]_vars

(***************************************************************************)
(* The executor is fair to both tasks, and the server answers or lets the   *)
(* connection go: the client would wait for it for ever.                    *)
(***************************************************************************)
Fairness ==
    /\ WF_vars(EndOfReports /\ Scanner)
    /\ SF_vars(ReceiveTags)
    /\ SF_vars(PostReturned)
    /\ WF_vars(SendDataToBackend)

FairSpec == Spec /\ Fairness

-----------------------------------------------------------------------------
Body == [report : TagReport, origin : Origin]

TypeOK ==
    /\ AdvertiserTypeOK
    /\ ScannerTypeOK
    /\ receptions \in 0 .. MaxReceptions
    /\ origins \in Seq(Origin)
    /\ Len(origins) = Len(queue)
    /\ http \in HttpState
    /\ http # "idle" => item \in Item /\ body \in Body
    /\ arrived \in Seq(Item)
    /\ confirmed \subseteq Item

(***************************************************************************)
(* The server is told the truth about every advertisement it hears of: the  *)
(* sequence number it carried and the radio channel it was sent on, which   *)
(* the sniffer itself does not know, although the tag goes on to the next   *)
(* number and channel, or starts over, while the report waits.              *)
(***************************************************************************)
ReportsTrue ==
    ServerHasBody =>
        /\ body.report.payload.channel_number = body.origin.radio
        /\ body.report.payload.sequence = body.origin.sequence

(***************************************************************************)
(* Reports are dropped when the channel is full and lost when a post fails, *)
(* but they reach the server in the order of reception, each once at most,  *)
(* and those it answered to have reached it.                                *)
(***************************************************************************)
Promise ==
    INSTANCE OrderedDelivery WITH sent <- receptions, delivered <- arrived

ImplementsDelivery == Promise!Spec

(***************************************************************************)
(* The sniffer does not get stuck on a report: whatever happens to a post,  *)
(* every report that found a place in the channel is taken from it.         *)
(***************************************************************************)
Waiting(i) == \E place \in 1 .. Len(origins) : origins[place].item = i

KeepsForwarding == \A i \in Item : Waiting(i) ~> ~Waiting(i)

(***************************************************************************)
(* The parser finds in every advertisement that may be received, well-formed *)
(* or not, what its last structures say, and nothing in one that is not of a *)
(* tag.  It keeps nothing from one report to the next: the first that may   *)
(* come is as good as any.                                                  *)
(***************************************************************************)
ParseCorrect ==
    scanning /\ receptions = 0 => \A ads \in BoundedSeq(AdStructure, 3) : Agrees(ads)
=============================================================================
