----------------------------- MODULE AssetTracker -----------------------------
(***************************************************************************)
(* The asset tracker as a whole: the network core (TagTable) and the        *)
(* gateway (GatewayCycle), joined by the request pin, which the gateway     *)
(* drives, and by the frames written to the UART.                           *)
(*                                                                         *)
(* Of the UART, what UartLink shows of it is used: frames arrive as they    *)
(* were sent or not at all, the first that does ends the request, and none  *)
(* is under way when the gateway asks.  Attempts to locate the board that   *)
(* fail are time that passes before the one that succeeds.                  *)
(***************************************************************************)
EXTENDS Integers, Sequences, FiniteSets

CONSTANTS
    Prefix, Device, TAG_PREFIX, Payload, NoPayload, CHANNEL_CAPACITY,
    SCAN_INTERVAL, SCAN_WINDOW, MAX_SCAN_INTERVAL, MaxLag,
    MAX_SEEN, ExpiryIntervals, U16_MAX, MaxNow,
    TIME_BETWEEN_UPDATES, MIN_BETWEEN_UPDATES, GNNS_AQUISITION_TIMEOUT_SEC,
    MaxTries, MaxWait,
    FrameTime,          \* the longest a frame takes to be written and decoded
    MaxFaults           \* bound: frames lost, restarts of the network core

ASSUME LinkAssumption ==
    /\ FrameTime \in Nat
    /\ MaxFaults \in Nat
    /\ MaxWait >= MaxNow        \* waits are measured in full

(* What TagTable and GatewayCycle assume of theirs.                          *)
ASSUME CoreAssumption ==
    /\ TAG_PREFIX \in Prefix
    /\ NoPayload \notin Payload
    /\ IsFiniteSet(Device)
    /\ CHANNEL_CAPACITY \in Nat \ {0}
    /\ SCAN_INTERVAL \in Nat \ {0}
    /\ SCAN_WINDOW \in Nat
    /\ SCAN_WINDOW < SCAN_INTERVAL
    /\ MAX_SCAN_INTERVAL \in Nat
    /\ MaxLag \in Nat
    /\ MAX_SEEN \in Nat \ {0}
    /\ ExpiryIntervals \in Nat \ {0}
    /\ MaxLag < ExpiryIntervals * SCAN_INTERVAL
    /\ (ExpiryIntervals + 1) * SCAN_INTERVAL + MaxLag <= U16_MAX
    /\ U16_MAX \in Nat
    /\ MaxNow \in Nat

ASSUME CycleAssumption ==
    /\ TIME_BETWEEN_UPDATES \in Nat
    /\ MIN_BETWEEN_UPDATES \in Nat \ {0}
    /\ MIN_BETWEEN_UPDATES <= TIME_BETWEEN_UPDATES
    /\ GNNS_AQUISITION_TIMEOUT_SEC \in Nat
    /\ MaxTries \in Nat
    /\ MaxTries > 7
    /\ MaxWait \in Nat

VARIABLES
    now, queue, instant, scanning, switchAt,
    seen, cleanupAt, request, sender, packet, heard,
    pc, elapsed, tries, backoff, location, fixAge, detected, linkWait, lte,
    update, ledQueue, ledsReady, led,
    wire,           \* the frame that came through since the request, or <<>>
    made,           \* history: of the frame written last, when and from what
    told,           \* history: the same of the frame that was decoded
    askedAt,        \* history: when the gateway got its fix, and asked
    faults          \* history: frames lost, restarts of the network core

Core    == INSTANCE TagTable
Gateway == INSTANCE GatewayCycle WITH
                uartRequest <- request, TagId <- Device, Age <- 0 .. U16_MAX,
                FAKE_POSITION <- FALSE

tableVars  == <<seen, cleanupAt, request, sender, packet, heard>>
coreVars   == <<queue, instant, scanning, switchAt, seen, cleanupAt, sender, packet, heard>>
cycleVars  == <<pc, elapsed, tries, backoff, location, fixAge, detected, linkWait, lte, update,
                ledQueue, ledsReady, led>>
linkVars   == <<wire, made, told, askedAt, faults>>
vars       == <<now, request, coreVars, cycleVars, linkVars>>

Nowhere == [at |-> 0, heard |-> [d \in Device |-> Core!Never], owed |-> {}]

Init ==
    /\ Core!Init
    /\ Gateway!Init
    /\ wire = <<>>
    /\ made = Nowhere
    /\ told = Nowhere
    /\ askedAt = 0
    /\ faults = 0

-----------------------------------------------------------------------------
(* What a chip does alone commutes with all the other does, so one order of  *)
(* the two is as good as any: the gateway acts between the batches of the   *)
(* scanner, and the network core once `leds` has taken its status.          *)
CoreMay    == Gateway!LedsSettled
GatewayMay == Core!Idle

(* What the network core does without the gateway.                           *)
CoreStep ==
    /\ CoreMay
    /\ \/ Core!ScannerNext /\ UNCHANGED tableVars
       \/ Core!AutomaticCleanup
       \/ Core!ReceiveTags
       \/ Core!PauseOver
    /\ UNCHANGED <<cycleVars, linkVars>>

SendScanData ==
    /\ CoreMay
    /\ Core!SendScanData
    /\ made' = [at    |-> now,
                heard |-> heard,
                owed  |-> {d \in Device : Core!OwedTo(d)}]
    /\ UNCHANGED <<cycleVars, wire, told, askedAt, faults>>

(* A slip: the UART stays open, and keeps a frame nobody asked for. *)
WriteDone_KeptOpen ==
    /\ CoreMay
    /\ Core!WriteDone
    /\ made' = Nowhere
    /\ wire' = IF wire = <<>> THEN <<[tags |-> packet, made |-> made]>> ELSE wire
    /\ UNCHANGED <<cycleVars, told, askedAt, faults>>

(* The frame has been written; a gateway that is listening has got it.       *)
WriteDone ==
    /\ CoreMay
    /\ Core!WriteDone
    /\ made' = Nowhere
    /\ wire' = IF pc = "reading" /\ wire = <<>>
               THEN <<[tags |-> packet, made |-> made]>>
               ELSE wire
    /\ UNCHANGED <<cycleVars, told, askedAt, faults>>

Fault == faults < MaxFaults /\ faults' = faults + 1

FrameLost ==
    /\ CoreMay
    /\ Fault
    /\ Core!WriteDone
    /\ made' = Nowhere
    /\ UNCHANGED <<cycleVars, wire, told, askedAt>>

(* The network core starts over, with an empty table.                        *)
CoreRestart ==
    /\ CoreMay
    /\ Fault
    /\ queue' = <<>>
    /\ instant' = Core!NoInstant
    /\ scanning' = FALSE
    /\ switchAt' = 0
    /\ seen' = [key \in {} |-> 0]
    /\ cleanupAt' = now
    /\ sender' = "waiting"
    /\ packet' = {}
    /\ heard' = [d \in Device |-> Core!Never]
    /\ made' = Nowhere
    /\ UNCHANGED <<now, request, cycleVars, wire, told, askedAt>>

-----------------------------------------------------------------------------
(* What the gateway does without the network core.                           *)
GatewayStep ==
    /\ GatewayMay
    /\ \/ Gateway!Boot
       \/ Gateway!ButtonPressed
       \/ Gateway!TimerElapsed
       \/ Gateway!Sent
       \/ Gateway!LedsOpened
       \/ Gateway!ShowStatus
    /\ UNCHANGED <<now, coreVars, linkVars>>

(* The board is located and the UART opened.                                 *)
Located ==
    /\ GatewayMay
    /\ Gateway!Reading(Gateway!Channel)
    /\ sender # "writing"
    /\ askedAt' = now
    /\ UNCHANGED <<now, coreVars, wire, made, told, faults>>

Devices(tags) == {tag.addr[2] : tag \in tags}

AgesIn(tags) ==
    [d \in Devices(tags) |-> (CHOOSE tag \in tags : tag.addr[2] = d).age]

Decoded ==
    /\ GatewayMay
    /\ wire # <<>>
    /\ Gateway!Decoded(AgesIn(wire[1].tags))
    /\ told' = wire[1].made
    /\ wire' = <<>>
    /\ UNCHANGED <<now, coreVars, made, askedAt, faults>>

(* The update is made, and then sent, or it cannot be serialised.            *)
LinkUp ==
    /\ GatewayMay
    /\ Gateway!StartSending \/ Gateway!SerializeError
    /\ told' = Nowhere
    /\ askedAt' = 0
    /\ UNCHANGED <<now, coreVars, wire, made, faults>>

-----------------------------------------------------------------------------
(* Both chips' clocks go on, and a frame is written and decoded in its time. *)
Tick ==
    /\ Core!Tick
    /\ Gateway!Tick
    /\ sender = "writing" => now < made.at + FrameTime
    /\ wire # <<>> => now < wire[1].made.at + FrameTime
    /\ UNCHANGED linkVars

Next ==
    \/ CoreStep
    \/ SendScanData
    \/ WriteDone
    \/ FrameLost
    \/ CoreRestart
    \/ GatewayStep
    \/ Located
    \/ Decoded
    \/ LinkUp
    \/ Tick

Spec == Init /\ [][Next]_vars

(***************************************************************************)
(* Both executors are fair to the tasks that take part in the exchange:     *)
(* send_scan_data on one side, wait_for_decoded_message and leds on the     *)
(* other.                                                                   *)
(***************************************************************************)
SenderStep  == SendScanData \/ WriteDone \/ (Core!PauseOver /\ CoreStep)
GatewayRead == Decoded \/ ((Gateway!LedsOpened \/ Gateway!ShowStatus) /\ GatewayStep)

Fairness ==
    /\ WF_vars(Core!EndOfReports /\ CoreStep)
    /\ SF_vars(SenderStep)
    /\ SF_vars(GatewayRead)

FairSpec == Spec /\ Fairness

-----------------------------------------------------------------------------
MadeUpdate == pc = "linking" /\ pc' = "sending"

(***************************************************************************)
(* What a reader makes of an update, who subtracts an age from the update's *)
(* own timestamp: the moment the device was last heard.                     *)
(***************************************************************************)
Timestamp  == now - update'.timestampAge
Implied(d) == Timestamp - update'.ages[d]

(* An age that fits its 16 bits.                                             *)
Fits(d) == detected[d] + linkWait <= U16_MAX

(* The moments an update may give for a device: when the network core last   *)
(* heard it, or later by no more than a frame takes.                        *)
Moments(d) == told.heard[d] .. told.heard[d] + FrameTime

(***************************************************************************)
(* An update tells the truth about the world, across two chips with clocks  *)
(* of their own that only ever exchange ages, but for one thing: it is      *)
(* dated by its fix, while its ages are those of when it was made.  So what *)
(* it implies is early, by the time since the fix and nothing else: the     *)
(* same for every device, whatever frames were lost and waits there were.   *)
(***************************************************************************)
SinceFix == now - askedAt

UpdateTruthful ==
    [][MadeUpdate =>
        \A d \in DOMAIN update'.ages :
            Fits(d) => Implied(d) + SinceFix \in Moments(d)]_vars

(***************************************************************************)
(* It is complete as of a moment after the gateway asked: it lists every    *)
(* device the table owed it then, whatever was sent, lost, or decoded for   *)
(* an earlier update, and whenever the network core started over.           *)
(***************************************************************************)
UpdateCurrent ==
    [][MadeUpdate => askedAt <= told.at /\ told.owed \subseteq DOMAIN update'.ages]_vars

(***************************************************************************)
(* The two chips never wait for one another: the gateway, which has no      *)
(* timeout, is sent a frame for as long as it asks, also when one was lost  *)
(* or the network core started over.                                        *)
(***************************************************************************)
ExchangeEnds == pc = "reading" ~> pc # "reading"

TypeOK ==
    /\ Core!TypeOK
    /\ Gateway!TypeOK
    /\ wire # <<>> => wire[1].tags \subseteq Core!Tag
    /\ made.owed \subseteq Device
    /\ told.owed \subseteq Device
    /\ askedAt \in 0 .. now
    /\ faults \in 0 .. MaxFaults

-----------------------------------------------------------------------------
(* Two statements of the documentation that the code does not keep.          *)

(***************************************************************************)
(* The report schema: the timestamp is when the report was generated, and   *)
(* an age the time from the last detection to that.  This states that the   *)
(* two give the moment of the detection.                                    *)
(***************************************************************************)
DatedWhenMade ==
    [][MadeUpdate =>
        \A d \in DOMAIN update'.ages : Fits(d) => Implied(d) \in Moments(d)]_vars

(***************************************************************************)
(* The README says the list of scanned devices is cleared once it was sent. *)
(* This states that an entry that was in the packet, and that no report     *)
(* received since can have brought back, is gone when it has been written.  *)
(***************************************************************************)
StillListed(tag) ==
    /\ tag.addr[2] \in DOMAIN seen'
    /\ seen'[tag.addr[2]].timestamp = made.at - tag.age

ClearedOnceSent ==
    [][sender = "writing" /\ sender' = "pausing" =>
        \A tag \in packet : tag.age > MaxLag => ~StillListed(tag)]_vars
=============================================================================
