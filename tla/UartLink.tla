------------------------------ MODULE UartLink ------------------------------
(***************************************************************************)
(* The link between the two chips: the network core's task send_scan_data   *)
(* (scanner-uart/src/main.rs) writes one COBS frame after the other while   *)
(* the request pin is high, and wait_for_decoded_message of the gateway     *)
(* (gateway/src/main.rs) collects bytes until a frame decodes.              *)
(*                                                                         *)
(* A byte is <<version, length, index>>: the state of the table it tells    *)
(* of, the length of its frame, and its place there; a zero ends a frame.   *)
(* There is no flow control and no checksum: a byte may be lost, on the     *)
(* wire or because the driver's buffer is full, and what decodes from a     *)
(* damaged frame is anything.                                               *)
(***************************************************************************)
EXTENDS Integers, SequencesExt

CONSTANTS
    MAX_FRAME,          \* bytes in the longest frame, without its separator
    PACKET_BUFFER,      \* capacity of packet_buffer
    RX_BUFFER,          \* capacity of the driver's buffer
    MaxVersion,         \* bound: changes of the table
    MaxFaults           \* bound: bytes lost, failed writes, restarts of the network core

(* 4096, 8192 and 32 in the code: a read never overflows on top of a frame.  *)
ASSUME SizeAssumption ==
    /\ MAX_FRAME \in Nat \ {0}
    /\ PACKET_BUFFER \in Nat
    /\ RX_BUFFER \in 1 .. MAX_FRAME
    /\ MAX_FRAME + RX_BUFFER <= PACKET_BUFFER

ASSUME BoundAssumption == MaxVersion \in Nat /\ MaxFaults \in Nat

VARIABLES
    table,              \* the version SEEN is at
    request,            \* level of the request pin
    sender,             \* the await send_scan_data is at
    out,                \* what is left of the frame being written
    gateway,            \* whether wait_for_decoded_message is running
    rx,                 \* bytes the driver has received and not handed over
    packet_buffer,      \* bytes wait_for_decoded_message has collected
    received,           \* what it returned last
    asked,              \* history: `table` when the pin was last set high
    faults,             \* history: bytes lost, failed writes, restarts of the network core
    failures            \* history: frames that did not decode

senderVars  == <<table, sender, out>>
gatewayVars == <<request, gateway, packet_buffer, received, asked, failures>>
vars        == <<senderVars, gatewayVars, rx, faults>>

Version   == 0 .. MaxVersion
Byte      == Version \X (1 .. MAX_FRAME) \X (0 .. MAX_FRAME)
Separator == <<0, 1, 0>>

Nothing == -1
Error   == -2
Garbage == -3       \* decodes, and is not what was sent

Body(version, length) == [i \in 1 .. length |-> <<version, length, i>>]

Init ==
    /\ table = 0
    /\ request = FALSE
    /\ sender = "waiting"
    /\ out = <<>>
    /\ gateway = "elsewhere"
    /\ rx = <<>>
    /\ packet_buffer = <<>>
    /\ received = Nothing
    /\ asked = Nothing
    /\ faults = 0
    /\ failures = 0

-----------------------------------------------------------------------------
(* The network core.  Its other tasks change the table.                      *)
Change ==
    /\ table < MaxVersion
    /\ table' = table + 1
    /\ UNCHANGED <<sender, out, gatewayVars, rx, faults>>

(* wait_for_high() is over; the pin may go low again before the task runs.   *)
WaitForHigh ==
    /\ sender = "waiting"
    /\ request
    /\ sender' = "woken"
    /\ UNCHANGED <<table, out, gatewayVars, rx, faults>>

(* The table is cloned and serialised; its frame is as long as it has tags.  *)
SendScanData ==
    /\ sender = "woken"
    /\ \E length \in 1 .. MAX_FRAME : out' = Append(Body(table, length), Separator)
    /\ sender' = "writing"
    /\ UNCHANGED <<table, gatewayVars, rx, faults>>

(* The byte goes over the wire; without a receiver nobody misses it.         *)
Transmit ==
    /\ sender = "writing"
    /\ out # <<>>
    /\ gateway = "reading" => Len(rx) < RX_BUFFER
    /\ rx' = IF gateway = "reading" THEN Append(rx, Head(out)) ELSE rx
    /\ out' = Tail(out)
    /\ UNCHANGED <<table, sender, gatewayVars, faults>>

(* write_all returned.                                                       *)
WriteDone ==
    /\ sender = "writing"
    /\ out = <<>>
    /\ sender' = "pausing"
    /\ UNCHANGED <<table, out, gatewayVars, rx, faults>>

PauseOver ==
    /\ sender = "pausing"
    /\ sender' = "waiting"
    /\ UNCHANGED <<table, out, gatewayVars, rx, faults>>

-----------------------------------------------------------------------------
(* Bytes are lost on the wire, or because the driver's buffer is full.       *)
Fault == faults < MaxFaults /\ faults' = faults + 1

LoseByte ==
    /\ Fault
    /\ gateway = "reading"
    /\ out # <<>>
    /\ out' = Tail(out)
    /\ UNCHANGED <<table, sender, gatewayVars, rx>>

(* write_all returns an error, and the rest of the frame is never sent.      *)
WriteFails ==
    /\ Fault
    /\ sender = "writing"
    /\ out' = <<>>
    /\ sender' = "pausing"
    /\ UNCHANGED <<table, gatewayVars, rx>>

(* The network core starts over, in the middle of a frame or not, and with   *)
(* an empty table.                                                          *)
SenderRestart ==
    /\ Fault
    /\ table < MaxVersion
    /\ table' = table + 1
    /\ sender' = "waiting"
    /\ out' = <<>>
    /\ UNCHANGED <<gatewayVars, rx>>

(* The gateway starts over; its pins are low until it requests again.        *)
GatewayRestart ==
    /\ gateway' = "elsewhere"
    /\ request' = FALSE
    /\ rx' = <<>>
    /\ packet_buffer' = <<>>
    /\ received' = Nothing
    /\ UNCHANGED <<senderVars, asked, faults, failures>>

-----------------------------------------------------------------------------
(* Seconds pass between two requests (the modem, a fix), and a frame takes   *)
(* 0.4 s, so none is under way when the gateway opens the UART.              *)
Quiet == sender # "writing"

(* A slip: the driver is kept, with what it received after the last frame. *)
Request_KeepsBytes ==
    /\ gateway = "elsewhere"
    /\ Quiet
    /\ gateway' = "reading"
    /\ request' = TRUE
    /\ packet_buffer' = <<>>
    /\ asked' = table
    /\ UNCHANGED <<senderVars, rx, received, faults, failures>>

(* updates, from the opening of the UART to the wait for a packet.           *)
Request ==
    /\ gateway = "elsewhere"
    /\ Quiet
    /\ gateway' = "reading"
    /\ request' = TRUE
    /\ rx' = <<>>
    /\ packet_buffer' = <<>>
    /\ asked' = table
    /\ UNCHANGED <<senderVars, received, faults, failures>>

(* from_bytes_cobs: a whole frame yields what was sent, nothing else is      *)
(* certain.                                                                 *)
Decode(packet) ==
    IF \E version \in Version, length \in 1 .. MAX_FRAME : packet = Body(version, length)
    THEN {packet[1][1]}
    ELSE {Error} \cup (IF packet = <<>> THEN {} ELSE {Garbage})

FirstZero(bytes) == SelectInSeq(bytes, LAMBDA byte : byte = Separator)

(* A slip: after an error everything collected is dropped. *)
DecodeFirst_DropsAll(bytes) ==
    \E decoded \in Decode(SubSeq(bytes, 1, FirstZero(bytes) - 1)) :
        /\ packet_buffer' = <<>>
        /\ IF decoded = Error
           THEN /\ failures' = failures + 1
                /\ UNCHANGED <<request, gateway, received>>
           ELSE /\ received' = decoded
                /\ request' = FALSE
                /\ gateway' = "elsewhere"
                /\ UNCHANGED failures

(* The first frame of the collected bytes is decoded, and returned or        *)
(* dropped; more frames, if there are, wait for the next read.               *)
DecodeFirst(bytes) ==
    \E decoded \in Decode(SubSeq(bytes, 1, FirstZero(bytes) - 1)) :
        IF decoded = Error
        THEN /\ packet_buffer' = SubSeq(bytes, FirstZero(bytes) + 1, Len(bytes))
             /\ failures' = failures + 1
             /\ UNCHANGED <<request, gateway, received>>
        ELSE /\ packet_buffer' = <<>>
             /\ received' = decoded
             /\ request' = FALSE
             /\ gateway' = "elsewhere"
             /\ UNCHANGED failures

(* A slip: nobody looks whether it fits. *)
Collect_Unbounded(read) ==
    LET bytes == packet_buffer \o SubSeq(rx, 1, read)
    IN  /\ rx' = SubSeq(rx, read + 1, Len(rx))
        /\ IF Contains(bytes, Separator)
           THEN DecodeFirst(bytes)
           ELSE /\ packet_buffer' = bytes
                /\ UNCHANGED <<request, gateway, received, failures>>

(* fill_buf() yields some of what was received, and it fits.  (An error of   *)
(* fill_buf changes nothing.)                                               *)
Collect(read) ==
    LET bytes == packet_buffer \o SubSeq(rx, 1, read)
    IN  /\ Len(bytes) <= PACKET_BUFFER
        /\ rx' = SubSeq(rx, read + 1, Len(rx))
        /\ IF Contains(bytes, Separator)
           THEN DecodeFirst(bytes)
           ELSE /\ packet_buffer' = bytes
                /\ UNCHANGED <<request, gateway, received, failures>>

(* A slip: the full buffer is kept. *)
Overflow_KeepsBuffer(read) ==
    /\ Len(packet_buffer) + read > PACKET_BUFFER
    /\ UNCHANGED <<packet_buffer, request, gateway, received, failures, rx>>

(* It does not fit: what was collected is dropped, what was read is not.     *)
Overflow(read) ==
    /\ Len(packet_buffer) + read > PACKET_BUFFER
    /\ packet_buffer' = <<>>
    /\ UNCHANGED <<request, gateway, received, failures, rx>>

FillBuf ==
    /\ gateway = "reading"
    /\ \E read \in 1 .. Len(rx) : Collect(read) \/ Overflow(read)
    /\ UNCHANGED <<senderVars, asked, faults>>

SenderNext == Change \/ WaitForHigh \/ SendScanData \/ Transmit \/ WriteDone \/ PauseOver
FaultNext  == LoseByte \/ WriteFails \/ SenderRestart \/ GatewayRestart

Next == SenderNext \/ FaultNext \/ Request \/ FillBuf

Spec == Init /\ [][Next]_vars

(* Both chips run on while the gateway waits; it need not ask again.         *)
Fairness ==
    /\ WF_vars(WaitForHigh)
    /\ WF_vars(SendScanData)
    /\ WF_vars(Transmit)
    /\ WF_vars(WriteDone)
    /\ WF_vars(PauseOver)
    /\ WF_vars(FillBuf)

FairSpec == Spec /\ Fairness

-----------------------------------------------------------------------------
(* The types of the variables, and the capacities of the two buffers.        *)
TypeOK ==
    /\ table \in Version
    /\ request \in BOOLEAN
    /\ sender \in {"waiting", "woken", "writing", "pausing"}
    /\ out \in Seq(Byte)
    /\ Len(out) <= MAX_FRAME + 1
    /\ gateway \in {"elsewhere", "reading"}
    /\ rx \in Seq(Byte)
    /\ Len(rx) <= RX_BUFFER
    /\ packet_buffer \in Seq(Byte)
    /\ Len(packet_buffer) <= PACKET_BUFFER
    /\ received \in Version \cup {Nothing, Garbage}
    /\ asked \in Version \cup {Nothing}
    /\ faults \in 0 .. MaxFaults
    /\ failures \in Nat

(***************************************************************************)
(* Reading picks up at the next frame after every fault, however bytes,     *)
(* reads, overflows and frames fall together: each byte lost, failed write, *)
(* and restart of the network core spoils one frame at most, and without one   *)
(* nothing is ever decoded that was not sent.  A spoiled frame may keep the *)
(* next one waiting for another read, so this holds for as many faults as   *)
(* packet_buffer has room for such reads beyond one frame, 128 in the code; *)
(* after more, an overflow may drop the head of a frame that is not yet     *)
(* complete together with frames that are.                                  *)
(***************************************************************************)
Spoiled == failures + (IF received = Garbage THEN 1 ELSE 0)
Spare   == PACKET_BUFFER - (MAX_FRAME + 1)

FaultsSpoilOneFrame == faults * RX_BUFFER <= Spare => Spoiled <= faults

(***************************************************************************)
(* The link implements Handoff: what the gateway receives is the table as   *)
(* it was at some time after it asked, although frames are written before,  *)
(* while and after it listens, and both chips may start over; until a byte  *)
(* is lost or a frame cut short it is nothing else.                         *)
(***************************************************************************)
Promise ==
    INSTANCE Handoff WITH
        asked <- IF gateway = "reading" THEN asked ELSE Nothing,
        given <- received,
        damaged <- faults > 0

ImplementsHandoff == Promise!Spec

(***************************************************************************)
(* A request ends with a decoded frame, although wait_for_decoded_message   *)
(* has no timeout: the network core keeps sending, and neither overflows    *)
(* nor damaged frames keep the gateway from the next whole one.             *)
(***************************************************************************)
RequestEnds == request ~> ~request
=============================================================================
