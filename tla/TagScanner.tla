----------------------------- MODULE TagScanner -----------------------------
(***************************************************************************)
(* The scanner library (scanner/src/lib.rs): the task that opens and drops  *)
(* BLE scan sessions, the handler the BLE host calls with a batch of        *)
(* advertising reports, and the bounded channel that carries the reports of *)
(* our tags to the one task that receives them.                             *)
(*                                                                         *)
(* All the tasks run on one cooperative executor and the handler never      *)
(* awaits, so nothing else runs between the first and the last report of a  *)
(* batch: `instant` is set during a batch, and every action of another task *)
(* is guarded by Idle.  Time counts seconds of the embassy clock.           *)
(***************************************************************************)
EXTENDS Integers, Sequences

CONSTANTS
    Prefix,             \* the upper three bytes of a BLE address
    Device,             \* the lower three bytes of a BLE address
    TAG_PREFIX,         \* the prefix given to TagScanner::new
    Payload,            \* what parse_manufacturer_data may return
    NoPayload,          \* its None
    CHANNEL_CAPACITY,   \* slots of the report channel
    SCAN_INTERVAL,      \* seconds from one scan window to the next
    SCAN_WINDOW,        \* seconds a scan session stays open
    MAX_SCAN_INTERVAL,  \* the longest interval the BLE specification allows
    MaxLag              \* the executor runs a task at most this long after it is due

ASSUME PrefixAssumption  == TAG_PREFIX \in Prefix
ASSUME PayloadAssumption == NoPayload \notin Payload
ASSUME ChannelAssumption == CHANNEL_CAPACITY \in Nat \ {0}
ASSUME TimingAssumption  ==
    /\ SCAN_INTERVAL \in Nat \ {0}
    /\ SCAN_WINDOW \in Nat
    /\ SCAN_WINDOW < SCAN_INTERVAL
    /\ MAX_SCAN_INTERVAL \in Nat
    /\ MaxLag \in Nat

VARIABLES
    now,        \* the clock
    queue,      \* TagScanner.queue, the channel of reports
    instant,    \* the handler's local while it works on a batch, else NoInstant
    scanning,   \* a scan session is open
    switchAt    \* when the timer of the scan task fires

scannerVars == <<queue, instant, scanning, switchAt>>

(***************************************************************************)
(* An address is stored low bytes first: the device's own half, then the    *)
(* prefix.  A report is reduced to its address, to what is parsed from its  *)
(* payload (module AdvParse), and to the time it was received.              *)
(***************************************************************************)
BdAddr    == Device \X Prefix
AdvReport == [addr : BdAddr, payload : Payload \cup {NoPayload}]
TagReport == [addr : BdAddr, payload : Payload, timestamp : Nat]

NoInstant == -1
Idle      == instant = NoInstant

EndsWith(addr, prefix) == addr[2] = prefix
LongInterval           == SCAN_INTERVAL > MAX_SCAN_INTERVAL

(* A slip: the channel takes every report. *)
TrySend_Unbounded(report) == queue' = Append(queue, report)

(* Channel::try_send: a full channel refuses the newest report. *)
TrySend(report) ==
    queue' = IF Len(queue) < CHANNEL_CAPACITY THEN Append(queue, report) ELSE queue

ScannerInit ==
    /\ queue = <<>>
    /\ instant = NoInstant
    /\ scanning = FALSE
    /\ switchAt = 0

-----------------------------------------------------------------------------
(* The two halves of run()'s loop; an interval the radio accepts is scanned  *)
(* for ever with the first session.                                         *)
StartScan ==
    /\ Idle
    /\ ~scanning
    /\ now >= switchAt
    /\ scanning' = TRUE
    /\ switchAt' = now + SCAN_WINDOW
    /\ UNCHANGED <<now, queue, instant>>

StopScan ==
    /\ Idle
    /\ LongInterval
    /\ scanning
    /\ now >= switchAt
    /\ scanning' = FALSE
    /\ switchAt' = now + SCAN_INTERVAL - SCAN_WINDOW
    /\ UNCHANGED <<now, queue, instant>>

(* The host hands over reports while a session is open, and for a moment     *)
(* after it was dropped, those the controller had already sent.             *)
Listening ==
    \/ scanning
    \/ switchAt > 0 /\ now + SCAN_INTERVAL - SCAN_WINDOW <= switchAt + MaxLag

-----------------------------------------------------------------------------
(* on_adv_reports: one timestamp for the batch, then report after report.    *)
OnAdvReports ==
    /\ Idle
    /\ Listening
    /\ instant' = now
    /\ UNCHANGED <<now, queue, scanning, switchAt>>

NextReport(report) ==
    /\ ~Idle
    /\ EndsWith(report.addr, TAG_PREFIX)
    /\ report.payload # NoPayload
    /\ TrySend([addr |-> report.addr, payload |-> report.payload, timestamp |-> instant])
    /\ UNCHANGED <<now, instant, scanning, switchAt>>

SkipReport(report) ==
    /\ ~Idle
    /\ ~EndsWith(report.addr, TAG_PREFIX) \/ report.payload = NoPayload
    /\ UNCHANGED <<now, queue, instant, scanning, switchAt>>

(* The iterator is exhausted, or yields the error that ends the loop.        *)
EndOfReports ==
    /\ ~Idle
    /\ instant' = NoInstant
    /\ UNCHANGED <<now, queue, scanning, switchAt>>

ScannerNext ==
    \/ StartScan
    \/ StopScan
    \/ OnAdvReports
    \/ \E report \in AdvReport : NextReport(report) \/ SkipReport(report)
    \/ EndOfReports

-----------------------------------------------------------------------------
(* Receiver::receive, the half of the channel its user calls.                *)
Receive ==
    /\ Idle
    /\ queue # <<>>
    /\ queue' = Tail(queue)
    /\ UNCHANGED <<now, instant, scanning, switchAt>>

(* A tick of the clock; no task that is due waits longer than MaxLag.        *)
ScannerPermitsTick ==
    /\ Idle
    /\ (~scanning \/ LongInterval) => now < switchAt + MaxLag
    /\ queue # <<>> => now < Head(queue).timestamp + MaxLag

ScannerTypeOK ==
    /\ now \in Nat
    /\ queue \in Seq(TagReport)
    /\ Len(queue) <= CHANNEL_CAPACITY
    /\ instant \in Nat \cup {NoInstant}
    /\ scanning \in BOOLEAN
    /\ switchAt \in Nat
=============================================================================
