------------------------------ MODULE TagTable ------------------------------
(***************************************************************************)
(* The network core's firmware (scanner-uart/src/main.rs): the tag scanner  *)
(* composed with the three tasks that share the table SEEN.  receive_tags   *)
(* files each report under its device, automatic_cleanup drops old entries  *)
(* once per SCAN_INTERVAL, and send_scan_data writes the table to the       *)
(* gateway for as long as the request pin is high.                          *)
(*                                                                         *)
(* No task awaits anything else while it holds SEEN, so each use of the     *)
(* table is one step.                                                       *)
(***************************************************************************)
EXTENDS TagScanner, FiniteSets, Functions

CONSTANTS
    MAX_SEEN,           \* capacity of the table
    ExpiryIntervals,    \* an entry is dropped after this many SCAN_INTERVALs
    U16_MAX,            \* the largest age that can be sent
    MaxNow              \* bound: the clock stops here

ASSUME TableAssumption ==
    /\ MAX_SEEN \in Nat \ {0}
    /\ ExpiryIntervals \in Nat \ {0}
    /\ U16_MAX \in Nat
    /\ MaxNow \in Nat

(* Ages fit their 16 bits, and a report waits in the channel for less than    *)
(* the time it may stay in the table: 660 s and 600 s in config.rs.          *)
ASSUME AgeAssumption ==
    /\ MaxLag < ExpiryIntervals * SCAN_INTERVAL
    /\ (ExpiryIntervals + 1) * SCAN_INTERVAL + MaxLag <= U16_MAX

(* Devices are told apart by three bytes, so there are finitely many.        *)
ASSUME DeviceAssumption == IsFiniteSet(Device)

VARIABLES
    seen,       \* SEEN: device -> its latest report
    cleanupAt,  \* when automatic_cleanup last armed its timer
    request,    \* level of the request pin, driven by the gateway
    sender,     \* where send_scan_data waits
    packet,     \* the tags of the loop's body, {} between two rounds
    heard       \* history: when receive_tags last took a report of the device

tableVars == <<seen, cleanupAt, request, sender, packet, heard>>
vars      == <<now, scannerVars, tableVars>>

MaxAge == ExpiryIntervals * SCAN_INTERVAL
Never  == -1
Eui48  == Prefix \X Device
Tag    == [addr : Eui48, age : Int]

Init ==
    /\ now = 0
    /\ ScannerInit
    /\ seen = [key \in {} |-> 0]
    /\ cleanupAt = 0
    /\ request \in BOOLEAN
    /\ sender = "waiting"
    /\ packet = {}
    /\ heard = [key \in Device |-> Never]

-----------------------------------------------------------------------------
(* A slip: an entry that is MaxAge old is kept once more. *)
FreshKeys_OffByOne == {key \in DOMAIN seen : now - seen[key].timestamp <= MaxAge}

(* remove_old_entries *)
FreshKeys == {key \in DOMAIN seen : now - seen[key].timestamp < MaxAge}

AutomaticCleanup ==
    /\ Idle
    /\ now >= cleanupAt + SCAN_INTERVAL
    /\ seen' = Restrict(seen, FreshKeys)
    /\ cleanupAt' = now
    /\ UNCHANGED <<now, scannerVars, request, sender, packet, heard>>

-----------------------------------------------------------------------------
(* A slip: the key is the wrong half of the address, which all tags share. *)
KeyOf_WrongHalf(report) == report.addr[2]

KeyOf(report) == report.addr[1]
IsFull(table) == Cardinality(DOMAIN table) = MAX_SEEN

(* A slip: any entry makes room, not the oldest. *)
OldestKeys_Any(table) == DOMAIN table

(* remove_oldest_entry: which of several equally old entries goes depends on *)
(* the order of the map's iterator.                                         *)
OldestKeys(table) ==
    {key \in DOMAIN table :
        \A other \in DOMAIN table : table[key].timestamp <= table[other].timestamp}

(* A slip: a full map refuses the new report of a device it lists, too. *)
Insert_RefusedWhenFull(table, key, report) ==
    IF IsFull(table)
    THEN table
    ELSE [k \in DOMAIN table \cup {key} |-> IF k = key THEN report ELSE table[k]]

(* FnvIndexMap::insert refuses a new key when the map is full.               *)
Insert(table, key, report) ==
    IF key \notin DOMAIN table /\ IsFull(table)
    THEN table
    ELSE [k \in DOMAIN table \cup {key} |-> IF k = key THEN report ELSE table[k]]

(* The keys removed to make room for `key`, one set per possible choice.     *)
Evictions(key) ==
    IF IsFull(seen) /\ key \notin DOMAIN seen
    THEN {{oldest} : oldest \in OldestKeys(seen)}
    ELSE {{}}

ReceiveTags ==
    /\ Receive
    /\ LET report == Head(queue)
           key    == KeyOf(report)
       IN  /\ \E evicted \in Evictions(key) :
                seen' = Insert(Restrict(seen, DOMAIN seen \ evicted), key, report)
           /\ heard' = [heard EXCEPT ![report.addr[1]] = report.timestamp]
    /\ UNCHANGED <<cleanupAt, request, sender, packet>>

-----------------------------------------------------------------------------
(* Ages are sent in 16 bits, and stop at the largest value.                  *)
AgeSecs(timestamp) ==
    IF now - timestamp <= U16_MAX THEN now - timestamp ELSE U16_MAX

(* The gateway wants an address the way it is printed, high bytes first.     *)
ReverseAddr(addr) == <<addr[2], addr[1]>>

Snapshot ==
    {[addr |-> ReverseAddr(seen[key].addr), age |-> AgeSecs(seen[key].timestamp)] :
        key \in DOMAIN seen}

(* send_scan_data, from the request pin being high to the wait on the UART.  *)
SendScanData ==
    /\ Idle
    /\ sender = "waiting"
    /\ request
    /\ packet' = Snapshot
    /\ sender' = "writing"
    /\ UNCHANGED <<now, scannerVars, seen, cleanupAt, request, heard>>

(* write_all returned, with or without an error: wait 10 ms, then start over. *)
WriteDone ==
    /\ Idle
    /\ sender = "writing"
    /\ sender' = "pausing"
    /\ UNCHANGED <<now, scannerVars, seen, cleanupAt, request, packet, heard>>

(* A slip: the next snapshot waits for the pin to go low first. *)
PauseOver_WaitsForEdge ==
    /\ Idle
    /\ sender = "pausing"
    /\ ~request
    /\ sender' = "waiting"
    /\ packet' = {}
    /\ UNCHANGED <<now, scannerVars, seen, cleanupAt, request, heard>>

PauseOver ==
    /\ Idle
    /\ sender = "pausing"
    /\ sender' = "waiting"
    /\ packet' = {}
    /\ UNCHANGED <<now, scannerVars, seen, cleanupAt, request, heard>>

-----------------------------------------------------------------------------
(* The environment: the gateway drives the pin, and time passes.             *)
SetRequest ==
    /\ request' = ~request
    /\ UNCHANGED <<now, scannerVars, seen, cleanupAt, sender, packet, heard>>

Tick ==
    /\ now < MaxNow
    /\ ScannerPermitsTick
    /\ now < cleanupAt + SCAN_INTERVAL + MaxLag
    /\ now' = now + 1
    /\ UNCHANGED <<scannerVars, tableVars>>

Next ==
    \/ ScannerNext /\ UNCHANGED tableVars
    \/ AutomaticCleanup
    \/ ReceiveTags
    \/ SendScanData
    \/ WriteDone
    \/ PauseOver
    \/ SetRequest
    \/ Tick

Spec == Init /\ [][Next]_vars

-----------------------------------------------------------------------------
(* The types of the variables; the table is a partial function on Device.    *)
TypeOK ==
    /\ ScannerTypeOK
    /\ DOMAIN seen \subseteq Device
    /\ seen \in [DOMAIN seen -> TagReport]
    /\ cleanupAt \in Nat
    /\ request \in BOOLEAN
    /\ sender \in {"waiting", "writing", "pausing"}
    /\ packet \subseteq Tag
    /\ heard \in [Device -> Nat \cup {Never}]

(***************************************************************************)
(* What the table promises.  A device receive_tags has heard of is listed   *)
(* with its latest report, unless that is older than MaxAge, or the table   *)
(* is full of devices heard no earlier.  So neither a late report, nor the  *)
(* eviction (remove_oldest_entry), nor a clean-up between the two ever      *)
(* costs an entry that a staler one survives.                               *)
(***************************************************************************)
Listed(d)    == d \in DOMAIN seen /\ seen[d].timestamp = heard[d]
Expired(d)   == now - heard[d] >= MaxAge
Displaced(d) ==
    /\ IsFull(seen)
    /\ \A key \in DOMAIN seen : seen[key].timestamp >= heard[d]

KeepsMostRecent ==
    \A d \in Device : heard[d] # Never => Listed(d) \/ Expired(d) \/ Displaced(d)

(***************************************************************************)
(* What goes to the gateway is not from the future (where duration_since    *)
(* panics), and no older than MaxAge, a clean-up period and a lag, although  *)
(* clean-ups, receptions and snapshots interleave freely.  With the values  *)
(* of config.rs the u16 of an age is never saturated on this side of the    *)
(* UART.                                                                    *)
(***************************************************************************)
AgesBounded ==
    \A tag \in packet :
        /\ tag.age >= 0
        /\ tag.age < MaxAge + SCAN_INTERVAL + MaxLag

(***************************************************************************)
(* A packet leaves with every device heard within MaxAge, at its exact age, *)
(* as long as fewer than MAX_SEEN devices were heard as recently: the       *)
(* promise of the table, seen from the gateway.                             *)
(***************************************************************************)
AsRecent(d) == {e \in Device \ {d} : heard[e] >= heard[d]}

OwedTo(d) ==
    /\ heard[d] # Never
    /\ now - heard[d] < MaxAge
    /\ Cardinality(AsRecent(d)) < MAX_SEEN

SnapshotComplete ==
    [][sender = "waiting" /\ sender' = "writing" =>
        \A d \in Device : OwedTo(d) =>
            [addr |-> <<TAG_PREFIX, d>>, age |-> now - heard[d]] \in packet']_vars

(***************************************************************************)
(* The inductive invariant behind the three.  Reports leave the channel in  *)
(* the order of their timestamps, none older than MaxLag; so a report being *)
(* filed is newer than everything heard before, which is why the entry of a *)
(* device is always its latest and the evicted entry was the least recent.  *)
(* An entry outlives a clean-up only when it was younger than MaxAge then.  *)
(***************************************************************************)
ChannelInv ==
    /\ ~Idle => instant = now
    /\ \A i \in 1 .. Len(queue) :
        /\ queue[i].addr[2] = TAG_PREFIX
        /\ queue[i].timestamp <= now
        /\ now <= queue[i].timestamp + MaxLag
        /\ \A j \in 1 .. Len(queue) : i <= j => queue[i].timestamp <= queue[j].timestamp

HeardInv ==
    \A d \in Device :
        /\ heard[d] <= now
        /\ \A i \in 1 .. Len(queue) : heard[d] <= queue[i].timestamp

CleanupInv ==
    /\ cleanupAt <= now
    /\ now <= cleanupAt + SCAN_INTERVAL + MaxLag

TableInv ==
    \A key \in DOMAIN seen :
        /\ seen[key].addr = <<key, TAG_PREFIX>>
        /\ seen[key].timestamp = heard[key]
        /\ cleanupAt < seen[key].timestamp + MaxAge

CapacityInv == Cardinality(DOMAIN seen) <= MAX_SEEN

IInv ==
    /\ TypeOK
    /\ ChannelInv
    /\ HeardInv
    /\ CleanupInv
    /\ TableInv
    /\ CapacityInv
    /\ KeepsMostRecent
    /\ AgesBounded
=============================================================================
