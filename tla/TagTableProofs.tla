--------------------------- MODULE TagTableProofs ---------------------------
(***************************************************************************)
(* Proofs about the network core's firmware, for every set of devices,      *)
(* capacity, interval and bound of the clock.                               *)
(***************************************************************************)
EXTENDS TagTable, FiniteSetTheorems, SequenceTheorems, TLAPS

-----------------------------------------------------------------------------
(* MaxAge is a positive number, longer than a report may be delayed.         *)
LEMMA MaxAgeType == MaxAge \in Nat /\ MaxLag < MaxAge
<1>1. \A m, n \in Nat : m * n \in Nat
  OBVIOUS
<1>2. QED
  BY <1>1, TimingAssumption, TableAssumption, AgeAssumption DEF MaxAge

(* The table is finite, because the devices are.                             *)
LEMMA TableFinite ==
  ASSUME TypeOK
  PROVE  /\ IsFiniteSet(DOMAIN seen)
         /\ Cardinality(DOMAIN seen) \in Nat
BY DeviceAssumption, FS_Subset, FS_CardinalityType DEF TypeOK

(* Appending to the channel, as try_send does.                               *)
LEMMA TrySendEffect ==
  ASSUME NEW report \in TagReport, queue \in Seq(TagReport), TrySend(report),
         Len(queue) <= CHANNEL_CAPACITY
  PROVE  /\ queue' \in Seq(TagReport)
         /\ Len(queue') <= CHANNEL_CAPACITY
         /\ Len(queue) <= Len(queue')
         /\ \A i \in 1 .. Len(queue') :
              \/ i \in 1 .. Len(queue) /\ queue'[i] = queue[i]
              \/ i = Len(queue') /\ queue'[i] = report
<1>1. CASE Len(queue) < CHANNEL_CAPACITY
  <2>1. queue' = Append(queue, report)
    BY <1>1 DEF TrySend
  <2>2. QED
    BY <1>1, <2>1, ChannelAssumption, AppendProperties
<1>2. CASE ~(Len(queue) < CHANNEL_CAPACITY)
  BY <1>2, ChannelAssumption DEF TrySend
<1>3. QED
  BY <1>1, <1>2

(* Taking the head of the channel, as receive does.                          *)
LEMMA ReceiveEffect ==
  ASSUME queue \in Seq(TagReport), Receive
  PROVE  /\ Head(queue) \in TagReport
         /\ Head(queue) = queue[1]
         /\ 1 \in 1 .. Len(queue)
         /\ queue' \in Seq(TagReport)
         /\ Len(queue') = Len(queue) - 1
         /\ \A i \in 1 .. Len(queue') : i + 1 \in 1 .. Len(queue) /\ queue'[i] = queue[i + 1]
BY HeadTailProperties DEF Receive

(***************************************************************************)
(* What receive_tags does to the table: the report is always filed, since   *)
(* the oldest entry has made room when it had to, and everything else stays.*)
(***************************************************************************)
LEMMA FilingEffect ==
  ASSUME TypeOK, ReceiveTags
  PROVE  LET report == Head(queue)
             key    == KeyOf(report)
         IN  \E evicted \in SUBSET DOMAIN seen :
               /\ DOMAIN seen' = (DOMAIN seen \ evicted) \cup {key}
               /\ seen' \in [DOMAIN seen' -> TagReport]
               /\ seen'[key] = report
               /\ \A k \in DOMAIN seen \ evicted : k # key => seen'[k] = seen[k]
               /\ \/ /\ evicted = {}
                     /\ key \in DOMAIN seen \/ ~IsFull(seen)
                  \/ /\ IsFull(seen)
                     /\ key \notin DOMAIN seen
                     /\ \E oldest \in OldestKeys(seen) : evicted = {oldest}
<1> DEFINE report == Head(queue)
           key    == KeyOf(report)
           Rest(gone) == Restrict(seen, DOMAIN seen \ gone)
<1>1. /\ report \in TagReport
      /\ key = report.addr[1]
  BY ReceiveEffect DEF ReceiveTags, TypeOK, ScannerTypeOK, KeyOf
<1>2. PICK evicted \in Evictions(key) : seen' = Insert(Rest(evicted), key, report)
  BY DEF ReceiveTags
<1>3. /\ evicted \in SUBSET DOMAIN seen
      /\ \/ /\ evicted = {}
            /\ key \in DOMAIN seen \/ ~IsFull(seen)
         \/ /\ IsFull(seen)
            /\ key \notin DOMAIN seen
            /\ \E oldest \in OldestKeys(seen) : evicted = {oldest}
  BY <1>2 DEF Evictions, OldestKeys
<1>4. DOMAIN Rest(evicted) = DOMAIN seen \ evicted
  BY DEF Restrict
<1>5. key \in DOMAIN Rest(evicted) \/ ~IsFull(Rest(evicted))
  <2>1. CASE evicted = {}
    BY <1>3, <1>4, <2>1 DEF IsFull
  <2>2. CASE evicted # {}
    <3>1. PICK oldest \in DOMAIN seen : evicted = {oldest} /\ IsFull(seen)
      BY <1>3, <2>2 DEF OldestKeys
    <3>2. Cardinality(DOMAIN seen \ {oldest}) = MAX_SEEN - 1
      BY <3>1, TableFinite, FS_RemoveElement DEF IsFull
    <3>3. QED
      BY <1>4, <3>1, <3>2, TableAssumption DEF IsFull
  <2>3. QED
    BY <2>1, <2>2
<1>6. seen' = [k \in (DOMAIN seen \ evicted) \cup {key} |->
                 IF k = key THEN report ELSE seen[k]]
  <2>1. seen' = [k \in DOMAIN Rest(evicted) \cup {key} |->
                   IF k = key THEN report ELSE Rest(evicted)[k]]
    BY <1>2, <1>5 DEF Insert
  <2>2. \A k \in DOMAIN seen \ evicted : Rest(evicted)[k] = seen[k]
    BY DEF Restrict
  <2>3. QED
    BY <1>4, <2>1, <2>2
<1>7. \A k \in DOMAIN seen : seen[k] \in TagReport
  BY DEF TypeOK
<1>8. seen' \in [(DOMAIN seen \ evicted) \cup {key} -> TagReport]
  BY <1>1, <1>6, <1>7
<1>9. QED
  BY <1>3, <1>6, <1>8

-----------------------------------------------------------------------------
(* Every variable keeps its type.                                            *)
LEMMA TypeStep == TypeOK /\ [Next]_vars => TypeOK'
<1> SUFFICES ASSUME TypeOK, [Next]_vars
             PROVE  TypeOK'
  OBVIOUS
<1> USE DEF TypeOK, ScannerTypeOK, NoInstant, Never, tableVars
<1>1. CASE StartScan /\ UNCHANGED tableVars
  BY <1>1, TimingAssumption DEF StartScan
<1>2. CASE StopScan /\ UNCHANGED tableVars
  <2>1. now + SCAN_INTERVAL - SCAN_WINDOW \in Nat
    BY TimingAssumption
  <2>2. QED
    BY <1>2, <2>1 DEF StopScan
<1>3. CASE OnAdvReports /\ UNCHANGED tableVars
  BY <1>3 DEF OnAdvReports
<1>4. CASE (\E report \in AdvReport : NextReport(report)) /\ UNCHANGED tableVars
  <2>1. PICK report \in AdvReport : NextReport(report)
    BY <1>4
  <2>2. [addr |-> report.addr, payload |-> report.payload, timestamp |-> instant] \in TagReport
    BY <2>1 DEF NextReport, Idle, AdvReport, TagReport
  <2>3. queue' \in Seq(TagReport) /\ Len(queue') <= CHANNEL_CAPACITY
    BY <2>1, <2>2, TrySendEffect DEF NextReport
  <2>4. QED
    BY <1>4, <2>1, <2>3 DEF NextReport
<1>5. CASE (\E report \in AdvReport : SkipReport(report)) /\ UNCHANGED tableVars
  BY <1>5 DEF SkipReport
<1>6. CASE EndOfReports /\ UNCHANGED tableVars
  BY <1>6 DEF EndOfReports
<1>7. CASE AutomaticCleanup
  BY <1>7 DEF AutomaticCleanup, scannerVars, FreshKeys, Restrict
<1>8. CASE ReceiveTags
  <2>1. /\ queue' \in Seq(TagReport)
        /\ Len(queue') <= CHANNEL_CAPACITY
        /\ UNCHANGED <<now, instant, scanning, switchAt>>
    <3>1. Receive
      BY <1>8 DEF ReceiveTags
    <3>2. QED
      BY <3>1, ChannelAssumption, ReceiveEffect DEF Receive
  <2>2. KeyOf(Head(queue)) \in Device
    BY <1>8, ReceiveEffect DEF ReceiveTags, KeyOf, TagReport, BdAddr
  <2>3. DOMAIN seen' \subseteq Device /\ seen' \in [DOMAIN seen' -> TagReport]
    BY <1>8, <2>2, FilingEffect
  <2>4. heard' \in [Device -> Nat \cup {Never}]
    BY <1>8, ReceiveEffect DEF ReceiveTags, TagReport
  <2>5. QED
    BY <1>8, <2>1, <2>3, <2>4 DEF ReceiveTags
<1>9. CASE SendScanData
  <2>1. packet' \subseteq Tag
    <3>1. \A key \in DOMAIN seen :
            /\ ReverseAddr(seen[key].addr) \in Eui48
            /\ AgeSecs(seen[key].timestamp) \in Int
      BY TableAssumption DEF TagReport, BdAddr, ReverseAddr, Eui48, AgeSecs
    <3>2. QED
      BY <1>9, <3>1 DEF SendScanData, Snapshot, Tag
  <2>2. QED
    BY <1>9, <2>1 DEF SendScanData, scannerVars
<1>10. CASE WriteDone
  BY <1>10 DEF WriteDone, scannerVars
<1>11. CASE PauseOver
  BY <1>11 DEF PauseOver, scannerVars
<1>12. CASE SetRequest
  BY <1>12 DEF SetRequest, scannerVars
<1>13. CASE Tick
  BY <1>13 DEF Tick, scannerVars
<1>14. CASE UNCHANGED vars
  BY <1>14 DEF vars, scannerVars
<1> HIDE DEF TypeOK, ScannerTypeOK, NoInstant, Never, tableVars
<1>15. QED
  BY <1>1, <1>2, <1>3, <1>4, <1>5, <1>6, <1>7, <1>8, <1>9, <1>10, <1>11, <1>12,
     <1>13, <1>14 DEF Next, ScannerNext

(***************************************************************************)
(* The network core has just started, at the first moment or at a later     *)
(* one, when it has forgotten all it heard.                                 *)
(***************************************************************************)
Fresh ==
    /\ now \in Nat
    /\ ScannerInit
    /\ seen = [key \in {} |-> 0]
    /\ cleanupAt = now
    /\ request \in BOOLEAN
    /\ sender = "waiting"
    /\ packet = {}
    /\ heard = [key \in Device |-> Never]

(* The core starts with nothing heard.                                       *)
LEMMA InitFresh == Init => Fresh
BY DEF Init, Fresh

(* The types hold when nothing was heard yet.                                *)
LEMMA FreshType == Fresh => TypeOK
<1> SUFFICES ASSUME Fresh PROVE TypeOK
  OBVIOUS
<1>1. ScannerTypeOK
  <2>1. <<>> \in Seq(TagReport) /\ Len(<<>>) = 0
    BY EmptySeq
  <2>2. queue \in Seq(TagReport) /\ Len(queue) <= CHANNEL_CAPACITY
    <3>1. queue = <<>>
      BY DEF Fresh, ScannerInit
    <3>2. 0 <= CHANNEL_CAPACITY
      BY ChannelAssumption
    <3>3. QED
      BY <2>1, <3>1, <3>2
  <2>3. QED
    BY <2>2 DEF Fresh, ScannerInit, ScannerTypeOK, NoInstant
<1>2. DOMAIN seen \subseteq Device /\ seen \in [DOMAIN seen -> TagReport]
  BY DEF Fresh
<1>3. QED
  BY <1>1, <1>2 DEF Fresh, TypeOK, Never

(* Every variable of the firmware's model keeps its type.                    *)
THEOREM TypeCorrect == Spec => []TypeOK
BY InitFresh, FreshType, TypeStep, PTL DEF Spec

-----------------------------------------------------------------------------
(* The steps that leave alone everything the invariant speaks of.            *)
Quiet == UNCHANGED <<now, queue, instant, seen, cleanupAt, packet, heard>>

(* The other steps, for the lemmas that follow.                              *)
LEMMA StepCases ==
  ASSUME [Next]_vars
  PROVE  \/ Quiet
         \/ OnAdvReports /\ UNCHANGED tableVars
         \/ (\E report \in AdvReport : NextReport(report)) /\ UNCHANGED tableVars
         \/ EndOfReports /\ UNCHANGED tableVars
         \/ AutomaticCleanup
         \/ ReceiveTags
         \/ SendScanData
         \/ PauseOver
         \/ Tick
<1>1. CASE StartScan /\ UNCHANGED tableVars
  BY <1>1 DEF StartScan, Quiet, tableVars
<1>2. CASE StopScan /\ UNCHANGED tableVars
  BY <1>2 DEF StopScan, Quiet, tableVars
<1>3. CASE (\E report \in AdvReport : SkipReport(report)) /\ UNCHANGED tableVars
  BY <1>3 DEF SkipReport, Quiet, tableVars
<1>4. CASE WriteDone
  BY <1>4 DEF WriteDone, Quiet, scannerVars
<1>5. CASE SetRequest
  BY <1>5 DEF SetRequest, Quiet, scannerVars
<1>6. CASE UNCHANGED vars
  BY <1>6 DEF vars, Quiet, scannerVars, tableVars
<1>7. QED
  BY <1>1, <1>2, <1>3, <1>4, <1>5, <1>6 DEF Next, ScannerNext

-----------------------------------------------------------------------------
(* What TypeOK says of the channel and the clock.                            *)
LEMMA ChannelTypes ==
  ASSUME TypeOK
  PROVE  /\ queue \in Seq(TagReport)
         /\ Len(queue) \in Nat
         /\ \A i \in 1 .. Len(queue) : queue[i].timestamp \in Nat
         /\ now \in Nat
         /\ MaxLag \in Nat
<1>1. queue \in Seq(TagReport) /\ now \in Nat
  BY DEF TypeOK, ScannerTypeOK
<1>2. \A i \in 1 .. Len(queue) : queue[i] \in TagReport
  BY <1>1, ElementOfSeq
<1>3. QED
  BY <1>1, <1>2, LenProperties, TimingAssumption DEF TagReport

(* Reports wait in the order of their timestamps, and not for long.          *)
LEMMA ChannelStep ==
  ASSUME TypeOK, ChannelInv, [Next]_vars
  PROVE  ChannelInv'
<1> USE DEF ChannelInv, Idle
<1>0. /\ queue \in Seq(TagReport)
      /\ Len(queue) \in Nat
      /\ \A i \in 1 .. Len(queue) : queue[i].timestamp \in Nat
      /\ now \in Nat
      /\ MaxLag \in Nat
  BY ChannelTypes
<1>1. CASE Quiet
  BY <1>1 DEF Quiet
<1>2. CASE OnAdvReports \/ EndOfReports
  BY <1>2 DEF OnAdvReports, EndOfReports
<1>3. CASE \E report \in AdvReport : NextReport(report)
  <2>1. PICK report \in AdvReport : NextReport(report)
    BY <1>3
  <2> DEFINE new == [addr |-> report.addr, payload |-> report.payload, timestamp |-> now]
  <2>2. /\ UNCHANGED <<now, instant>>
        /\ TrySend(new)
        /\ new \in TagReport
        /\ new.addr[2] = TAG_PREFIX
    BY <1>0, <2>1 DEF NextReport, EndsWith, AdvReport, TagReport
  <2>3. /\ queue' \in Seq(TagReport)
        /\ Len(queue) <= Len(queue')
        /\ \A i \in 1 .. Len(queue') :
             \/ i \in 1 .. Len(queue) /\ queue'[i] = queue[i]
             \/ i = Len(queue') /\ queue'[i] = new
    BY <2>2, TrySendEffect DEF TypeOK, ScannerTypeOK
  <2>4. \A i \in 1 .. Len(queue') :
          /\ queue'[i].addr[2] = TAG_PREFIX
          /\ queue'[i].timestamp <= now
          /\ now <= queue'[i].timestamp + MaxLag
    BY <1>0, <2>2, <2>3
  <2>5. \A i, j \in 1 .. Len(queue') :
          i <= j => queue'[i].timestamp <= queue'[j].timestamp
    BY <1>0, <2>2, <2>3
  <2>6. QED
    BY <2>2, <2>4, <2>5
<1>4. CASE ReceiveTags
  <2>1. /\ Receive
        /\ UNCHANGED <<now, instant>>
    BY <1>4 DEF ReceiveTags, Receive
  <2>2. \A i \in 1 .. Len(queue') : i + 1 \in 1 .. Len(queue) /\ queue'[i] = queue[i + 1]
    BY <1>0, <2>1, ReceiveEffect
  <2>3. \A i, j \in 1 .. Len(queue') :
          i <= j => queue'[i].timestamp <= queue'[j].timestamp
    <3> SUFFICES ASSUME NEW i \in 1 .. Len(queue'), NEW j \in 1 .. Len(queue'), i <= j
                 PROVE  queue'[i].timestamp <= queue'[j].timestamp
      OBVIOUS
    <3>1. /\ i + 1 \in 1 .. Len(queue)
          /\ j + 1 \in 1 .. Len(queue)
          /\ queue'[i] = queue[i + 1]
          /\ queue'[j] = queue[j + 1]
      BY <2>2
    <3>2. i + 1 <= j + 1
      BY <1>0, <3>1
    <3>3. queue[i + 1].timestamp <= queue[j + 1].timestamp
      BY <3>1, <3>2
    <3>4. QED
      BY <3>1, <3>3
  <2>4. QED
    BY <2>1, <2>2, <2>3
<1>5. CASE Tick
  <2>1. /\ Idle
        /\ now' = now + 1
        /\ UNCHANGED <<queue, instant>>
        /\ queue # <<>> => now < Head(queue).timestamp + MaxLag
    BY <1>5 DEF Tick, ScannerPermitsTick, scannerVars
  <2>2. \A i \in 1 .. Len(queue) : now + 1 <= queue[i].timestamp + MaxLag
    <3>1. SUFFICES ASSUME NEW i \in 1 .. Len(queue)
                   PROVE  now + 1 <= queue[i].timestamp + MaxLag
      OBVIOUS
    <3>2. queue # <<>> /\ 1 \in 1 .. Len(queue)
      BY <1>0, EmptySeq
    <3>3. now < queue[1].timestamp + MaxLag
      BY <1>0, <2>1, <3>2, HeadTailProperties
    <3>4. queue[1].timestamp <= queue[i].timestamp
      BY <3>2
    <3>5. QED
      BY <1>0, <3>2, <3>3, <3>4
  <2>3. QED
    BY <1>0, <2>1, <2>2
<1>6. CASE AutomaticCleanup \/ SendScanData \/ PauseOver
  BY <1>6 DEF AutomaticCleanup, SendScanData, PauseOver, scannerVars
<1>7. QED
  BY <1>1, <1>2, <1>3, <1>4, <1>5, <1>6, StepCases

(* Nothing waiting in the channel is older than what was taken from it.      *)
LEMMA HeardStep ==
  ASSUME TypeOK, ChannelInv, HeardInv, [Next]_vars
  PROVE  HeardInv'
<1> USE DEF HeardInv
<1>0. /\ queue \in Seq(TagReport)
      /\ Len(queue) \in Nat
      /\ \A i \in 1 .. Len(queue) : queue[i].timestamp \in Nat
      /\ now \in Nat
      /\ heard \in [Device -> Int]
  BY ChannelTypes DEF TypeOK, Never
<1>1. CASE Quiet
  BY <1>1 DEF Quiet
<1>2. CASE (OnAdvReports \/ EndOfReports) /\ UNCHANGED tableVars
  BY <1>2 DEF OnAdvReports, EndOfReports, tableVars
<1>3. CASE (\E report \in AdvReport : NextReport(report)) /\ UNCHANGED tableVars
  <2>1. PICK report \in AdvReport : NextReport(report)
    BY <1>3
  <2> DEFINE new == [addr |-> report.addr, payload |-> report.payload, timestamp |-> now]
  <2>2. /\ UNCHANGED <<now, heard>>
        /\ TrySend(new)
        /\ new \in TagReport
    BY <1>0, <1>3, <2>1 DEF NextReport, AdvReport, TagReport, ChannelInv, tableVars
  <2>3. \A i \in 1 .. Len(queue') :
          \/ i \in 1 .. Len(queue) /\ queue'[i] = queue[i]
          \/ queue'[i] = new
    BY <2>2, TrySendEffect DEF TypeOK, ScannerTypeOK
  <2>4. QED
    BY <1>0, <2>2, <2>3
<1>4. CASE ReceiveTags
  <2>1. /\ Receive
        /\ now' = now
    BY <1>4 DEF ReceiveTags, Receive
  <2>2. /\ \A i \in 1 .. Len(queue') : i + 1 \in 1 .. Len(queue) /\ queue'[i] = queue[i + 1]
        /\ 1 \in 1 .. Len(queue)
        /\ Head(queue) = queue[1]
    BY <1>0, <2>1, ReceiveEffect
  <2>3. \A d \in Device : heard'[d] \in {heard[d], queue[1].timestamp}
    BY <1>0, <1>4, <2>2 DEF ReceiveTags
  <2>4. \A i \in 1 .. Len(queue') : queue[1].timestamp <= queue'[i].timestamp
    BY <1>0, <2>2 DEF ChannelInv
  <2>5. queue[1].timestamp <= now
    BY <2>2 DEF ChannelInv
  <2>6. QED
    BY <1>0, <2>1, <2>2, <2>3, <2>4, <2>5
<1>5. CASE Tick
  BY <1>0, <1>5 DEF Tick, scannerVars, tableVars
<1>6. CASE AutomaticCleanup \/ SendScanData \/ PauseOver
  BY <1>6 DEF AutomaticCleanup, SendScanData, PauseOver, scannerVars
<1>7. QED
  BY <1>1, <1>2, <1>3, <1>4, <1>5, <1>6, StepCases

(* The clean-up task is never more than MaxLag late.                         *)
LEMMA CleanupStep ==
  ASSUME TypeOK, CleanupInv, [Next]_vars
  PROVE  CleanupInv'
<1> USE TimingAssumption DEF TypeOK, ScannerTypeOK, CleanupInv
<1>1. CASE Quiet
  BY <1>1 DEF Quiet
<1>2. CASE UNCHANGED <<now, cleanupAt>>
  BY <1>2
<1>3. CASE AutomaticCleanup
  BY <1>3 DEF AutomaticCleanup
<1>4. CASE Tick
  BY <1>4 DEF Tick, tableVars
<1>5. CASE ReceiveTags \/ SendScanData \/ PauseOver
  BY <1>2, <1>5 DEF ReceiveTags, Receive, SendScanData, PauseOver
<1>6. CASE /\ OnAdvReports \/ EndOfReports \/ \E report \in AdvReport : NextReport(report)
           /\ UNCHANGED tableVars
  BY <1>2, <1>6 DEF OnAdvReports, EndOfReports, NextReport, tableVars
<1>7. QED
  BY <1>1, <1>3, <1>4, <1>5, <1>6, StepCases

-----------------------------------------------------------------------------
(* What receive_tags files, seen through the invariant: the entry of the     *)
(* device that sent it, newer than everything heard before.                  *)
LEMMA FiledReport ==
  ASSUME TypeOK, ChannelInv, HeardInv, ReceiveTags
  PROVE  LET report == Head(queue)
             key    == KeyOf(report)
         IN  /\ key \in Device
             /\ report \in TagReport
             /\ report.addr = <<key, TAG_PREFIX>>
             /\ now <= report.timestamp + MaxLag
             /\ \A d \in Device : heard[d] <= report.timestamp
             /\ heard' = [heard EXCEPT ![key] = report.timestamp]
             /\ UNCHANGED <<now, cleanupAt>>
<1> DEFINE report == Head(queue)
           key    == KeyOf(report)
<1>1. Receive /\ queue \in Seq(TagReport)
  BY DEF ReceiveTags, TypeOK, ScannerTypeOK
<1>2. /\ report \in TagReport
      /\ report = queue[1]
      /\ 1 \in 1 .. Len(queue)
  BY <1>1, ReceiveEffect
<1>3. /\ report.addr[2] = TAG_PREFIX
      /\ now <= report.timestamp + MaxLag
      /\ \A d \in Device : heard[d] <= report.timestamp
  BY <1>2 DEF ChannelInv, HeardInv
<1>4. key \in Device /\ report.addr = <<key, TAG_PREFIX>>
  BY <1>2, <1>3 DEF KeyOf, TagReport, BdAddr
<1>5. heard' = [heard EXCEPT ![key] = report.timestamp] /\ UNCHANGED <<now, cleanupAt>>
  BY <1>1 DEF ReceiveTags, Receive, KeyOf
<1>6. QED
  BY <1>2, <1>3, <1>4, <1>5

(* An entry is the latest report of its device, and was young enough at the  *)
(* last clean-up.                                                            *)
LEMMA TableStep ==
  ASSUME TypeOK, ChannelInv, HeardInv, CleanupInv, TableInv, [Next]_vars
  PROVE  TableInv'
<1> USE DEF TableInv
<1>0. /\ now \in Nat
      /\ cleanupAt \in Nat
      /\ DOMAIN seen \subseteq Device
      /\ \A key \in DOMAIN seen : seen[key].timestamp \in Nat
  BY DEF TypeOK, ScannerTypeOK, TagReport
<1>1. CASE UNCHANGED <<seen, heard, cleanupAt>>
  BY <1>1
<1>2. CASE AutomaticCleanup
  <2>1. /\ UNCHANGED <<now, heard>>
        /\ cleanupAt' = now
        /\ DOMAIN seen' = FreshKeys
        /\ \A key \in FreshKeys : seen'[key] = seen[key]
    BY <1>2 DEF AutomaticCleanup, Restrict
  <2>2. \A key \in FreshKeys :
          key \in DOMAIN seen /\ now < seen[key].timestamp + MaxAge
    BY <1>0, MaxAgeType DEF FreshKeys
  <2>3. QED
    BY <2>1, <2>2
<1>3. CASE ReceiveTags
  <2> DEFINE report == Head(queue)
             key    == KeyOf(report)
  <2>1. PICK evicted \in SUBSET DOMAIN seen :
          /\ DOMAIN seen' = (DOMAIN seen \ evicted) \cup {key}
          /\ seen'[key] = report
          /\ \A k \in DOMAIN seen \ evicted : k # key => seen'[k] = seen[k]
    BY <1>3, FilingEffect
  <2>2. /\ key \in Device
        /\ report.timestamp \in Nat
        /\ report.addr = <<key, TAG_PREFIX>>
        /\ now <= report.timestamp + MaxLag
        /\ heard' = [heard EXCEPT ![key] = report.timestamp]
        /\ cleanupAt' = cleanupAt
    BY <1>3, FiledReport DEF TagReport
  <2>3. cleanupAt < report.timestamp + MaxAge
    BY <1>0, <2>2, MaxAgeType, TimingAssumption DEF CleanupInv
  <2>4. heard'[key] = report.timestamp /\ \A k \in Device : k # key => heard'[k] = heard[k]
    BY <2>2 DEF TypeOK
  <2>5. QED
    BY <1>0, <2>1, <2>2, <2>3, <2>4
<1>4. CASE Quiet
  BY <1>1, <1>4 DEF Quiet
<1>5. CASE SendScanData \/ PauseOver \/ Tick \/ UNCHANGED tableVars
  BY <1>1, <1>5 DEF SendScanData, PauseOver, Tick, tableVars
<1>6. QED
  BY <1>2, <1>3, <1>4, <1>5, StepCases

(* The table never holds more than MAX_SEEN entries.                         *)
LEMMA CapacityStep ==
  ASSUME TypeOK, CapacityInv, [Next]_vars
  PROVE  CapacityInv' /\ (ReceiveTags /\ IsFull(seen) => IsFull(seen'))
<1> USE DEF CapacityInv
<1>0. /\ IsFiniteSet(DOMAIN seen)
      /\ Cardinality(DOMAIN seen) \in Nat
      /\ MAX_SEEN \in Nat \ {0}
  BY TableFinite, TableAssumption
<1>1. ReceiveTags => CapacityInv' /\ (IsFull(seen) => IsFull(seen'))
  <2> SUFFICES ASSUME ReceiveTags
               PROVE  CapacityInv' /\ (IsFull(seen) => IsFull(seen'))
    OBVIOUS
  <2> DEFINE key == KeyOf(Head(queue))
  <2>1. PICK evicted \in SUBSET DOMAIN seen :
          /\ DOMAIN seen' = (DOMAIN seen \ evicted) \cup {key}
          /\ \/ /\ evicted = {}
                /\ key \in DOMAIN seen \/ ~IsFull(seen)
             \/ /\ IsFull(seen)
                /\ key \notin DOMAIN seen
                /\ \E oldest \in OldestKeys(seen) : evicted = {oldest}
    BY FilingEffect
  <2>2. CASE evicted = {}
    <3>1. /\ DOMAIN seen' = DOMAIN seen \cup {key}
          /\ key \in DOMAIN seen \/ ~IsFull(seen)
      BY <2>1, <2>2
    <3>2. Cardinality(DOMAIN seen') =
            IF key \in DOMAIN seen THEN Cardinality(DOMAIN seen) ELSE Cardinality(DOMAIN seen) + 1
      BY <1>0, <3>1, FS_AddElement
    <3>3. QED
      BY <1>0, <3>1, <3>2 DEF IsFull
  <2>3. CASE evicted # {}
    <3>1. PICK oldest \in DOMAIN seen :
            /\ evicted = {oldest}
            /\ key \notin DOMAIN seen
            /\ IsFull(seen)
      BY <2>1, <2>3 DEF OldestKeys
    <3> DEFINE rest == DOMAIN seen \ {oldest}
    <3>2. IsFiniteSet(rest) /\ Cardinality(rest) = MAX_SEEN - 1
      BY <1>0, <3>1, FS_RemoveElement DEF IsFull
    <3>3. DOMAIN seen' = rest \cup {key} /\ key \notin rest
      BY <2>1, <3>1
    <3>4. Cardinality(DOMAIN seen') = MAX_SEEN
      <4> HIDE DEF rest, key
      <4>1. Cardinality(rest \cup {key}) = Cardinality(rest) + 1
        BY <3>2, <3>3, FS_AddElement
      <4>2. QED
        BY <1>0, <3>2, <3>3, <4>1
    <3>5. QED
      BY <1>0, <3>4 DEF IsFull
  <2>4. QED
    BY <2>2, <2>3
<1>2. CASE seen' = seen
  BY <1>1, <1>2 DEF IsFull
<1>3. CASE AutomaticCleanup
  <2>1. DOMAIN seen' \subseteq DOMAIN seen
    BY <1>3 DEF AutomaticCleanup, FreshKeys, Restrict
  <2>2. Cardinality(DOMAIN seen') \in Nat /\ Cardinality(DOMAIN seen') <= Cardinality(DOMAIN seen)
    BY <1>0, <2>1, FS_Subset, FS_CardinalityType
  <2>3. QED
    BY <1>0, <1>1, <2>2
<1>4. CASE Quiet \/ SendScanData \/ PauseOver \/ Tick \/ UNCHANGED tableVars
  BY <1>2, <1>4 DEF Quiet, SendScanData, PauseOver, Tick, tableVars
<1>5. QED
  BY <1>1, <1>3, <1>4, StepCases

-----------------------------------------------------------------------------
(* What the table promises survives every step.                              *)
LEMMA KeepsStep ==
  ASSUME IInv, [Next]_vars
  PROVE  KeepsMostRecent'
<1> USE DEF IInv
<1>0. /\ now \in Nat
      /\ MaxAge \in Nat
      /\ DOMAIN seen \subseteq Device
      /\ \A key \in DOMAIN seen : seen[key].timestamp \in Nat
      /\ heard \in [Device -> Int]
  BY MaxAgeType DEF TypeOK, ScannerTypeOK, TagReport, Never
<1>1. CASE UNCHANGED <<now, seen, heard>>
  BY <1>1 DEF KeepsMostRecent, Listed, Expired, Displaced, IsFull
<1>2. CASE AutomaticCleanup
  <2> SUFFICES ASSUME NEW d \in Device, heard'[d] # Never
               PROVE  Listed(d)' \/ Expired(d)' \/ Displaced(d)'
    BY DEF KeepsMostRecent
  <2>1. /\ UNCHANGED <<now, heard>>
        /\ DOMAIN seen' = FreshKeys
        /\ \A key \in FreshKeys : seen'[key] = seen[key]
        /\ seen' = Restrict(seen, FreshKeys)
    BY <1>2 DEF AutomaticCleanup, Restrict
  <2>2. CASE Listed(d)
    <3>1. CASE d \in FreshKeys
      BY <2>1, <2>2, <3>1 DEF Listed
    <3>2. CASE d \notin FreshKeys
      BY <1>0, <2>1, <2>2, <3>2 DEF Listed, Expired, FreshKeys
    <3>3. QED
      BY <3>1, <3>2
  <2>3. CASE Expired(d)
    BY <2>1, <2>3 DEF Expired
  <2>4. CASE Displaced(d)
    <3>1. CASE FreshKeys = DOMAIN seen
      BY <2>1, <2>4, <3>1 DEF Displaced, IsFull
    <3>2. CASE FreshKeys # DOMAIN seen
      <4>0. PICK key \in DOMAIN seen : key \notin FreshKeys
        BY <3>2 DEF FreshKeys
      <4>1. now - seen[key].timestamp >= MaxAge
        BY <1>0, <4>0 DEF FreshKeys
      <4>2. heard[d] <= seen[key].timestamp
        BY <1>0, <2>4, <4>1 DEF Displaced
      <4>3. QED
        BY <1>0, <2>1, <4>1, <4>2 DEF Expired
    <3>3. QED
      BY <3>1, <3>2
  <2>5. QED
    BY <2>1, <2>2, <2>3, <2>4 DEF KeepsMostRecent
<1>3. CASE ReceiveTags
  <2> SUFFICES ASSUME NEW d \in Device, heard'[d] # Never
               PROVE  Listed(d)' \/ Expired(d)' \/ Displaced(d)'
    BY DEF KeepsMostRecent
  <2> DEFINE report == Head(queue)
             key    == KeyOf(report)
  <2>1. PICK evicted \in SUBSET DOMAIN seen :
          /\ DOMAIN seen' = (DOMAIN seen \ evicted) \cup {key}
          /\ seen'[key] = report
          /\ \A k \in DOMAIN seen \ evicted : k # key => seen'[k] = seen[k]
          /\ \/ evicted = {}
             \/ IsFull(seen) /\ \E oldest \in OldestKeys(seen) : evicted = {oldest}
    BY <1>3, FilingEffect
  <2>2. /\ key \in Device
        /\ report.timestamp \in Nat
        /\ \A e \in Device : heard[e] <= report.timestamp
        /\ heard'[key] = report.timestamp
        /\ \A e \in Device : e # key => heard'[e] = heard[e]
        /\ now' = now
    BY <1>0, <1>3, FiledReport DEF TagReport
  <2>3. CASE d = key
    BY <2>1, <2>2, <2>3 DEF Listed
  <2>4. CASE d # key
    <3>1. heard'[d] = heard[d] /\ heard[d] # Never
      BY <2>2, <2>4
    <3>2. CASE Listed(d) /\ d \notin evicted
      BY <2>1, <2>4, <3>1, <3>2 DEF Listed
    <3>3. CASE IsFull(seen) /\ \A k \in DOMAIN seen : seen[k].timestamp >= heard[d]
      <4>1. IsFull(seen')
        BY <1>3, <3>3, CapacityStep
      <4>2. \A k \in DOMAIN seen' : seen'[k].timestamp >= heard[d]
        BY <1>0, <2>1, <2>2, <3>3
      <4>3. QED
        BY <3>1, <4>1, <4>2 DEF Displaced, IsFull
    <3>4. CASE Listed(d) /\ d \in evicted
      <4>1. IsFull(seen) /\ d \in OldestKeys(seen)
        BY <2>1, <3>4
      <4>2. \A k \in DOMAIN seen : seen[k].timestamp >= heard[d]
        BY <1>0, <3>4, <4>1 DEF OldestKeys, Listed
      <4>3. QED
        BY <3>3, <4>1, <4>2
    <3>5. CASE Expired(d)
      BY <2>2, <3>1, <3>5 DEF Expired
    <3>6. QED
      BY <3>1, <3>2, <3>3, <3>4, <3>5 DEF KeepsMostRecent, Displaced
  <2>5. QED
    BY <2>3, <2>4
<1>4. CASE Tick
  BY <1>0, <1>4 DEF Tick, tableVars, KeepsMostRecent, Listed, Expired, Displaced, IsFull
<1>5. CASE Quiet \/ SendScanData \/ PauseOver
  BY <1>1, <1>5 DEF Quiet, SendScanData, PauseOver
<1>6. CASE /\ OnAdvReports \/ EndOfReports \/ \E report \in AdvReport : NextReport(report)
           /\ UNCHANGED tableVars
  BY <1>1, <1>6 DEF OnAdvReports, EndOfReports, NextReport, tableVars
<1>7. QED
  BY <1>2, <1>3, <1>4, <1>5, <1>6, StepCases

(* The age of an entry, at any time, is below the bound of AgesBounded.      *)
LEMMA EntryAge ==
  ASSUME TypeOK, HeardInv, CleanupInv, TableInv, NEW key \in DOMAIN seen
  PROVE  LET age == now - seen[key].timestamp
         IN  /\ age \in Int
             /\ age >= 0
             /\ age < MaxAge + SCAN_INTERVAL + MaxLag
             /\ AgeSecs(seen[key].timestamp) = age
<1>1. /\ now \in Nat
      /\ cleanupAt \in Nat
      /\ seen[key].timestamp \in Nat
      /\ seen[key].timestamp <= now
      /\ cleanupAt < seen[key].timestamp + MaxAge
  BY DEF TypeOK, ScannerTypeOK, TagReport, TableInv, HeardInv
<1>2. now <= cleanupAt + SCAN_INTERVAL + MaxLag
  BY DEF CleanupInv
<1>3. MaxAge + SCAN_INTERVAL + MaxLag <= U16_MAX
  <2>1. (ExpiryIntervals + 1) * SCAN_INTERVAL = MaxAge + SCAN_INTERVAL
    BY TimingAssumption, TableAssumption DEF MaxAge
  <2>2. QED
    BY <2>1, AgeAssumption
<1>4. QED
  BY <1>1, <1>2, <1>3, MaxAgeType, TimingAssumption, TableAssumption DEF AgeSecs

(* A packet is a snapshot of the table, and is dropped before the next one.  *)
LEMMA AgesStep ==
  ASSUME IInv, [Next]_vars
  PROVE  AgesBounded'
<1> USE DEF AgesBounded
<1>1. CASE packet' = packet
  BY <1>1 DEF IInv
<1>2. CASE SendScanData
  <2>1. \A key \in DOMAIN seen :
          /\ AgeSecs(seen[key].timestamp) >= 0
          /\ AgeSecs(seen[key].timestamp) < MaxAge + SCAN_INTERVAL + MaxLag
    BY EntryAge DEF IInv, TableInv, ReverseAddr
  <2>2. packet' = Snapshot
    BY <1>2 DEF SendScanData
  <2>3. QED
    BY <2>1, <2>2 DEF Snapshot
<1>3. CASE PauseOver
  BY <1>3 DEF PauseOver
<1>4. CASE Quiet \/ AutomaticCleanup \/ ReceiveTags \/ Tick \/ UNCHANGED tableVars
  BY <1>1, <1>4 DEF Quiet, AutomaticCleanup, ReceiveTags, Tick, tableVars
<1>5. QED
  BY <1>2, <1>3, <1>4, StepCases

-----------------------------------------------------------------------------
(* The invariant holds when nothing was heard yet.                           *)
LEMMA FreshInvariant == Fresh => IInv
<1> SUFFICES ASSUME Fresh PROVE IInv
  OBVIOUS
<1>1. TypeOK
  BY FreshType
<1>2. queue = <<>> /\ Len(queue) = 0 /\ Idle
  BY EmptySeq DEF Fresh, ScannerInit, Idle
<1>3. ChannelInv
  BY <1>2 DEF ChannelInv
<1>4. HeardInv
  BY <1>2 DEF HeardInv, Fresh, Never
<1>5. CleanupInv
  BY TimingAssumption DEF CleanupInv, Fresh
<1>6. DOMAIN seen = {}
  BY DEF Fresh
<1>7. CapacityInv
  BY <1>6, FS_EmptySet, TableAssumption DEF CapacityInv
<1>8. TableInv /\ KeepsMostRecent /\ AgesBounded
  BY <1>6 DEF TableInv, KeepsMostRecent, AgesBounded, Fresh
<1>9. QED
  BY <1>1, <1>3, <1>4, <1>5, <1>7, <1>8 DEF IInv

(* Every step keeps the invariant.                                           *)
LEMMA StepInvariant == IInv /\ [Next]_vars => IInv'
<1> SUFFICES ASSUME IInv, [Next]_vars PROVE IInv'
  OBVIOUS
<1>1. TypeOK' /\ ChannelInv' /\ HeardInv' /\ CleanupInv' /\ TableInv' /\ CapacityInv'
  BY TypeStep, ChannelStep, HeardStep, CleanupStep, TableStep, CapacityStep DEF IInv
<1>2. QED
  BY <1>1, KeepsStep, AgesStep DEF IInv

(* The conjunction of all the parts is inductive, and so always holds.       *)
THEOREM InvariantCorrect == Spec => []IInv
BY InitFresh, FreshInvariant, StepInvariant, PTL DEF Spec

(* receive_tags, automatic_cleanup and the eviction lose no device that a    *)
(* staler one survives, however they interleave.                             *)
THEOREM KeepsMostRecentCorrect == Spec => []KeepsMostRecent
<1>1. IInv => KeepsMostRecent
  BY DEF IInv
<1>2. QED
  BY <1>1, InvariantCorrect, PTL

(* Every packet holds tags of ours, with ages that are neither negative nor  *)
(* above MaxAge plus a clean-up period.                                      *)
THEOREM AgesBoundedCorrect == Spec => []AgesBounded
<1>1. IInv => AgesBounded
  BY DEF IInv
<1>2. QED
  BY <1>1, InvariantCorrect, PTL

-----------------------------------------------------------------------------
(* A device that is owed a place has one: were it displaced, MAX_SEEN other  *)
(* devices would have been heard as recently.                                *)
LEMMA OwedIsListed ==
  ASSUME IInv, NEW d \in Device, OwedTo(d)
  PROVE  Listed(d)
<1>1. Listed(d) \/ Displaced(d)
  <2>1. now \in Nat /\ MaxAge \in Nat /\ heard[d] \in Int
    BY MaxAgeType DEF IInv, TypeOK, ScannerTypeOK, Never
  <2>2. QED
    BY <2>1 DEF IInv, KeepsMostRecent, OwedTo, Expired
<1>2. ASSUME Displaced(d), d \notin DOMAIN seen
      PROVE  FALSE
  <2>1. DOMAIN seen \subseteq AsRecent(d)
    BY <1>2 DEF Displaced, IInv, TypeOK, TableInv, AsRecent
  <2>2. IsFiniteSet(AsRecent(d)) /\ Cardinality(AsRecent(d)) \in Nat
    BY DeviceAssumption, FS_Subset, FS_CardinalityType DEF AsRecent
  <2>3. Cardinality(DOMAIN seen) <= Cardinality(AsRecent(d))
    BY <2>1, <2>2, FS_Subset
  <2>4. QED
    BY <1>2, <2>2, <2>3, TableAssumption DEF Displaced, IsFull, OwedTo
<1>3. QED
  BY <1>1, <1>2 DEF IInv, TableInv, Listed

(* The packet a snapshot produces lists every device that is owed a place,   *)
(* with its exact age.                                                       *)
THEOREM SnapshotCompleteCorrect == Spec => SnapshotComplete
<1> DEFINE Complete ==
      sender = "waiting" /\ sender' = "writing" =>
        \A d \in Device : OwedTo(d) =>
          [addr |-> <<TAG_PREFIX, d>>, age |-> now - heard[d]] \in packet'
<1>1. IInv /\ [Next]_vars => [Complete]_vars
  <2> SUFFICES ASSUME IInv, SendScanData, NEW d \in Device, OwedTo(d)
               PROVE  [addr |-> <<TAG_PREFIX, d>>, age |-> now - heard[d]] \in packet'
    <3>1. ASSUME [Next]_vars, sender = "waiting", sender' = "writing"
          PROVE  SendScanData
      BY <3>1 DEF Next, vars, tableVars, AutomaticCleanup, ReceiveTags, WriteDone,
                  PauseOver, SetRequest, Tick
    <3>2. QED
      BY <3>1
  <2>1. Listed(d)
    BY OwedIsListed
  <2>2. /\ ReverseAddr(seen[d].addr) = <<TAG_PREFIX, d>>
        /\ AgeSecs(seen[d].timestamp) = now - heard[d]
    BY <2>1, EntryAge DEF IInv, Listed, TableInv, ReverseAddr
  <2>3. QED
    BY <2>1, <2>2 DEF SendScanData, Snapshot, Listed
<1>2. Spec => [][Complete]_vars
  BY <1>1, InvariantCorrect, PTL DEF Spec
<1>3. QED
  BY <1>2 DEF SnapshotComplete

(***************************************************************************)
(* What a snapshot says: every tag in it with the time since its device was *)
(* last heard, and every device that is owed a place.                       *)
(***************************************************************************)
LEMMA SnapshotTells ==
  ASSUME IInv
  PROVE  /\ \A tag \in Snapshot :
              /\ tag.addr[2] \in Device
              /\ tag.age \in 0 .. U16_MAX
              /\ tag.age = now - heard[tag.addr[2]]
         /\ \A d \in Device : OwedTo(d) => \E tag \in Snapshot : tag.addr[2] = d
<1> DEFINE TagOf(key) ==
      [addr |-> ReverseAddr(seen[key].addr), age |-> AgeSecs(seen[key].timestamp)]
<1>1. Snapshot = {TagOf(key) : key \in DOMAIN seen}
  BY DEF Snapshot
<1>2. ASSUME NEW key \in DOMAIN seen
      PROVE  /\ key \in Device
             /\ TagOf(key).addr[2] = key
             /\ TagOf(key).age = now - heard[key]
             /\ TagOf(key).age \in 0 .. U16_MAX
  <2>1. key \in Device
    BY DEF IInv, TypeOK
  <2>2. seen[key].addr = <<key, TAG_PREFIX>> /\ seen[key].timestamp = heard[key]
    BY DEF IInv, TableInv
  <2>3. LET age == now - seen[key].timestamp
        IN  age \in Int /\ age >= 0 /\ AgeSecs(seen[key].timestamp) = age
    BY EntryAge DEF IInv
  <2>4. now - seen[key].timestamp \in 0 .. U16_MAX
    BY <2>3, TableAssumption DEF AgeSecs
  <2> QED
    BY <2>1, <2>2, <2>3, <2>4 DEF ReverseAddr
<1>3. ASSUME NEW d \in Device, OwedTo(d)
      PROVE  d \in DOMAIN seen
  BY <1>3, OwedIsListed DEF Listed
<1> HIDE DEF TagOf
<1> QED
  BY <1>1, <1>2, <1>3
=============================================================================
