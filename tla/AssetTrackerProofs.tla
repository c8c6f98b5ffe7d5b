------------------------- MODULE AssetTrackerProofs -------------------------
(***************************************************************************)
(* Proofs about the asset tracker as a whole, from what is proved of its    *)
(* two chips: that the update the gateway sends is true and current, for    *)
(* every number of devices, length of the periods, time a frame takes and   *)
(* number of faults.                                                        *)
(***************************************************************************)
EXTENDS AssetTracker, TLAPS

CoreProofs    == INSTANCE TagTableProofs
GatewayProofs == INSTANCE GatewayCycleProofs WITH
                    uartRequest <- request, TagId <- Device, Age <- 0 .. U16_MAX,
                    FAKE_POSITION <- FALSE

(***************************************************************************)
(* What a frame says, if m tells when it was made and from what: of every   *)
(* device it lists the age it had then, and every device owed is listed.    *)
(***************************************************************************)
Moment == [at : Nat, heard : [Device -> Nat \cup {Core!Never}], owed : SUBSET Device]
Frame  == [tags : SUBSET Core!Tag, made : Moment]

Tells(tags, m) ==
    /\ m.owed \subseteq Devices(tags)
    /\ \A tag \in tags :
        /\ tag.addr[2] \in Device
        /\ tag.age \in 0 .. U16_MAX
        /\ tag.age = m.at - m.heard[tag.addr[2]]

(***************************************************************************)
(* The frame being written, the frame that came through, and the ages the   *)
(* gateway has decoded tell of the table as it was: while a frame is under  *)
(* way no longer ago than FrameTime, and after the gateway asked; while the *)
(* ages wait for the link, as long before as linkWait, and that time.  The  *)
(* fix is as old as the request.                                            *)
(***************************************************************************)
WritingInv ==
    /\ made \in Moment
    /\ sender = "writing" =>
        /\ Tells(packet, made)
        /\ made.at <= now
        /\ now <= made.at + FrameTime
        /\ pc = "reading" => askedAt <= made.at

WireInv ==
    wire # <<>> =>
        /\ wire = <<wire[1]>>
        /\ wire[1] \in Frame
        /\ pc = "reading"
        /\ Tells(wire[1].tags, wire[1].made)
        /\ wire[1].made.at \in askedAt .. now
        /\ now <= wire[1].made.at + FrameTime

ToldInv ==
    /\ told \in Moment
    /\ pc = "linking" =>
        /\ told.owed \subseteq DOMAIN detected
        /\ \A d \in DOMAIN detected : d \in Device /\ detected[d] = told.at - told.heard[d]
        /\ askedAt <= told.at
        /\ told.at + linkWait <= now
        /\ now <= told.at + FrameTime + linkWait

FixInv == pc \in {"reading", "linking"} => fixAge = now - askedAt

LinkInv ==
    /\ WritingInv
    /\ WireInv
    /\ ToldInv
    /\ FixInv
    /\ askedAt \in 0 .. now
    /\ faults \in 0 .. MaxFaults

(* The assumptions of the two modules hold.                                  *)
LEMMA CoreFacts ==
    /\ CoreProofs!IInv /\ [CoreProofs!Next]_CoreProofs!vars => CoreProofs!IInv'
    /\ CoreProofs!Fresh => CoreProofs!IInv
<1>1. CoreProofs!IsFiniteSet(Device)
  BY CoreAssumption DEF IsFiniteSet, CoreProofs!IsFiniteSet
<1> QED
  BY <1>1, CoreAssumption, CoreProofs!StepInvariant, CoreProofs!FreshInvariant

(* What GatewayCycleProofs proves of every gateway, read for this one.       *)
LEMMA GatewayFacts ==
    /\ GatewayProofs!CycleInv /\ [GatewayProofs!Next]_GatewayProofs!vars => GatewayProofs!CycleInv'
    /\ GatewayProofs!TypeOK /\ [GatewayProofs!Next]_GatewayProofs!vars => GatewayProofs!TypeOK'
    /\ GatewayProofs!Init => GatewayProofs!CycleInv /\ GatewayProofs!TypeOK
<1>1. (0 .. U16_MAX) \subseteq 0 .. U16_MAX /\ FALSE \in BOOLEAN
  OBVIOUS
<1> QED
  BY <1>1, CoreAssumption, CycleAssumption, GatewayProofs!NextCycle, GatewayProofs!NextType,
     GatewayProofs!InitCycle, GatewayProofs!InitType

-----------------------------------------------------------------------------
(* The steps of the two chips are those of their modules.                    *)
LEMMA CoreSteps ==
    /\ Core!ScannerNext => CoreProofs!ScannerNext
    /\ Core!AutomaticCleanup => CoreProofs!AutomaticCleanup
    /\ Core!ReceiveTags => CoreProofs!ReceiveTags
    /\ Core!SendScanData => CoreProofs!SendScanData
    /\ Core!WriteDone => CoreProofs!WriteDone
    /\ Core!PauseOver => CoreProofs!PauseOver
    /\ Core!Tick => CoreProofs!Tick
    /\ Core!Init => CoreProofs!Init
<1>1. Core!ScannerNext => CoreProofs!ScannerNext
  BY DEF Core!ScannerNext, Core!StartScan, Core!StopScan, Core!OnAdvReports, Core!NextReport,
      Core!SkipReport, Core!EndOfReports, Core!Listening, Core!LongInterval, Core!EndsWith,
      Core!TrySend, Core!AdvReport, Core!BdAddr, Core!Idle, Core!NoInstant,
      CoreProofs!ScannerNext, CoreProofs!StartScan, CoreProofs!StopScan,
      CoreProofs!OnAdvReports, CoreProofs!NextReport, CoreProofs!SkipReport,
      CoreProofs!EndOfReports, CoreProofs!Listening, CoreProofs!LongInterval,
      CoreProofs!EndsWith, CoreProofs!TrySend, CoreProofs!AdvReport, CoreProofs!BdAddr,
      CoreProofs!Idle, CoreProofs!NoInstant
<1>2. Core!AutomaticCleanup => CoreProofs!AutomaticCleanup
  BY DEF Core!AutomaticCleanup, Core!scannerVars, Core!FreshKeys, Core!MaxAge, Core!Restrict,
      Core!Idle, Core!NoInstant, CoreProofs!AutomaticCleanup, CoreProofs!scannerVars,
      CoreProofs!FreshKeys, CoreProofs!MaxAge, CoreProofs!Restrict, CoreProofs!Idle,
      CoreProofs!NoInstant
<1>3. Core!ReceiveTags => CoreProofs!ReceiveTags
  BY DEF Core!ReceiveTags, Core!Receive, Core!KeyOf, Core!Evictions, Core!IsFull,
      Core!OldestKeys, Core!Insert, Core!Restrict, Core!Cardinality, Core!IsFiniteSet,
      Core!Idle, Core!NoInstant, CoreProofs!ReceiveTags, CoreProofs!Receive, CoreProofs!KeyOf,
      CoreProofs!Evictions, CoreProofs!IsFull, CoreProofs!OldestKeys, CoreProofs!Insert,
      CoreProofs!Restrict, CoreProofs!Cardinality, CoreProofs!IsFiniteSet, CoreProofs!Idle,
      CoreProofs!NoInstant
<1>4. Core!SendScanData => CoreProofs!SendScanData
  BY DEF Core!SendScanData, Core!Snapshot, Core!ReverseAddr, Core!AgeSecs, Core!scannerVars,
      Core!Idle, Core!NoInstant, CoreProofs!SendScanData, CoreProofs!Snapshot,
      CoreProofs!ReverseAddr, CoreProofs!AgeSecs, CoreProofs!scannerVars, CoreProofs!Idle,
      CoreProofs!NoInstant
<1>5. /\ Core!WriteDone => CoreProofs!WriteDone
      /\ Core!PauseOver => CoreProofs!PauseOver
  BY DEF Core!WriteDone, Core!PauseOver, Core!scannerVars, Core!Idle, Core!NoInstant,
      CoreProofs!WriteDone, CoreProofs!PauseOver, CoreProofs!scannerVars, CoreProofs!Idle,
      CoreProofs!NoInstant
<1>6. Core!Tick => CoreProofs!Tick
  BY DEF Core!Tick, Core!ScannerPermitsTick, Core!LongInterval, Core!scannerVars, Core!tableVars,
      Core!Idle, Core!NoInstant, CoreProofs!Tick, CoreProofs!ScannerPermitsTick,
      CoreProofs!LongInterval, CoreProofs!scannerVars, CoreProofs!tableVars, CoreProofs!Idle,
      CoreProofs!NoInstant
<1>7. Core!Init => CoreProofs!Init
  BY DEF Core!Init, Core!ScannerInit, Core!NoInstant, Core!Never, CoreProofs!Init,
      CoreProofs!ScannerInit, CoreProofs!NoInstant, CoreProofs!Never
<1> QED
  BY <1>1, <1>2, <1>3, <1>4, <1>5, <1>6, <1>7

(* Each step of the tracker's gateway is one of GatewayCycleProofs'.         *)
LEMMA GatewaySteps ==
    /\ Gateway!Boot => GatewayProofs!Boot
    /\ Gateway!ButtonPressed => GatewayProofs!ButtonPressed
    /\ Gateway!TimerElapsed => GatewayProofs!TimerElapsed
    /\ Gateway!Sent => GatewayProofs!Sent
    /\ Gateway!LedsOpened => GatewayProofs!LedsOpened
    /\ Gateway!ShowStatus => GatewayProofs!ShowStatus
    /\ Gateway!Reading(Gateway!Channel) => GatewayProofs!Reading(GatewayProofs!Channel)
    /\ \A tags : Gateway!Decoded(tags) => GatewayProofs!Decoded(tags)
    /\ Gateway!StartSending => GatewayProofs!StartSending
    /\ Gateway!SerializeError => GatewayProofs!SerializeError
    /\ Gateway!Tick => GatewayProofs!Tick
    /\ Gateway!Init => GatewayProofs!Init
<1>1. /\ Gateway!Boot => GatewayProofs!Boot
      /\ Gateway!Sent => GatewayProofs!Sent
  BY DEF Gateway!Boot, Gateway!Sent, Gateway!LedsSettled, Gateway!LoopTop, Gateway!StartUpdate,
      Gateway!TrySend, Gateway!ledVars, GatewayProofs!Boot, GatewayProofs!Sent,
      GatewayProofs!LedsSettled, GatewayProofs!LoopTop, GatewayProofs!StartUpdate,
      GatewayProofs!TrySend, GatewayProofs!ledVars
<1>2. /\ Gateway!ButtonPressed => GatewayProofs!ButtonPressed
      /\ Gateway!TimerElapsed => GatewayProofs!TimerElapsed
  BY DEF Gateway!ButtonPressed, Gateway!TimerElapsed, Gateway!Wake, Gateway!LedsSettled,
      Gateway!LoopTop, Gateway!StartUpdate, Gateway!TrySend, Gateway!ledVars,
      GatewayProofs!ButtonPressed, GatewayProofs!TimerElapsed, GatewayProofs!Wake,
      GatewayProofs!LedsSettled, GatewayProofs!LoopTop, GatewayProofs!StartUpdate,
      GatewayProofs!TrySend, GatewayProofs!ledVars
<1>3. /\ Gateway!LedsOpened => GatewayProofs!LedsOpened
      /\ Gateway!ShowStatus => GatewayProofs!ShowStatus
  BY DEF Gateway!LedsOpened, Gateway!ShowStatus, Gateway!updatesVars, Gateway!clockVars,
      GatewayProofs!LedsOpened, GatewayProofs!ShowStatus, GatewayProofs!updatesVars,
      GatewayProofs!clockVars
<1>4. Gateway!Reading(Gateway!Channel) => GatewayProofs!Reading(GatewayProofs!Channel)
  BY DEF Gateway!Reading, Gateway!Channel, Gateway!LedsSettled, Gateway!ReturnsAtOnce,
      Gateway!RequestTags,
      Gateway!RetryLater, Gateway!BackoffSecs, Gateway!U16, Gateway!AtMost, Gateway!TrySend,
      Gateway!ledVars, GatewayProofs!Reading, GatewayProofs!Channel,
      GatewayProofs!LedsSettled, GatewayProofs!ReturnsAtOnce, GatewayProofs!RequestTags, GatewayProofs!RetryLater,
      GatewayProofs!BackoffSecs, GatewayProofs!U16, GatewayProofs!AtMost,
      GatewayProofs!TrySend, GatewayProofs!ledVars
<1>5. \A tags : Gateway!Decoded(tags) => GatewayProofs!Decoded(tags)
  BY DEF Gateway!Decoded, Gateway!LedsSettled, Gateway!TrySend, Gateway!ledVars,
      GatewayProofs!Decoded, GatewayProofs!LedsSettled, GatewayProofs!TrySend,
      GatewayProofs!ledVars
<1>6. /\ Gateway!StartSending => GatewayProofs!StartSending
      /\ Gateway!SerializeError => GatewayProofs!SerializeError
  BY DEF Gateway!StartSending, Gateway!SerializeError, Gateway!LinkUp, Gateway!NewUpdate,
      Gateway!U16, Gateway!AtMost, Gateway!LedsSettled, Gateway!LoopTop, Gateway!StartUpdate,
      Gateway!TrySend, Gateway!ledVars, GatewayProofs!StartSending,
      GatewayProofs!SerializeError, GatewayProofs!LinkUp, GatewayProofs!NewUpdate,
      GatewayProofs!U16, GatewayProofs!AtMost, GatewayProofs!LedsSettled,
      GatewayProofs!LoopTop, GatewayProofs!StartUpdate, GatewayProofs!TrySend,
      GatewayProofs!ledVars
<1>7. Gateway!Tick => GatewayProofs!Tick
  BY DEF Gateway!Tick, Gateway!LedsSettled, Gateway!AtMost, Gateway!updatesVars, Gateway!ledVars,
      GatewayProofs!Tick, GatewayProofs!LedsSettled, GatewayProofs!AtMost,
      GatewayProofs!updatesVars, GatewayProofs!ledVars
<1>8. Gateway!Init => GatewayProofs!Init
  BY DEF Gateway!Init, Gateway!NoTags, Gateway!NoUpdate, GatewayProofs!Init,
      GatewayProofs!NoTags, GatewayProofs!NoUpdate
<1> QED
  BY <1>1, <1>2, <1>3, <1>4, <1>5, <1>6, <1>7, <1>8

-----------------------------------------------------------------------------
(* The invariant: those of the two chips, and that of what is between them.  *)
TrackerInv ==
    /\ CoreProofs!IInv
    /\ GatewayProofs!TypeOK
    /\ LinkInv

(* What the proofs need of the types.                                        *)
LEMMA Types ==
    ASSUME TrackerInv
    PROVE  /\ now \in Nat
           /\ heard \in [Device -> Nat \cup {Core!Never}]
           /\ packet \subseteq Core!Tag
           /\ request \in BOOLEAN
           /\ sender \in {"waiting", "writing", "pausing"}
           /\ DOMAIN detected \subseteq Device
           /\ \A d \in DOMAIN detected : detected[d] \in 0 .. U16_MAX
           /\ linkWait \in Nat
<1>1. CoreProofs!TypeOK /\ CoreProofs!ScannerTypeOK
  BY DEF TrackerInv, CoreProofs!IInv, CoreProofs!TypeOK
<1>2. /\ now \in Nat
      /\ heard \in [Device -> Nat \cup {Core!Never}]
      /\ packet \subseteq Core!Tag
      /\ request \in BOOLEAN
      /\ sender \in {"waiting", "writing", "pausing"}
  BY <1>1
  DEF CoreProofs!TypeOK, CoreProofs!ScannerTypeOK, Core!Never, CoreProofs!Never,
      Core!Tag, CoreProofs!Tag, Core!Eui48, CoreProofs!Eui48
<1>3. detected \in GatewayProofs!TagsSeen /\ linkWait \in 0 .. MaxWait
  BY DEF TrackerInv, GatewayProofs!TypeOK
<1> QED
  BY <1>2, <1>3, CycleAssumption DEF GatewayProofs!TagsSeen

(* What a decoded frame lists, and with which ages.                          *)
LEMMA AgesTold ==
    ASSUME NEW tags, NEW m, Tells(tags, m)
    PROVE  /\ AgesIn(tags) \in GatewayProofs!TagsSeen
           /\ m.owed \subseteq DOMAIN AgesIn(tags)
           /\ DOMAIN AgesIn(tags) \subseteq Device
           /\ \A d \in DOMAIN AgesIn(tags) : AgesIn(tags)[d] = m.at - m.heard[d]
<1>1. \A d \in Devices(tags) :
        LET tag == CHOOSE tag \in tags : tag.addr[2] = d
        IN  tag \in tags /\ tag.addr[2] = d
  BY DEF Devices
<1>2. \A d \in Devices(tags) :
        /\ d \in Device
        /\ AgesIn(tags)[d] \in 0 .. U16_MAX
        /\ AgesIn(tags)[d] = m.at - m.heard[d]
  BY <1>1 DEF AgesIn, Tells
<1>3. DOMAIN AgesIn(tags) = Devices(tags)
  BY DEF AgesIn
<1>4. AgesIn(tags) = [d \in Devices(tags) |-> AgesIn(tags)[d]]
  BY DEF AgesIn
<1>5. AgesIn(tags) \in [Devices(tags) -> 0 .. U16_MAX]
  BY <1>2, <1>4
<1>6. Devices(tags) \in SUBSET Device
  BY <1>2
<1> QED
  BY <1>2, <1>3, <1>5, <1>6 DEF Tells, GatewayProofs!TagsSeen

-----------------------------------------------------------------------------
(* The gateway takes a step of its own, or none.                             *)
LEMMA NextGateway == TrackerInv /\ [Next]_vars => GatewayProofs!TypeOK'
<1> SUFFICES ASSUME TrackerInv, [Next]_vars
             PROVE  [GatewayProofs!Next]_GatewayProofs!vars
  BY GatewayFacts DEF TrackerInv
<1>1. UNCHANGED <<request, cycleVars>> => UNCHANGED GatewayProofs!vars
  BY DEF cycleVars, GatewayProofs!vars, GatewayProofs!updatesVars, GatewayProofs!clockVars,
         GatewayProofs!ledVars
<1>2. CASE CoreStep
  <2>1. UNCHANGED request
    BY <1>2
    DEF CoreStep, tableVars, Core!AutomaticCleanup, Core!ReceiveTags, Core!PauseOver
  <2> QED
    BY <1>1, <1>2, <2>1 DEF CoreStep
<1>3. CASE SendScanData \/ WriteDone \/ FrameLost \/ CoreRestart
  BY <1>1, <1>3
  DEF SendScanData, WriteDone, FrameLost, CoreRestart, Core!SendScanData, Core!WriteDone
<1>4. CASE GatewayStep
  BY <1>4, GatewaySteps DEF GatewayStep, GatewayProofs!Next
<1>5. CASE Located
  <2>1. GatewayProofs!Reading(GatewayProofs!Channel)
    BY <1>5, GatewaySteps DEF Located
  <2> QED
    BY <2>1 DEF GatewayProofs!Next
<1>6. CASE Decoded
  <2>1. GatewayProofs!Decoded(AgesIn(wire[1].tags))
    BY <1>6, GatewaySteps DEF Decoded
  <2>2. AgesIn(wire[1].tags) \in GatewayProofs!TagsSeen
    BY <1>6, AgesTold DEF Decoded, TrackerInv, LinkInv, WireInv
  <2> QED
    BY <2>1, <2>2 DEF GatewayProofs!Next
<1>7. CASE LinkUp
  BY <1>7, GatewaySteps DEF LinkUp, GatewayProofs!Next
<1>8. CASE Tick
  BY <1>8, GatewaySteps DEF Tick, GatewayProofs!Next
<1>9. CASE UNCHANGED vars
  BY <1>1, <1>9 DEF vars
<1> QED
  BY <1>2, <1>3, <1>4, <1>5, <1>6, <1>7, <1>8, <1>9 DEF Next

(* The network core takes a step of its own, or none, or starts over.        *)
LEMMA FreshCore == CoreProofs!Fresh => CoreProofs!IInv
BY CoreFacts

(* Every step of the tracker keeps the invariant of its network core.        *)
LEMMA NextCore == TrackerInv /\ [Next]_vars => CoreProofs!IInv'
<1> SUFFICES ASSUME TrackerInv, [Next]_vars
             PROVE  CoreProofs!IInv'
  OBVIOUS
<1>1. request' \in BOOLEAN
  BY NextGateway DEF GatewayProofs!TypeOK
<1>2. UNCHANGED <<now, coreVars>> => [CoreProofs!Next]_CoreProofs!vars
  <2>1. request' = request \/ request' = ~request
    BY <1>1, Types
  <2> QED
    BY <2>1
    DEF coreVars, CoreProofs!Next, CoreProofs!SetRequest, CoreProofs!vars,
        CoreProofs!scannerVars, CoreProofs!tableVars
<1>3. CASE CoreStep
  BY <1>3, CoreSteps, CoreFacts
  DEF CoreStep, TrackerInv, tableVars, CoreProofs!tableVars, CoreProofs!Next
<1>4. CASE SendScanData \/ WriteDone \/ FrameLost
  BY <1>4, CoreSteps, CoreFacts
  DEF SendScanData, WriteDone, FrameLost, TrackerInv, CoreProofs!Next
<1>5. CASE CoreRestart
  <2>1. CoreProofs!Fresh'
    BY <1>1, <1>5, Types
    DEF CoreRestart, CoreProofs!Fresh, CoreProofs!ScannerInit, Core!NoInstant,
        CoreProofs!NoInstant, Core!Never, CoreProofs!Never
  <2> QED
    BY <2>1, FreshCore, PTL
<1>6. CASE GatewayStep \/ Located \/ Decoded \/ LinkUp
  BY <1>2, <1>6, CoreFacts DEF GatewayStep, Located, Decoded, LinkUp, TrackerInv
<1>7. CASE Tick
  BY <1>7, CoreSteps, CoreFacts DEF Tick, TrackerInv, CoreProofs!Next
<1>8. CASE UNCHANGED vars
  BY <1>2, <1>8, CoreFacts DEF vars, TrackerInv
<1> QED
  BY <1>3, <1>4, <1>5, <1>6, <1>7, <1>8 DEF Next

-----------------------------------------------------------------------------
(* What each step does to the exchange.                                      *)
LEMMA CoreStepEffect ==
    ASSUME CoreStep
    PROVE  /\ UNCHANGED <<now, pc, detected, linkWait, fixAge, linkVars>>
           /\ (sender' = "writing") => sender = "writing" /\ packet' = packet
BY DEF CoreStep, tableVars, cycleVars, Core!AutomaticCleanup, Core!ReceiveTags, Core!Receive,
       Core!PauseOver, Core!ScannerNext, Core!StartScan, Core!StopScan, Core!OnAdvReports,
       Core!NextReport, Core!SkipReport, Core!EndOfReports

(* A packet that is written tells of the moment it was made at.              *)
LEMMA SendScanDataEffect ==
    ASSUME TrackerInv, SendScanData
    PROVE  /\ UNCHANGED <<now, pc, detected, linkWait, fixAge, wire, told, askedAt, faults>>
           /\ made' \in Moment
           /\ made'.at = now
           /\ Tells(packet', made')
<1>1. /\ UNCHANGED <<now, pc, detected, linkWait, fixAge, wire, told, askedAt, faults>>
      /\ packet' = Core!Snapshot
      /\ made' = [at |-> now, heard |-> heard, owed |-> {d \in Device : Core!OwedTo(d)}]
  BY DEF SendScanData, Core!SendScanData, cycleVars
<1>2. Core!Snapshot = CoreProofs!Snapshot
  BY DEF Core!Snapshot, CoreProofs!Snapshot, Core!ReverseAddr, CoreProofs!ReverseAddr,
         Core!AgeSecs, CoreProofs!AgeSecs
<1>3. \A d \in Device : Core!OwedTo(d) => CoreProofs!OwedTo(d)
  BY DEF Core!OwedTo, CoreProofs!OwedTo, Core!AsRecent, CoreProofs!AsRecent, Core!Never,
         CoreProofs!Never, Core!MaxAge, CoreProofs!MaxAge, Core!Cardinality,
         CoreProofs!Cardinality, Core!IsFiniteSet, CoreProofs!IsFiniteSet
<1>4. /\ \A tag \in CoreProofs!Snapshot :
            /\ tag.addr[2] \in Device
            /\ tag.age \in 0 .. U16_MAX
            /\ tag.age = now - heard[tag.addr[2]]
      /\ \A d \in Device :
            CoreProofs!OwedTo(d) => \E tag \in CoreProofs!Snapshot : tag.addr[2] = d
  <2>1. CoreProofs!IsFiniteSet(Device)
    BY CoreAssumption DEF IsFiniteSet, CoreProofs!IsFiniteSet
  <2> QED
    BY <2>1, CoreAssumption, CoreProofs!SnapshotTells DEF TrackerInv
<1>5. made' \in Moment
  BY <1>1, Types DEF Moment
<1>6. made'.owed \subseteq Devices(packet')
  BY <1>1, <1>2, <1>3, <1>4 DEF Devices
<1> QED
  BY <1>1, <1>2, <1>4, <1>5, <1>6 DEF Tells

(* A packet that was written is on the wire, or lost.                        *)
LEMMA WriteDoneEffect ==
    ASSUME TrackerInv, WriteDone \/ FrameLost
    PROVE  /\ UNCHANGED <<now, packet, pc, detected, linkWait, fixAge, told, askedAt>>
           /\ sender = "writing"
           /\ sender' = "pausing"
           /\ made' = Nowhere
           /\ \/ wire' = wire
              \/ pc = "reading" /\ wire' = <<[tags |-> packet, made |-> made]>>
BY DEF WriteDone, FrameLost, Core!WriteDone, cycleVars

(* A restart of the network core forgets what it was writing.                *)
LEMMA CoreRestartEffect ==
    ASSUME CoreRestart
    PROVE  /\ UNCHANGED <<now, pc, detected, linkWait, fixAge, wire, told, askedAt>>
           /\ sender' = "waiting"
           /\ made' = Nowhere
BY DEF CoreRestart, cycleVars

(* The gateway's own steps do not touch the link.                            *)
LEMMA GatewayStepEffect ==
    ASSUME GatewayStep
    PROVE  /\ UNCHANGED <<now, sender, packet, linkVars>>
           /\ \/ UNCHANGED <<pc, detected, linkWait, fixAge>>
              \/ pc \notin {"reading", "linking"} /\ pc' \notin {"reading", "linking"}
<1>1. UNCHANGED <<now, sender, packet, linkVars>>
  BY DEF GatewayStep, coreVars
<1>2. CASE Gateway!Boot \/ Gateway!Sent
  BY <1>1, <1>2 DEF Gateway!Boot, Gateway!Sent, Gateway!LoopTop, Gateway!StartUpdate
<1>3. CASE Gateway!ButtonPressed \/ Gateway!TimerElapsed
  BY <1>1, <1>3
  DEF Gateway!ButtonPressed, Gateway!TimerElapsed, Gateway!Wake, Gateway!LoopTop,
      Gateway!StartUpdate
<1>4. CASE Gateway!LedsOpened \/ Gateway!ShowStatus
  BY <1>1, <1>4
  DEF Gateway!LedsOpened, Gateway!ShowStatus, Gateway!updatesVars, Gateway!clockVars
<1> QED
  BY <1>2, <1>3, <1>4 DEF GatewayStep

(* The tags are asked for when the board has been located.                   *)
LEMMA LocatedEffect ==
    ASSUME Located
    PROVE  /\ UNCHANGED <<now, sender, packet, detected, linkWait, wire, made, told, faults>>
           /\ pc = "locating"
           /\ pc' = "reading"
           /\ sender # "writing"
           /\ askedAt' = now
           /\ fixAge' = 0
BY DEF Located, coreVars, Gateway!Reading, Gateway!RequestTags

(* What is decoded is what was on the wire.                                  *)
LEMMA DecodedEffect ==
    ASSUME Decoded
    PROVE  /\ UNCHANGED <<now, sender, packet, made, askedAt, faults, fixAge>>
           /\ pc = "reading"
           /\ pc' = "linking"
           /\ linkWait' = 0
           /\ wire # <<>>
           /\ wire' = <<>>
           /\ told' = wire[1].made
           /\ detected' = AgesIn(wire[1].tags)
BY DEF Decoded, coreVars, Gateway!Decoded

(* An update that goes out leaves the link empty.                            *)
LEMMA LinkUpEffect ==
    ASSUME LinkUp
    PROVE  /\ UNCHANGED <<now, sender, packet, wire, made, faults>>
           /\ pc = "linking"
           /\ pc' \notin {"reading", "linking"}
           /\ told' = Nowhere
           /\ askedAt' = 0
<1>1. UNCHANGED <<now, sender, packet, wire, made, faults>> /\ told' = Nowhere /\ askedAt' = 0
  BY DEF LinkUp, coreVars
<1>2. CASE Gateway!StartSending
  BY <1>1, <1>2 DEF Gateway!StartSending, Gateway!LinkUp
<1>3. CASE Gateway!SerializeError
  BY <1>1, <1>3 DEF Gateway!SerializeError, Gateway!LinkUp, Gateway!LoopTop, Gateway!StartUpdate
<1> QED
  BY <1>2, <1>3 DEF LinkUp

(* Time passes for a frame only up to FrameTime.                             *)
LEMMA TickEffect ==
    ASSUME Tick
    PROVE  /\ UNCHANGED <<sender, packet, pc, detected, linkVars>>
           /\ now < MaxNow
           /\ now' = now + 1
           /\ linkWait' = IF pc = "linking" THEN Gateway!AtMost(MaxWait, linkWait + 1)
                          ELSE linkWait
           /\ pc \in {"reading", "linking"} => fixAge' = Gateway!AtMost(MaxWait, fixAge + 1)
           /\ sender = "writing" => now < made.at + FrameTime
           /\ wire # <<>> => now < wire[1].made.at + FrameTime
BY DEF Tick, Core!Tick, Core!tableVars, Gateway!Tick, Gateway!updatesVars

(* Nowhere is a moment as well.                                              *)
LEMMA NowhereMoment == Nowhere \in Moment
BY DEF Nowhere, Moment

-----------------------------------------------------------------------------
(* The frame being written.                                                  *)
LEMMA NextWriting == TrackerInv /\ [Next]_vars => WritingInv'
<1> SUFFICES ASSUME TrackerInv, [Next]_vars
             PROVE  WritingInv'
  OBVIOUS
<1>0. WritingInv /\ askedAt \in 0 .. now /\ now \in Nat
  BY Types DEF TrackerInv, LinkInv
<1> USE LinkAssumption DEF WritingInv, Tells
<1>1. CASE CoreStep
  BY <1>0, <1>1, CoreStepEffect DEF linkVars
<1>2. CASE SendScanData
  BY <1>0, <1>2, SendScanDataEffect
<1>3. CASE WriteDone \/ FrameLost \/ CoreRestart
  BY <1>0, <1>3, WriteDoneEffect, CoreRestartEffect, NowhereMoment
<1>4. CASE GatewayStep
  BY <1>0, <1>4, GatewayStepEffect DEF linkVars
<1>5. CASE Located \/ Decoded \/ LinkUp
  BY <1>0, <1>5, LocatedEffect, DecodedEffect, LinkUpEffect
<1>6. CASE Tick
  <2>1. sender = "writing" => made.at \in Nat
    BY <1>0 DEF Moment
  <2>2. UNCHANGED <<sender, packet, pc, made, askedAt>> /\ now' = now + 1
    BY <1>6, TickEffect DEF linkVars
  <2>3. sender = "writing" => now < made.at + FrameTime
    BY <1>6, TickEffect
  <2>4. sender = "writing" => made.at <= now' /\ now' <= made.at + FrameTime
    BY <1>0, <2>1, <2>2, <2>3
  <2> QED
    BY <1>0, <2>2, <2>4
<1>7. CASE UNCHANGED vars
  BY <1>0, <1>7 DEF vars, coreVars, cycleVars, linkVars
<1> QED
  BY <1>1, <1>2, <1>3, <1>4, <1>5, <1>6, <1>7 DEF Next

(* The frame that came through.                                              *)
LEMMA NextWire == TrackerInv /\ [Next]_vars => WireInv'
<1> SUFFICES ASSUME TrackerInv, [Next]_vars
             PROVE  WireInv'
  OBVIOUS
<1>0. WireInv /\ askedAt \in 0 .. now /\ now \in Nat
  BY Types DEF TrackerInv, LinkInv
<1> USE LinkAssumption DEF WireInv
<1>1. CASE CoreStep \/ SendScanData \/ CoreRestart
  <2>1. UNCHANGED <<now, pc, wire, askedAt>>
    BY <1>1, CoreStepEffect, SendScanDataEffect, CoreRestartEffect DEF linkVars
  <2> QED
    BY <1>0, <2>1
<1>2. CASE WriteDone \/ FrameLost
  <2>1. UNCHANGED <<now, pc, askedAt>>
    BY <1>2, WriteDoneEffect
  <2>2. CASE wire' = wire
    BY <1>0, <2>1, <2>2
  <2>3. CASE pc = "reading" /\ wire' = <<[tags |-> packet, made |-> made]>>
    <3> DEFINE frame == [tags |-> packet, made |-> made]
    <3>1. sender = "writing" /\ packet \subseteq Core!Tag
      BY <1>2, WriteDoneEffect, Types
    <3>2. /\ made \in Moment
          /\ Tells(packet, made)
          /\ made.at <= now
          /\ now <= made.at + FrameTime
          /\ askedAt <= made.at
      BY <2>3, <3>1 DEF TrackerInv, LinkInv, WritingInv
    <3>3. frame \in Frame /\ made.at \in Nat
      BY <3>1, <3>2 DEF Frame, Moment
    <3>4. Tells(frame.tags, frame.made) /\ frame.made.at = made.at
      BY <3>2
    <3>5. wire' = <<frame>> /\ wire'[1] = frame
      BY <2>3
    <3>6. made.at \in askedAt .. now
      BY <1>0, <3>2, <3>3
    <3> HIDE DEF frame
    <3> QED
      BY <1>0, <2>1, <2>3, <3>2, <3>3, <3>4, <3>5, <3>6
  <2> QED
    BY <1>2, <2>2, <2>3, WriteDoneEffect
<1>3. CASE GatewayStep
  BY <1>0, <1>3, GatewayStepEffect DEF linkVars
<1>4. CASE Located \/ Decoded \/ LinkUp
  BY <1>0, <1>4, LocatedEffect, DecodedEffect, LinkUpEffect
<1>5. CASE Tick
  <2>1. UNCHANGED <<pc, wire, askedAt>> /\ now' = now + 1
    BY <1>5, TickEffect DEF linkVars
  <2>2. wire # <<>> => now < wire[1].made.at + FrameTime
    BY <1>5, TickEffect
  <2>3. wire # <<>> => wire[1].made.at \in askedAt .. now'
    BY <1>0, <2>1
  <2>4. wire # <<>> => now' <= wire[1].made.at + FrameTime
    BY <1>0, <2>1, <2>2
  <2> QED
    BY <1>0, <2>1, <2>3, <2>4
<1>6. CASE UNCHANGED vars
  BY <1>0, <1>6 DEF vars, coreVars, cycleVars, linkVars
<1> QED
  BY <1>1, <1>2, <1>3, <1>4, <1>5, <1>6 DEF Next

(* What the gateway was told.                                                *)
LEMMA NextTold == TrackerInv /\ [Next]_vars => ToldInv'
<1> SUFFICES ASSUME TrackerInv, [Next]_vars
             PROVE  ToldInv'
  OBVIOUS
<1>0. /\ ToldInv
      /\ askedAt \in 0 .. now
      /\ now \in Nat
      /\ linkWait \in Nat
  BY Types DEF TrackerInv, LinkInv
<1> USE LinkAssumption DEF ToldInv
<1>1. CASE CoreStep \/ SendScanData \/ WriteDone \/ FrameLost \/ CoreRestart
  <2>1. UNCHANGED <<now, pc, detected, linkWait, told, askedAt>>
    BY <1>1, CoreStepEffect, SendScanDataEffect, WriteDoneEffect, CoreRestartEffect DEF linkVars
  <2> QED
    BY <1>0, <2>1
<1>2. CASE GatewayStep
  BY <1>0, <1>2, GatewayStepEffect DEF linkVars
<1>3. CASE Located \/ LinkUp
  BY <1>0, <1>3, LocatedEffect, LinkUpEffect, NowhereMoment
<1>4. CASE Decoded
  <2>1. /\ wire[1] \in Frame
        /\ Tells(wire[1].tags, wire[1].made)
        /\ wire[1].made.at \in askedAt .. now
        /\ now <= wire[1].made.at + FrameTime
    BY <1>4, DecodedEffect DEF TrackerInv, LinkInv, WireInv
  <2>2. /\ wire[1].made.owed \subseteq DOMAIN AgesIn(wire[1].tags)
        /\ \A d \in DOMAIN AgesIn(wire[1].tags) :
            /\ d \in Device
            /\ AgesIn(wire[1].tags)[d] = wire[1].made.at - wire[1].made.heard[d]
    BY <2>1, AgesTold
  <2>3. wire[1].made \in Moment /\ wire[1].made.at \in Nat
    BY <2>1 DEF Frame, Moment
  <2>4. /\ told' = wire[1].made
        /\ detected' = AgesIn(wire[1].tags)
        /\ linkWait' = 0
        /\ UNCHANGED <<now, askedAt>>
    BY <1>4, DecodedEffect
  <2>5. /\ askedAt <= wire[1].made.at
        /\ wire[1].made.at + 0 <= now
        /\ now <= wire[1].made.at + FrameTime + 0
    BY <1>0, <2>1, <2>3
  <2> QED
    BY <2>2, <2>3, <2>4, <2>5
<1>5. CASE Tick
  <2>1. UNCHANGED <<pc, detected, told, askedAt>> /\ now' = now + 1 /\ now < MaxNow
    BY <1>5, TickEffect DEF linkVars
  <2>2. ASSUME pc = "linking"
        PROVE  linkWait' = linkWait + 1
    <3>1. told.at \in Nat /\ told.at + linkWait <= now
      BY <1>0, <2>2 DEF Moment
    <3>2. linkWait + 1 <= MaxWait
      BY <1>0, <2>1, <3>1, CoreAssumption, CycleAssumption
    <3> QED
      BY <1>5, <2>2, <3>2, TickEffect DEF Gateway!AtMost
  <2>3. told.at \in Nat
    BY <1>0 DEF Moment
  <2> QED
    BY <1>0, <2>1, <2>2, <2>3
<1>6. CASE UNCHANGED vars
  BY <1>0, <1>6 DEF vars, coreVars, cycleVars, linkVars
<1> QED
  BY <1>1, <1>2, <1>3, <1>4, <1>5, <1>6 DEF Next

(* The age of the fix.                                                       *)
LEMMA NextFix == TrackerInv /\ [Next]_vars => FixInv'
<1> SUFFICES ASSUME TrackerInv, [Next]_vars
             PROVE  FixInv'
  OBVIOUS
<1>0. FixInv /\ askedAt \in 0 .. now /\ now \in Nat
  BY Types DEF TrackerInv, LinkInv
<1> USE DEF FixInv
<1>1. CASE CoreStep \/ SendScanData \/ WriteDone \/ FrameLost \/ CoreRestart
  <2>1. UNCHANGED <<now, pc, fixAge, askedAt>>
    BY <1>1, CoreStepEffect, SendScanDataEffect, WriteDoneEffect, CoreRestartEffect DEF linkVars
  <2> QED
    BY <1>0, <2>1
<1>2. CASE GatewayStep
  BY <1>0, <1>2, GatewayStepEffect DEF linkVars
<1>3. CASE Located \/ Decoded \/ LinkUp
  BY <1>0, <1>3, LocatedEffect, DecodedEffect, LinkUpEffect
<1>4. CASE Tick
  <2>1. UNCHANGED <<pc, askedAt>> /\ now' = now + 1 /\ now < MaxNow
    BY <1>4, TickEffect DEF linkVars
  <2>2. ASSUME pc \in {"reading", "linking"}
        PROVE  fixAge' = fixAge + 1
    <3>1. fixAge + 1 <= MaxWait
      BY <1>0, <2>1, <2>2, LinkAssumption, CoreAssumption, CycleAssumption
    <3> QED
      BY <1>4, <2>2, <3>1, TickEffect DEF Gateway!AtMost
  <2> QED
    BY <1>0, <2>1, <2>2
<1>5. CASE UNCHANGED vars
  BY <1>0, <1>5 DEF vars, cycleVars, linkVars
<1> QED
  BY <1>1, <1>2, <1>3, <1>4, <1>5 DEF Next

(* Every step keeps what is known of the link.                               *)
LEMMA NextLink == TrackerInv /\ [Next]_vars => LinkInv'
<1> SUFFICES ASSUME TrackerInv, [Next]_vars
             PROVE  askedAt' \in 0 .. now' /\ faults' \in 0 .. MaxFaults
  BY NextWriting, NextWire, NextTold, NextFix DEF LinkInv
<1>0. askedAt \in 0 .. now /\ faults \in 0 .. MaxFaults /\ now \in Nat /\ MaxFaults \in Nat
  BY Types, LinkAssumption DEF TrackerInv, LinkInv
<1>1. CASE CoreStep \/ SendScanData \/ GatewayStep
  BY <1>0, <1>1, CoreStepEffect, SendScanDataEffect, GatewayStepEffect DEF linkVars
<1>2. CASE WriteDone \/ FrameLost \/ CoreRestart
  <2>1. UNCHANGED <<now, askedAt>>
    BY <1>2, WriteDoneEffect, CoreRestartEffect
  <2>2. faults' = faults \/ (faults < MaxFaults /\ faults' = faults + 1)
    BY <1>2 DEF WriteDone, FrameLost, CoreRestart, Fault
  <2> QED
    BY <1>0, <2>1, <2>2
<1>3. CASE Located \/ Decoded \/ LinkUp
  BY <1>0, <1>3, LocatedEffect, DecodedEffect, LinkUpEffect
<1>4. CASE Tick
  BY <1>0, <1>4, TickEffect DEF linkVars
<1>5. CASE UNCHANGED vars
  BY <1>0, <1>5 DEF vars, linkVars
<1> QED
  BY <1>1, <1>2, <1>3, <1>4, <1>5 DEF Next

(* The invariant holds initially.                                            *)
LEMMA InitTracker == Init => TrackerInv
<1> SUFFICES ASSUME Init
             PROVE  TrackerInv
  OBVIOUS
<1>1. now = 0 /\ sender = "waiting" /\ pc = "starting"
  BY DEF Init, Core!Init, Gateway!Init
<1>2. CoreProofs!IInv
  <2>1. CoreProofs!Fresh
    BY CoreSteps DEF Init, CoreProofs!Init, CoreProofs!Fresh
  <2> QED
    BY <2>1, FreshCore
<1>3. GatewayProofs!TypeOK
  BY GatewaySteps, GatewayFacts DEF Init
<1>4. LinkInv
  BY <1>1, NowhereMoment, LinkAssumption
  DEF Init, LinkInv, WritingInv, WireInv, ToldInv, FixInv
<1> QED
  BY <1>2, <1>3, <1>4 DEF TrackerInv

(***************************************************************************)
(* The invariant holds throughout: what each chip keeps to by itself, and   *)
(* that what is under way between them is no older than the last request    *)
(* and tells of the table as it was.                                        *)
(***************************************************************************)
THEOREM TrackerInvariant == Spec => []TrackerInv
<1>1. TrackerInv /\ [Next]_vars => TrackerInv'
  BY NextCore, NextGateway, NextLink DEF TrackerInv
<1> QED
  BY <1>1, InitTracker, PTL DEF Spec

(* The types.                                                                *)
THEOREM TrackerTypeCorrect == Spec => []TypeOK
<1>1. ASSUME TrackerInv
      PROVE  TypeOK
  <2>1. Core!TypeOK
    BY <1>1
    DEF TrackerInv, CoreProofs!IInv, CoreProofs!TypeOK, Core!TypeOK, CoreProofs!ScannerTypeOK,
        Core!ScannerTypeOK, CoreProofs!TagReport, Core!TagReport, CoreProofs!BdAddr,
        Core!BdAddr, CoreProofs!Tag, Core!Tag, CoreProofs!Eui48, Core!Eui48,
        CoreProofs!Never, Core!Never, CoreProofs!NoInstant, Core!NoInstant
  <2>2. Gateway!TypeOK
    BY <1>1
    DEF TrackerInv, GatewayProofs!TypeOK, Gateway!TypeOK, GatewayProofs!TagsSeen,
        Gateway!TagsSeen, GatewayProofs!LedState, Gateway!LedState
  <2>3. /\ wire # <<>> => wire[1].tags \subseteq Core!Tag
        /\ made.owed \subseteq Device
        /\ told.owed \subseteq Device
    BY <1>1 DEF TrackerInv, LinkInv, WireInv, WritingInv, ToldInv, Frame, Moment
  <2> QED
    BY <1>1, <2>1, <2>2, <2>3 DEF TrackerInv, LinkInv, TypeOK
<1> QED
  BY <1>1, TrackerInvariant, PTL

-----------------------------------------------------------------------------
(* The update that is made.                                                  *)
LEMMA UpdateMade ==
    ASSUME TrackerInv, [Next]_vars, MadeUpdate
    PROVE  /\ DOMAIN update'.ages = DOMAIN detected
           /\ update'.timestampAge = fixAge
           /\ \A d \in DOMAIN detected :
                detected[d] + linkWait <= U16_MAX => update'.ages[d] = detected[d] + linkWait
<1>1. LinkUp
  <2>1. ~(CoreStep \/ SendScanData \/ WriteDone \/ FrameLost \/ CoreRestart)
    BY CoreStepEffect, SendScanDataEffect, WriteDoneEffect, CoreRestartEffect DEF MadeUpdate
  <2>2. ~(GatewayStep \/ Located \/ Decoded \/ Tick)
    BY GatewayStepEffect, LocatedEffect, DecodedEffect, TickEffect DEF MadeUpdate
  <2>3. ~UNCHANGED vars
    BY DEF MadeUpdate, vars, cycleVars
  <2> QED
    BY <2>1, <2>2, <2>3 DEF Next
<1>2. update' = Gateway!NewUpdate
  BY <1>1 DEF LinkUp, Gateway!StartSending, Gateway!SerializeError, Gateway!LinkUp
<1>3. update'.ages =
        [d \in DOMAIN detected |->
            Gateway!U16(detected[d] + Gateway!AtMost(U16_MAX, linkWait))]
      /\ update'.timestampAge = fixAge
  BY <1>2 DEF Gateway!NewUpdate
<1>4. ASSUME NEW d \in DOMAIN detected, detected[d] + linkWait <= U16_MAX
      PROVE  update'.ages[d] = detected[d] + linkWait
  <2>1. detected[d] \in Nat /\ linkWait \in Nat /\ U16_MAX \in Nat
    BY Types, CoreAssumption
  <2>2. Gateway!AtMost(U16_MAX, linkWait) = linkWait
    BY <1>4, <2>1 DEF Gateway!AtMost
  <2>3. Gateway!U16(detected[d] + linkWait) = detected[d] + linkWait
    BY <1>4, <2>1 DEF Gateway!U16
  <2> QED
    BY <1>3, <2>2, <2>3
<1> QED
  BY <1>3, <1>4

(***************************************************************************)
(* What an update implies of a device, by its own timestamp, is earlier     *)
(* than the moment the network core last heard it by exactly the time since *)
(* the fix, but for the time the frame took; whatever the length of the     *)
(* waits for the frame and the link, as long as the age fits its 16 bits.   *)
(***************************************************************************)
THEOREM UpdateTruthfulCorrect == Spec => UpdateTruthful
<1> DEFINE Truthful ==
        MadeUpdate =>
            \A d \in DOMAIN update'.ages :
                Fits(d) => Implied(d) + SinceFix \in Moments(d)
<1>1. TrackerInv /\ [Next]_vars => [Truthful]_vars
  <2> SUFFICES ASSUME TrackerInv, [Next]_vars, MadeUpdate,
                      NEW d \in DOMAIN update'.ages, Fits(d)
               PROVE  Implied(d) + SinceFix \in Moments(d)
    OBVIOUS
  <2>1. d \in DOMAIN detected /\ update'.ages[d] = detected[d] + linkWait
    BY UpdateMade DEF Fits
  <2>2. /\ d \in Device
        /\ detected[d] = told.at - told.heard[d]
        /\ told.at + linkWait <= now
        /\ now <= told.at + FrameTime + linkWait
        /\ told \in Moment
    BY <2>1 DEF TrackerInv, LinkInv, ToldInv, MadeUpdate
  <2>3. told.at \in Int /\ told.heard[d] \in Int
    BY <2>2 DEF Moment, Core!Never
  <2>4. now \in Int /\ linkWait \in Int /\ FrameTime \in Int /\ askedAt \in Int
    BY Types, LinkAssumption DEF TrackerInv, LinkInv
  <2>5. update'.timestampAge = now - askedAt
    BY UpdateMade DEF TrackerInv, LinkInv, FixInv, MadeUpdate
  <2>6. Implied(d) + SinceFix = now - (detected[d] + linkWait)
    BY <2>1, <2>2, <2>3, <2>4, <2>5 DEF Implied, Timestamp, SinceFix
  <2> QED
    BY <2>2, <2>3, <2>4, <2>6 DEF Moments
<1> QED
  BY <1>1, TrackerInvariant, PTL DEF Spec, UpdateTruthful

(***************************************************************************)
(* An update lists every device the table owed the gateway at a moment      *)
(* after it asked, also when frames were lost or the network core started   *)
(* over before that.                                                        *)
(***************************************************************************)
THEOREM UpdateCurrentCorrect == Spec => UpdateCurrent
<1> DEFINE Current ==
        MadeUpdate => askedAt <= told.at /\ told.owed \subseteq DOMAIN update'.ages
<1>1. TrackerInv /\ [Next]_vars => [Current]_vars
  <2> SUFFICES ASSUME TrackerInv, [Next]_vars, MadeUpdate
               PROVE  askedAt <= told.at /\ told.owed \subseteq DOMAIN update'.ages
    OBVIOUS
  <2> QED
    BY UpdateMade DEF TrackerInv, LinkInv, ToldInv, MadeUpdate
<1> QED
  BY <1>1, TrackerInvariant, PTL DEF Spec, UpdateCurrent
=============================================================================
