------------------------- MODULE GatewayCycleProofs -------------------------
(***************************************************************************)
(* Proofs about GatewayCycle, for every length of its periods, every set of *)
(* tags and ages, and every width of the ages.                              *)
(***************************************************************************)
EXTENDS GatewayCycle, TLAPS

(***************************************************************************)
(* What the proofs need of the types: the clocks, whose limits the code's   *)
(* comparisons rely on, and the decoded ages.                               *)
(***************************************************************************)
ClocksOK ==
    /\ elapsed \in 0 .. TIME_BETWEEN_UPDATES
    /\ fixAge \in 0 .. MaxWait
    /\ linkWait \in 0 .. MaxWait
    /\ detected \in TagsSeen

(***************************************************************************)
(* The inductive invariant.                                                 *)
(***************************************************************************)
CycleInv ==
    /\ ClocksOK
    /\ RadioExclusive
    /\ AgesHonest

-----------------------------------------------------------------------------
(* Limiting a number keeps it a number, within the limit, and in order.      *)
LEMMA AtMostBounds ==
    ASSUME NEW limit \in Nat, NEW n \in Nat, NEW m \in Nat
    PROVE  /\ AtMost(limit, n) \in 0 .. limit
           /\ n <= limit => AtMost(limit, n) = n
           /\ n <= m => AtMost(limit, n) <= AtMost(limit, m)
BY DEF AtMost

(* A number that fits is stored as it is.                                    *)
LEMMA U16Fits ==
    ASSUME NEW n \in 0 .. U16_MAX
    PROVE  U16(n) = n
BY AgeAssumption DEF U16

(* The ages of decoded tags are numbers.                                     *)
LEMMA DecodedAges ==
    ASSUME NEW tags \in TagsSeen, NEW id \in DOMAIN tags
    PROVE  tags[id] \in 0 .. U16_MAX
BY AgeAssumption DEF TagsSeen

(* That no tag was seen is an answer, too.                                   *)
LEMMA NoTagsSeen == NoTags \in TagsSeen
<1>1. NoTags \in [{} -> Age]
  BY DEF NoTags
<1>2. {} \in SUBSET TagId
  OBVIOUS
<1> QED
  BY <1>1, <1>2 DEF TagsSeen

(* An update made while ages still fit is honest.                            *)
LEMMA NewUpdateHonest ==
    ASSUME ClocksOK
    PROVE  /\ DOMAIN NewUpdate.ages = DOMAIN detected
           /\ \A id \in DOMAIN detected :
                TrueAge(id) <= U16_MAX => NewUpdate.ages[id] = TrueAge(id)
<1>1. DOMAIN NewUpdate.ages = DOMAIN detected
  BY DEF NewUpdate
<1>2. ASSUME NEW id \in DOMAIN detected, TrueAge(id) <= U16_MAX
      PROVE  NewUpdate.ages[id] = TrueAge(id)
  <2>1. detected[id] \in 0 .. U16_MAX
    BY DecodedAges DEF ClocksOK
  <2>2. linkWait \in Nat /\ U16_MAX \in Nat
    BY AgeAssumption, BoundAssumption DEF ClocksOK
  <2>3. linkWait <= U16_MAX /\ TrueAge(id) \in 0 .. U16_MAX
    BY <1>2, <2>1, <2>2 DEF TrueAge
  <2>4. AtMost(U16_MAX, linkWait) = linkWait
    BY <2>2, <2>3, AtMostBounds
  <2>5. U16(TrueAge(id)) = TrueAge(id)
    BY <2>3, U16Fits
  <2> QED
    BY <1>2, <2>4, <2>5 DEF NewUpdate, TrueAge
<1> QED
  BY <1>1, <1>2

-----------------------------------------------------------------------------
(* The invariant holds initially.                                            *)
LEMMA InitCycle == Init => CycleInv
BY NoTagsSeen, PeriodAssumption, BoundAssumption
DEF Init, CycleInv, ClocksOK, RadioExclusive, AgesHonest

(* The top of the loop leaves a phase that needs neither modem nor fix, or    *)
(* starts an update with the modem off.                                      *)
LEMMA LoopTopCycle ==
    ASSUME NEW channel, NEW lteOn, CycleInv, LoopTop(channel, lteOn),
           UNCHANGED <<fixAge, detected, linkWait>>
    PROVE  CycleInv'
BY PeriodAssumption
DEF CycleInv, ClocksOK, RadioExclusive, AgesHonest,
    LoopTop, StartUpdate

(* Every step keeps the invariant.                                           *)
LEMMA NextCycle == CycleInv /\ [Next]_vars => CycleInv'
<1> SUFFICES ASSUME CycleInv, [Next]_vars
             PROVE  CycleInv'
  OBVIOUS
<1> USE DEF CycleInv, ClocksOK, RadioExclusive, AgesHonest, TrueAge
<1>1. CASE Boot
  BY <1>1, LoopTopCycle DEF Boot
<1>2. ASSUME Wake
      PROVE  CycleInv'
  <2>1. CASE elapsed < MIN_BETWEEN_UPDATES
    BY <1>2, <2>1, LoopTopCycle DEF Wake
  <2>2. CASE ~(elapsed < MIN_BETWEEN_UPDATES)
    BY <1>2, <2>2, PeriodAssumption DEF Wake, StartUpdate
  <2> QED
    BY <2>1, <2>2
<1>3. CASE \E found \in SUBSET Channel : Reading(found)
  BY <1>3, BoundAssumption DEF Reading, RequestTags, RetryLater
<1>4. CASE BackoffOver
  BY <1>4 DEF BackoffOver, clockVars, ledVars
<1>5. CASE \E tags \in TagsSeen : Decoded(tags)
  BY <1>5, BoundAssumption DEF Decoded
<1>6. CASE StartSending
  <2>1. update' = NewUpdate /\ pc' = "sending"
    BY <1>6 DEF StartSending, LinkUp
  <2>2. UNCHANGED <<elapsed, fixAge, detected, linkWait, lte, location>>
    BY <1>6 DEF StartSending, LinkUp
  <2>3. pc = "linking"
    BY <1>6 DEF StartSending, LinkUp
  <2>4. AgesHonest'
    BY <2>1, <2>2, NewUpdateHonest
  <2> QED
    BY <2>1, <2>2, <2>3, <2>4
<1>7. CASE SerializeError
  BY <1>7, LoopTopCycle DEF SerializeError, LinkUp
<1>8. CASE Sent
  BY <1>8, LoopTopCycle DEF Sent
<1>9. CASE LedsOpened
  BY <1>9 DEF LedsOpened, updatesVars, clockVars
<1>10. CASE ShowStatus
  BY <1>10 DEF ShowStatus, updatesVars, clockVars
<1>11. CASE Tick
  <2>1. elapsed' = AtMost(TIME_BETWEEN_UPDATES, elapsed + 1)
        /\ fixAge' \in {fixAge, AtMost(MaxWait, fixAge + 1)}
        /\ UNCHANGED updatesVars
    BY <1>11 DEF Tick
  <2>2. linkWait' = IF pc = "linking" THEN AtMost(MaxWait, linkWait + 1) ELSE linkWait
    BY <1>11 DEF Tick
  <2>3. AtMost(TIME_BETWEEN_UPDATES, elapsed + 1) \in 0 .. TIME_BETWEEN_UPDATES
    <3>1. TIME_BETWEEN_UPDATES \in Nat /\ elapsed + 1 \in Nat
      BY PeriodAssumption
    <3> QED
      BY <3>1, AtMostBounds
  <2>4. /\ AtMost(MaxWait, fixAge + 1) \in 0 .. MaxWait
        /\ AtMost(MaxWait, linkWait + 1) \in 0 .. MaxWait
    <3>1. MaxWait \in Nat /\ fixAge + 1 \in Nat /\ linkWait + 1 \in Nat
      BY BoundAssumption
    <3> QED
      BY <3>1, AtMostBounds
  <2>5. ClocksOK'
    BY <2>1, <2>2, <2>3, <2>4 DEF updatesVars
  <2> QED
    BY <2>1, <2>2, <2>5 DEF updatesVars
<1>12. CASE UNCHANGED vars
  BY <1>12 DEF vars, updatesVars, clockVars
<1> QED
  BY <1>1, <1>2, <1>3, <1>4, <1>5, <1>6, <1>7, <1>8, <1>9, <1>10, <1>11, <1>12
  DEF Next, ButtonPressed, TimerElapsed

(***************************************************************************)
(* Every reachable state satisfies the inductive invariant.                 *)
(***************************************************************************)
THEOREM CycleInvariant == Spec => []CycleInv
BY InitCycle, NextCycle, PTL DEF Spec

(***************************************************************************)
(* The board is never located with the modem on.                            *)
(***************************************************************************)
THEOREM RadioExclusiveCorrect == Spec => []RadioExclusive
<1>1. CycleInv => RadioExclusive
  BY DEF CycleInv
<1> QED
  BY <1>1, CycleInvariant, PTL

(***************************************************************************)
(* The ages sent are the true ones, whatever their width, as long as they   *)
(* fit it.                                                                  *)
(***************************************************************************)
THEOREM AgesHonestCorrect == Spec => []AgesHonest
<1>1. CycleInv => AgesHonest
  BY DEF CycleInv
<1> QED
  BY <1>1, CycleInvariant, PTL

-----------------------------------------------------------------------------
(* A step that starts an update, from a phase outside one, is not early.     *)
SpacedStep ==
    pc' = "locating" /\ pc \notin {"locating", "backing_off"} =>
        elapsed >= MIN_BETWEEN_UPDATES

(* The top of the loop starts an update only after the shortest distance.    *)
LEMMA LoopTopSpaced ==
    ASSUME NEW channel, NEW lteOn, CycleInv, LoopTop(channel, lteOn)
    PROVE  SpacedStep
BY PeriodAssumption DEF LoopTop, SpacedStep, CycleInv, ClocksOK

(* So does every step.                                                       *)
LEMMA NextSpaced == CycleInv /\ [Next]_vars => SpacedStep \/ UNCHANGED vars
<1> SUFFICES ASSUME CycleInv, Next
             PROVE  SpacedStep
  OBVIOUS
<1>1. CASE Boot \/ Sent
  BY <1>1, LoopTopSpaced DEF Boot, Sent
<1>2. ASSUME Wake
      PROVE  SpacedStep
  <2>1. CASE elapsed < MIN_BETWEEN_UPDATES
    BY <1>2, <2>1, LoopTopSpaced DEF Wake
  <2>2. CASE ~(elapsed < MIN_BETWEEN_UPDATES)
    BY <2>2, PeriodAssumption DEF SpacedStep, CycleInv, ClocksOK
  <2> QED
    BY <2>1, <2>2
<1>3. CASE SerializeError
  BY <1>3, LoopTopSpaced DEF SerializeError
<1>4. CASE \/ \E found \in SUBSET Channel : Reading(found)
           \/ BackoffOver
  BY <1>4 DEF Reading, BackoffOver, SpacedStep
<1>5. CASE (\E tags \in TagsSeen : Decoded(tags)) \/ StartSending
  BY <1>5 DEF Decoded, StartSending, SpacedStep
<1>6. CASE LedsOpened \/ ShowStatus \/ Tick
  BY <1>6 DEF LedsOpened, ShowStatus, Tick, SpacedStep, updatesVars
<1> QED
  BY <1>1, <1>2, <1>3, <1>4, <1>5, <1>6 DEF Next, ButtonPressed, TimerElapsed

(***************************************************************************)
(* An update never starts within MIN_BETWEEN_UPDATES of the last one.       *)
(***************************************************************************)
THEOREM UpdatesSpacedCorrect == Spec => UpdatesSpaced
<1>1. CycleInv /\ [Next]_vars =>
        [pc' = "locating" /\ pc \notin {"locating", "backing_off"} =>
            elapsed >= MIN_BETWEEN_UPDATES]_vars
  BY NextSpaced DEF SpacedStep
<1> QED
  BY <1>1, CycleInvariant, PTL DEF Spec, UpdatesSpaced

-----------------------------------------------------------------------------
(***************************************************************************)
(* The LED.  What waits in the channel is a colour the present phase may    *)
(* have: a phase that awaited something has left the channel empty, and one *)
(* that did not has left its own colours.  The third attempt to locate the  *)
(* board has a back-off, thus an empty channel, before it.  While `leds`    *)
(* plays its opening, `updates` does not get beyond waiting.                *)
(***************************************************************************)
Pending(status) == ledQueue = <<status>> /\ status \in StatusesOf(pc)

Attempts ==
    /\ tries \in Nat
    /\ pc = "backing_off" => tries > 1
    /\ pc = "locating" /\ tries > 1 => ledQueue = <<>>
    /\ FAKE_POSITION => pc # "backing_off" /\ (pc = "locating" => tries = 0)

LedInv ==
    /\ Attempts
    /\ ledQueue = <<>> \/ \E status \in LedState : Pending(status)
    /\ ~ledsReady =>
        /\ elapsed < MIN_BETWEEN_UPDATES
        /\ \/ pc = "starting" /\ ledQueue = <<>> /\ led = "Opening"
           \/ pc = "waiting" /\ ledQueue = <<"Waiting">>
    /\ LedTellsPhase

(* The colours of a phase depend on nothing but the phase, and on how many   *)
(* attempts to locate the board have failed.                                *)
LEMMA Colours ==
    /\ pc = "starting" => StatusesOf(pc) = {"Opening"}
    /\ pc = "waiting" => StatusesOf(pc) = {"Waiting", "NetworkCommunication"}
    /\ pc = "locating" => StatusesOf(pc) \subseteq {"GnssWarning"} \cup BeforeFix
    /\ pc = "locating" /\ tries = 0 => StatusesOf(pc) = BeforeFix
    /\ pc = "reading" /\ ~FAKE_POSITION => StatusesOf(pc) = {"ReadingUart"}
    /\ pc = "linking" => StatusesOf(pc) = {"WaitingNetwork"}
    /\ pc = "sending" => StatusesOf(pc) = {"NetworkCommunication"}
BY DEF StatusesOf

(* The same colours in the next state.                                       *)
LEMMA ColoursNext ==
    /\ pc' = "waiting" => StatusesOf(pc)' = {"Waiting", "NetworkCommunication"}
    /\ pc' \in {"locating", "backing_off"} /\ tries' = 0 => StatusesOf(pc)' = BeforeFix
    /\ pc' \in {"locating", "backing_off"} /\ tries' \in {1, 2} =>
        StatusesOf(pc)' = {"GnssWarning"} \cup BeforeFix
    /\ pc' \in {"locating", "backing_off"} /\ tries' \in Nat /\ tries' > 2 =>
        StatusesOf(pc)' = {"GnssWarning"}
    /\ pc' = "reading" /\ ~FAKE_POSITION => StatusesOf(pc)' = {"ReadingUart"}
    /\ pc' = "reading" /\ FAKE_POSITION => StatusesOf(pc)' = {"ReadingUart"} \cup BeforeFix
    /\ pc' = "linking" => StatusesOf(pc)' = {"WaitingNetwork"}
    /\ pc' = "sending" => StatusesOf(pc)' = {"NetworkCommunication"}
BY DEF StatusesOf, BeforeFix

(* What is known of the LED holds initially.                                 *)
LEMMA InitLed == Init => LedInv
BY PeriodAssumption, Colours DEF Init, LedInv, Attempts, LedTellsPhase

(* A step that ends with a colour of the new phase in the channel.           *)
LEMMA NewColour ==
    ASSUME NEW status \in LedState, ledQueue' = <<status>>, status \in StatusesOf(pc)',
           Attempts', ledsReady'
    PROVE  LedInv'
BY DEF LedInv, Pending, LedTellsPhase

(* The top of the loop, with or without a colour already in the channel.     *)
LEMMA LoopTopLed ==
    ASSUME NEW channel, NEW lteOn, CycleInv, LedInv, LoopTop(channel, lteOn),
           channel = <<>> \/ channel \in {<<"Waiting">>, <<"NetworkCommunication">>},
           channel # <<>> => channel = <<"Waiting">> \/ ledsReady,
           ~ledsReady => channel = ledQueue,
           UNCHANGED ledVars
    PROVE  LedInv'
<1> USE DEF ledVars
<1>1. CASE elapsed < TIME_BETWEEN_UPDATES
  <2>1. pc' = "waiting" /\ tries' = tries /\ elapsed' = elapsed
    BY <1>1 DEF LoopTop
  <2>2. ledQueue' = TrySend(channel, "Waiting")
    BY <1>1 DEF LoopTop
  <2>3. \/ ledQueue' = <<"Waiting">>
        \/ ledQueue' = <<"NetworkCommunication">> /\ ledsReady
    BY <2>2 DEF TrySend
  <2>4. CASE ledsReady
    BY <2>1, <2>3, <2>4, ColoursNext, NewColour DEF LedInv, Attempts, LedState
  <2>5. CASE ~ledsReady
    <3>1. ledQueue' = <<"Waiting">>
      BY <2>3, <2>5
    <3> QED
      BY <2>1, <2>5, <3>1, ColoursNext DEF LedInv, Attempts, Pending, LedTellsPhase, LedState
  <2> QED
    BY <2>4, <2>5
<1>2. CASE ~(elapsed < TIME_BETWEEN_UPDATES)
  <2>1. ledsReady
    BY <1>2, PeriodAssumption DEF LedInv, CycleInv, ClocksOK
  <2>2. pc' = "locating" /\ tries' = 0
    BY <1>2 DEF LoopTop, StartUpdate
  <2>3. ledQueue' = TrySend(TrySend(channel, "Waiting"), "GnssAcquisition")
    BY <1>2 DEF LoopTop, StartUpdate
  <2>4. ledQueue' = <<"Waiting">> \/ ledQueue' = <<"NetworkCommunication">>
    BY <2>3 DEF TrySend
  <2> QED
    BY <2>1, <2>2, <2>4, ColoursNext, NewColour DEF LedState, BeforeFix, Attempts
<1> QED
  BY <1>1, <1>2

(* Every step keeps what is known of the LED.                                *)
LEMMA NextLed == CycleInv /\ LedInv /\ [Next]_vars => LedInv'
<1> SUFFICES ASSUME CycleInv, LedInv, [Next]_vars
             PROVE  LedInv'
  OBVIOUS
<1>1. CASE Boot
  <2>1. ledQueue = <<>> /\ LoopTop(ledQueue, FALSE) /\ UNCHANGED ledVars
    BY <1>1 DEF Boot, LedInv, LedsSettled
  <2> QED
    BY <2>1, LoopTopLed
<1>2. ASSUME Wake
      PROVE  LedInv'
  <2>1. ledsReady => ledQueue = <<>>
    BY <1>2 DEF Wake, LedsSettled
  <2>2. ~ledsReady => elapsed < MIN_BETWEEN_UPDATES /\ ledQueue = <<"Waiting">>
    BY <1>2 DEF Wake, LedInv
  <2>3. CASE elapsed < MIN_BETWEEN_UPDATES
    BY <1>2, <2>1, <2>2, <2>3, LoopTopLed DEF Wake
  <2>4. CASE ~(elapsed < MIN_BETWEEN_UPDATES)
    <3>1. ledsReady /\ ledsReady' = ledsReady
      BY <1>2, <2>2, <2>4 DEF Wake, ledVars
    <3>2. pc' = "locating" /\ tries' = 0 /\ ledQueue' = <<"GnssAcquisition">>
      BY <1>2, <2>1, <2>4, <3>1 DEF Wake, StartUpdate, TrySend
    <3> QED
      BY <3>1, <3>2, ColoursNext, NewColour DEF LedState, BeforeFix, Attempts
  <2> QED
    BY <2>3, <2>4
<1>3. ASSUME NEW found \in SUBSET Channel, Reading(found)
      PROVE  LedInv'
  <2>1. /\ pc = "locating" /\ ledsReady /\ ledsReady' /\ led' = led
        /\ FAKE_POSITION => location' /\ tries = 0
        /\ tries \in Nat /\ (tries > 1 => ledQueue = <<>>)
    BY <1>3 DEF Reading, LedInv, Attempts, ledVars
  <2>2. /\ tries' \in Nat /\ tries' > 0
        /\ tries = 0 => tries' = 1
        /\ tries = 1 => tries' = 2
        /\ tries > 1 => tries' > 2
    BY <1>3, <2>1, BoundAssumption DEF Reading, AtMost
  <2>3. ledQueue = <<>> \/ \E status \in LedState : Pending(status)
    BY DEF LedInv
  <2>4. CASE location'
    <3>1. pc' = "reading" /\ ledQueue' = TrySend(ledQueue, "ReadingUart")
      BY <1>3, <2>4 DEF Reading, RequestTags
    <3>2. CASE ledQueue = <<>>
      BY <2>1, <2>2, <3>1, <3>2, ColoursNext, NewColour DEF TrySend, LedState, Attempts
    <3>3. CASE ledQueue # <<>>
      <4>1. FAKE_POSITION
        BY <1>3, <2>1, <2>4, <3>3 DEF Reading, LedsSettled, ReturnsAtOnce, Channel
      <4>2. PICK status \in BeforeFix : ledQueue = <<status>>
        BY <2>1, <2>3, <3>3, <4>1, Colours DEF Pending
      <4>3. ledQueue' = <<status>>
        BY <3>1, <3>3, <4>2 DEF TrySend
      <4> QED
        BY <2>1, <2>2, <3>1, <4>1, <4>3, ColoursNext, NewColour DEF LedState, BeforeFix, Attempts
    <3> QED
      BY <3>2, <3>3
  <2>5. CASE ~location'
    <3>1. /\ pc' \in {"locating", "backing_off"}
          /\ tries' > 1 <=> pc' = "backing_off"
          /\ ledQueue' = TrySend(ledQueue, "GnssWarning")
          /\ ~FAKE_POSITION
      BY <1>3, <2>1, <2>5 DEF Reading, RetryLater
    <3>2. Attempts'
      BY <2>2, <3>1 DEF Attempts
    <3>3. "GnssWarning" \in StatusesOf(pc)'
      BY <2>1, <2>2, <3>1, ColoursNext
    <3>4. CASE ledQueue = <<>>
      BY <2>1, <3>1, <3>2, <3>3, <3>4, NewColour DEF TrySend, LedState
    <3>5. CASE ledQueue # <<>>
      <4>1. PICK status \in {"GnssWarning"} \cup BeforeFix : ledQueue = <<status>>
        BY <2>1, <2>3, <3>5, Colours DEF Pending
      <4>2. ledQueue' = <<status>>
        BY <3>1, <3>5, <4>1 DEF TrySend
      <4>3. tries' \in {1, 2}
        BY <2>1, <2>2, <3>5
      <4> QED
        BY <2>1, <3>1, <3>2, <4>2, <4>3, ColoursNext, NewColour DEF LedState, BeforeFix
    <3> QED
      BY <3>4, <3>5
  <2> QED
    BY <2>4, <2>5
<1>4. CASE BackoffOver
  <2>1. ledsReady /\ ledsReady' /\ ledQueue' = <<>> /\ led' = led /\ ledQueue = <<>>
    BY <1>4 DEF BackoffOver, LedInv, LedsSettled, ledVars
  <2>2. tries \in Nat /\ tries > 1 /\ tries' = tries /\ pc' = "locating" /\ ~FAKE_POSITION
    BY <1>4 DEF BackoffOver, LedInv, Attempts
  <2>3. led \in StatusesOf("backing_off")
    BY <1>4, <2>1 DEF BackoffOver, LedInv, LedTellsPhase
  <2>4. StatusesOf(pc)' = StatusesOf("backing_off")
    BY <2>2 DEF StatusesOf
  <2> QED
    BY <2>1, <2>2, <2>3, <2>4 DEF LedInv, Attempts, LedTellsPhase
<1>5. CASE \E tags \in TagsSeen : Decoded(tags)
  BY <1>5, ColoursNext, NewColour
  DEF Decoded, LedInv, Attempts, LedsSettled, TrySend, LedState, ledVars
<1>6. CASE StartSending
  BY <1>6, ColoursNext, NewColour
  DEF StartSending, LinkUp, LedInv, Attempts, LedsSettled, TrySend, LedState, ledVars
<1>7. CASE SerializeError
  <2>1. ledsReady /\ ledQueue = <<>> /\ UNCHANGED ledVars
    BY <1>7 DEF SerializeError, LinkUp, LedInv, LedsSettled
  <2>2. LoopTop(<<"NetworkCommunication">>, lte)
    BY <1>7, <2>1 DEF SerializeError, TrySend
  <2> QED
    BY <2>1, <2>2, LoopTopLed
<1>8. CASE Sent
  <2>1. ledQueue = <<>> /\ LoopTop(ledQueue, FALSE) /\ UNCHANGED ledVars
    BY <1>8 DEF Sent, LedInv, LedsSettled
  <2> QED
    BY <2>1, LoopTopLed
<1>9. CASE LedsOpened \/ ShowStatus
  <2>1. pc' = pc /\ tries' = tries /\ elapsed' = elapsed
    BY <1>9 DEF LedsOpened, ShowStatus, updatesVars, clockVars
  <2>2. StatusesOf(pc)' = StatusesOf(pc)
    BY <2>1 DEF StatusesOf
  <2>3. CASE LedsOpened
    BY <2>1, <2>2, <2>3, Colours DEF LedsOpened, LedInv, Attempts, Pending, LedTellsPhase
  <2>4. CASE ShowStatus
    <3>1. PICK status \in LedState : Pending(status)
      BY <2>4 DEF ShowStatus, LedInv
    <3>2. led' = status /\ ledQueue' = <<>> /\ ledsReady'
      BY <2>4, <3>1 DEF ShowStatus, Pending
    <3> QED
      BY <2>1, <2>2, <3>1, <3>2 DEF LedInv, Attempts, Pending, LedTellsPhase
  <2> QED
    BY <1>9, <2>3, <2>4
<1>10. CASE Tick
  <2>1. UNCHANGED <<updatesVars, ledQueue, ledVars>>
    BY <1>10 DEF Tick
  <2>2. StatusesOf(pc)' = StatusesOf(pc)
    BY <2>1 DEF StatusesOf, updatesVars
  <2>3. ~ledsReady => elapsed' < MIN_BETWEEN_UPDATES
    BY <1>10, PeriodAssumption DEF Tick, AtMost, CycleInv, ClocksOK
  <2> QED
    BY <2>1, <2>2, <2>3 DEF updatesVars, ledVars, LedInv, Attempts, Pending, LedTellsPhase
<1>11. CASE UNCHANGED vars
  <2>1. StatusesOf(pc)' = StatusesOf(pc)
    BY <1>11 DEF StatusesOf, vars, updatesVars
  <2> QED
    BY <1>11, <2>1 DEF vars, updatesVars, clockVars, ledVars, LedInv, Attempts, Pending, LedTellsPhase
<1> QED
  BY <1>1, <1>2, <1>3, <1>4, <1>5, <1>6, <1>7, <1>8, <1>9, <1>10, <1>11
  DEF Next, ButtonPressed, TimerElapsed

(***************************************************************************)
(* Once `leds` has taken its status, the LED shows the phase.               *)
(***************************************************************************)
THEOREM LedTellsPhaseCorrect == Spec => []LedTellsPhase
<1>1. LedInv => LedTellsPhase
  BY DEF LedInv
<1>2. CycleInv /\ LedInv /\ [Next]_vars => (CycleInv /\ LedInv)'
  BY NextCycle, NextLed
<1> QED
  BY <1>1, <1>2, InitCycle, InitLed, PTL DEF Spec

-----------------------------------------------------------------------------
(* Types.  Only the ages and the back-off are computed, both in 16 bits.     *)
LEMMA U16Type ==
    ASSUME NEW n \in Nat
    PROVE  U16(n) \in 0 .. U16_MAX
BY AgeAssumption DEF U16

(* What the back-off is multiplied by: eight values, the largest 2 ^ 7.      *)
LEMMA Powers ==
    ASSUME NEW n \in Nat
    PROVE  2 ^ AtMost(7, n) \in 1 .. 2 ^ 7
<1>1. AtMost(7, n) \in {0, 1, 2, 3, 4, 5, 6, 7}
  BY DEF AtMost
<1>2. 2 ^ AtMost(7, n) \in {2 ^ 0, 2 ^ 1, 2 ^ 2, 2 ^ 3, 2 ^ 4, 2 ^ 5, 2 ^ 6, 2 ^ 7}
  BY <1>1, Zenon
<1>3. {2 ^ 0, 2 ^ 1, 2 ^ 2, 2 ^ 3, 2 ^ 4, 2 ^ 5, 2 ^ 6, 2 ^ 7} \subseteq 1 .. 2 ^ 7
  OBVIOUS
<1> QED
  BY <1>2, <1>3

(* The product is a number, and no larger than the largest back-off.         *)
LEMMA BackoffProduct ==
    ASSUME NEW n \in Nat
    PROVE  /\ GNNS_AQUISITION_TIMEOUT_SEC * 2 ^ AtMost(7, n) \in Nat
           /\ GNNS_AQUISITION_TIMEOUT_SEC * 2 ^ AtMost(7, n)
                <= GNNS_AQUISITION_TIMEOUT_SEC * 2 ^ 7
<1> DEFINE power == 2 ^ AtMost(7, n)
           most  == 2 ^ 7
<1>1. power \in 1 .. most /\ most \in Nat
  BY Powers
<1>2. \A g, x, y \in Nat : x <= y => g * x \in Nat /\ g * x <= g * y
  OBVIOUS
<1> HIDE DEF power, most
<1>3. power \in Nat /\ power <= most
  BY <1>1
<1>4. GNNS_AQUISITION_TIMEOUT_SEC * power \in Nat
      /\ GNNS_AQUISITION_TIMEOUT_SEC * power <= GNNS_AQUISITION_TIMEOUT_SEC * most
  BY <1>1, <1>2, <1>3, BackoffAssumption
<1> QED
  BY <1>4 DEF power, most

(* A back-off has sixteen bits, as its product.                               *)
LEMMA BackoffType ==
    ASSUME NEW n \in Nat
    PROVE  BackoffSecs(n) \in 0 .. U16_MAX
BY BackoffProduct, U16Type DEF BackoffSecs

(* The channel holds one status at most.                                     *)
QueueOK(channel) == channel = <<>> \/ \E status \in LedState : channel = <<status>>

(* The channel of the LED never holds more than one status.                  *)
LEMMA TrySendType ==
    ASSUME NEW channel, QueueOK(channel), NEW status \in LedState
    PROVE  QueueOK(TrySend(channel, status))
BY DEF QueueOK, TrySend

(* An update has the ages of tags, each of sixteen bits.                     *)
LEMMA NewUpdateType ==
    ASSUME TypeOK
    PROVE  /\ DOMAIN NewUpdate = {"ages", "timestampAge"}
           /\ DOMAIN NewUpdate.ages \subseteq TagId
           /\ \A id \in DOMAIN NewUpdate.ages : NewUpdate.ages[id] \in 0 .. U16_MAX
           /\ NewUpdate.timestampAge \in 0 .. MaxWait
<1>1. DOMAIN detected \subseteq TagId
  BY DEF TypeOK, TagsSeen
<1>2. AtMost(U16_MAX, linkWait) \in Nat
  <2>1. linkWait \in Nat /\ U16_MAX \in Nat
    BY AgeAssumption, BoundAssumption DEF TypeOK
  <2> QED
    BY <2>1, AtMostBounds
<1>3. \A id \in DOMAIN detected : detected[id] + AtMost(U16_MAX, linkWait) \in Nat
  BY <1>2, DecodedAges DEF TypeOK
<1>4. \A id \in DOMAIN detected :
        U16(detected[id] + AtMost(U16_MAX, linkWait)) \in 0 .. U16_MAX
  BY <1>3, U16Type
<1> QED
  BY <1>1, <1>4 DEF NewUpdate, TypeOK

(* What the top of the loop leaves has its type.                             *)
LEMMA LoopTopType ==
    ASSUME NEW channel, NEW lteOn \in BOOLEAN, TypeOK, QueueOK(channel), LoopTop(channel, lteOn)
    PROVE  /\ pc' \in {"waiting", "locating"}
           /\ elapsed' \in 0 .. TIME_BETWEEN_UPDATES
           /\ tries' \in 0 .. MaxTries
           /\ location' \in BOOLEAN
           /\ lte' \in BOOLEAN
           /\ QueueOK(ledQueue')
<1>1. QueueOK(TrySend(channel, "Waiting"))
  BY TrySendType DEF LedState
<1>2. QueueOK(TrySend(TrySend(channel, "Waiting"), "GnssAcquisition"))
  BY <1>1, TrySendType DEF LedState
<1> QED
  <2>1. 0 \in 0 .. TIME_BETWEEN_UPDATES /\ 0 \in 0 .. MaxTries
    BY PeriodAssumption, BoundAssumption
  <2>2. /\ elapsed \in 0 .. TIME_BETWEEN_UPDATES
        /\ tries \in 0 .. MaxTries
        /\ location \in BOOLEAN
    BY DEF TypeOK
  <2>3. CASE elapsed < TIME_BETWEEN_UPDATES
    BY <1>1, <2>2, <2>3 DEF LoopTop
  <2>4. CASE ~(elapsed < TIME_BETWEEN_UPDATES)
    BY <1>2, <2>1, <2>4 DEF LoopTop, StartUpdate
  <2> QED
    BY <2>3, <2>4

(* The types hold initially.                                                 *)
LEMMA InitType == Init => TypeOK
<1> SUFFICES ASSUME Init
             PROVE  TypeOK
  OBVIOUS
<1>1. /\ DOMAIN update = {"ages", "timestampAge"}
      /\ update.ages = NoTags
      /\ DOMAIN NoTags = {}
      /\ update.timestampAge = 0
  BY DEF Init, NoUpdate, NoTags
<1>2. /\ 0 \in 0 .. TIME_BETWEEN_UPDATES
      /\ 0 \in 0 .. MaxTries
      /\ 0 \in 0 .. U16_MAX
      /\ 0 \in 0 .. MaxWait
  BY PeriodAssumption, BoundAssumption, AgeAssumption
<1>3. detected \in TagsSeen
  BY NoTagsSeen DEF Init
<1> QED
  BY <1>1, <1>2, <1>3 DEF Init, TypeOK

(* Every step keeps the types.                                               *)
LEMMA NextType == TypeOK /\ [Next]_vars => TypeOK'
<1> SUFFICES ASSUME TypeOK, [Next]_vars
             PROVE  TypeOK'
  OBVIOUS
<1>0. TypeOK /\ QueueOK(ledQueue)
  BY DEF TypeOK, QueueOK
<1>1. CASE Boot \/ Sent
  BY <1>0, <1>1, LoopTopType DEF Boot, Sent, TypeOK, QueueOK, ledVars
<1>2. ASSUME Wake
      PROVE  TypeOK'
  <2>1. CASE elapsed < MIN_BETWEEN_UPDATES
    BY <1>0, <1>2, <2>1, LoopTopType DEF Wake, TypeOK, QueueOK, ledVars
  <2>2. CASE ~(elapsed < MIN_BETWEEN_UPDATES)
    <3>1. QueueOK(TrySend(ledQueue, "GnssAcquisition"))
      BY <1>0, TrySendType DEF LedState
    <3> QED
      <4>1. 0 \in 0 .. TIME_BETWEEN_UPDATES /\ 0 \in 0 .. MaxTries
        BY PeriodAssumption, BoundAssumption
      <4>2. /\ pc' = "locating" /\ elapsed' = 0 /\ lte' = FALSE /\ location' = FALSE
            /\ tries' = 0
            /\ ledQueue' = TrySend(ledQueue, "GnssAcquisition")
            /\ UNCHANGED <<backoff, fixAge, uartRequest, detected, linkWait, update, ledVars>>
        BY <1>2, <2>2 DEF Wake, StartUpdate
      <4> QED
        BY <3>1, <4>1, <4>2 DEF TypeOK, QueueOK, ledVars
  <2> QED
    BY <2>1, <2>2
<1>3. ASSUME NEW found \in SUBSET Channel, Reading(found)
      PROVE  TypeOK'
  <2>1. QueueOK(TrySend(ledQueue, "ReadingUart")) /\ QueueOK(TrySend(ledQueue, "GnssWarning"))
    BY <1>0, TrySendType DEF LedState
  <2>2. tries' \in 0 .. MaxTries
    BY <1>3, AtMostBounds, BoundAssumption DEF Reading, TypeOK
  <2>3. BackoffSecs(tries') \in 0 .. U16_MAX
    BY <2>2, BackoffType, BoundAssumption
  <2>4. location' \in BOOLEAN /\ fixAge' \in 0 .. MaxWait
    BY <1>3, BoundAssumption DEF Reading, TypeOK
  <2>5. CASE location'
    BY <1>0, <1>3, <2>1, <2>2, <2>4, <2>5
    DEF Reading, RequestTags, TypeOK, QueueOK, ledVars
  <2>6. CASE ~location'
    BY <1>0, <1>3, <2>1, <2>2, <2>3, <2>4, <2>6
    DEF Reading, RetryLater, TypeOK, QueueOK, ledVars
  <2> QED
    BY <2>5, <2>6
<1>4. CASE BackoffOver
  BY <1>4, AgeAssumption DEF BackoffOver, TypeOK, clockVars, ledVars
<1>5. ASSUME NEW tags \in TagsSeen, Decoded(tags)
      PROVE  TypeOK'
  <2>1. QueueOK(TrySend(ledQueue, "WaitingNetwork"))
    BY <1>0, TrySendType DEF LedState
  <2> QED
    <3>1. 0 \in 0 .. MaxWait
      BY BoundAssumption
    <3>2. /\ pc' = "linking" /\ lte' = TRUE /\ uartRequest' = FALSE
          /\ linkWait' = 0 /\ detected' = tags
          /\ ledQueue' = TrySend(ledQueue, "WaitingNetwork")
          /\ UNCHANGED <<elapsed, fixAge, tries, backoff, location, update, ledVars>>
      BY <1>5 DEF Decoded
    <3> QED
      BY <2>1, <3>1, <3>2 DEF TypeOK, QueueOK, ledVars
<1>6. CASE StartSending
  <2>1. QueueOK(TrySend(ledQueue, "NetworkCommunication"))
    BY <1>0, TrySendType DEF LedState
  <2> QED
    BY <1>6, <2>1, NewUpdateType DEF StartSending, LinkUp, TypeOK, QueueOK, ledVars
<1>7. CASE SerializeError
  <2>1. QueueOK(TrySend(ledQueue, "NetworkCommunication")) /\ lte \in BOOLEAN
    BY <1>0, TrySendType DEF LedState, TypeOK
  <2>2. LoopTop(TrySend(ledQueue, "NetworkCommunication"), lte) /\ LinkUp
    BY <1>7 DEF SerializeError
  <2> QED
    BY <1>0, <2>1, <2>2, LoopTopType, NewUpdateType DEF LinkUp, TypeOK, QueueOK, ledVars
<1>8. CASE LedsOpened
  BY <1>8 DEF LedsOpened, TypeOK, updatesVars, clockVars
<1>9. CASE ShowStatus
  <2>1. PICK status \in LedState : ledQueue = <<status>>
    BY <1>0, <1>9 DEF ShowStatus, QueueOK
  <2>2. led' = status /\ ledQueue' = <<>>
    BY <1>9, <2>1 DEF ShowStatus
  <2> QED
    BY <1>9, <2>2 DEF ShowStatus, TypeOK, updatesVars, clockVars
<1>10. CASE Tick
  <2>1. /\ elapsed' \in 0 .. TIME_BETWEEN_UPDATES
        /\ fixAge' \in 0 .. MaxWait
        /\ linkWait' \in 0 .. MaxWait
    <3>0. elapsed + 1 \in Nat /\ fixAge + 1 \in Nat /\ linkWait + 1 \in Nat
      BY PeriodAssumption, BoundAssumption DEF TypeOK
    <3>1. AtMost(TIME_BETWEEN_UPDATES, elapsed + 1) \in 0 .. TIME_BETWEEN_UPDATES
      BY <3>0, AtMostBounds, PeriodAssumption
    <3>2. /\ AtMost(MaxWait, fixAge + 1) \in 0 .. MaxWait
          /\ AtMost(MaxWait, linkWait + 1) \in 0 .. MaxWait
      BY <3>0, AtMostBounds, BoundAssumption
    <3> QED
      BY <1>10, <3>1, <3>2 DEF Tick, TypeOK
  <2> QED
    BY <1>10, <2>1 DEF Tick, TypeOK, updatesVars, ledVars
<1>11. CASE UNCHANGED vars
  BY <1>11 DEF vars, updatesVars, clockVars, ledVars, TypeOK
<1> QED
  BY <1>1, <1>2, <1>3, <1>4, <1>5, <1>6, <1>7, <1>8, <1>9, <1>10, <1>11
  DEF Next, ButtonPressed, TimerElapsed

(***************************************************************************)
(* The types, among them that ages and back-offs are stored in 16 bits.     *)
(***************************************************************************)
THEOREM CycleTypeCorrect == Spec => []TypeOK
BY InitType, NextType, PTL DEF Spec

-----------------------------------------------------------------------------
(* Every step keeps the back-off exact.                                      *)
LEMMA NextBackoff ==
    ASSUME GNNS_AQUISITION_TIMEOUT_SEC * 2 ^ 7 <= U16_MAX,
           TypeOK, BackoffExact, [Next]_vars
    PROVE  BackoffExact'
<1> USE DEF BackoffExact
<1>1. ASSUME NEW found \in SUBSET Channel, Reading(found)
      PROVE  BackoffExact'
  <2>1. tries' \in Nat
    BY <1>1, AtMostBounds, BoundAssumption DEF Reading, TypeOK
  <2>2. U16(GNNS_AQUISITION_TIMEOUT_SEC * 2 ^ AtMost(7, tries'))
            = GNNS_AQUISITION_TIMEOUT_SEC * 2 ^ AtMost(7, tries')
    <3> DEFINE product == GNNS_AQUISITION_TIMEOUT_SEC * 2 ^ AtMost(7, tries')
               largest == GNNS_AQUISITION_TIMEOUT_SEC * 2 ^ 7
    <3>1. product \in Nat /\ product <= largest /\ largest <= U16_MAX
      BY <2>1, BackoffProduct
    <3>2. largest \in Nat
      BY BackoffAssumption
    <3> HIDE DEF product, largest
    <3>3. U16(product) = product
      BY <3>1, <3>2, U16Fits, AgeAssumption
    <3> QED
      BY <3>3 DEF product
  <2> QED
    BY <1>1, <2>2 DEF Reading, RequestTags, RetryLater, BackoffSecs
<1>2. CASE Boot \/ Sent \/ Wake \/ SerializeError
  <2>1. pc' # "backing_off"
    BY <1>2 DEF Boot, Sent, Wake, SerializeError, LoopTop, StartUpdate
  <2> QED
    BY <2>1
<1>3. CASE BackoffOver \/ StartSending \/ \E tags \in TagsSeen : Decoded(tags)
  <2>1. pc' # "backing_off"
    BY <1>3 DEF BackoffOver, StartSending, Decoded
  <2> QED
    BY <2>1
<1>4. CASE LedsOpened \/ ShowStatus \/ Tick \/ UNCHANGED vars
  <2>1. UNCHANGED <<pc, tries, backoff>>
    BY <1>4 DEF LedsOpened, ShowStatus, Tick, vars, updatesVars
  <2> QED
    BY <2>1
<1> QED
  BY <1>1, <1>2, <1>3, <1>4 DEF Next, ButtonPressed, TimerElapsed

(***************************************************************************)
(* The back-off is exact for every timeout whose last doubling fits the     *)
(* u16, as 360 s does: 2 ^ 7 times 360 is 46 080.                           *)
(***************************************************************************)
THEOREM BackoffExactCorrect ==
    ASSUME GNNS_AQUISITION_TIMEOUT_SEC * 2 ^ 7 <= U16_MAX
    PROVE  Spec => []BackoffExact
<1>1. Init => BackoffExact
  BY DEF Init, BackoffExact
<1>2. TypeOK /\ BackoffExact /\ [Next]_vars => BackoffExact'
  BY NextBackoff
<1> QED
  BY <1>1, <1>2, CycleTypeCorrect, PTL DEF Spec
=============================================================================
