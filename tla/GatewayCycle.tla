---------------------------- MODULE GatewayCycle ----------------------------
(***************************************************************************)
(* The gateway's firmware (gateway/src/main.rs): the task `updates`, which  *)
(* waits, locates the board, asks the network core for its tags, brings up  *)
(* the cellular link and sends one update, and the task `leds`, which shows *)
(* the phase it was last told of through a channel with one slot.           *)
(*                                                                         *)
(* An action is what `updates` runs between two awaits: everything from one *)
(* await to the next happens in one step, the top of the loop included.     *)
(* Time passes in ticks; durations are counted from the event they measure  *)
(* and stop counting where nothing can tell them apart.                     *)
(***************************************************************************)
EXTENDS Integers, Sequences

CONSTANTS
    TIME_BETWEEN_UPDATES,   \* ticks from the start of one update to the next
    MIN_BETWEEN_UPDATES,    \* an update is never started sooner than this
    GNNS_AQUISITION_TIMEOUT_SEC,
    U16_MAX,                \* the largest age, and the largest back-off
    TagId,                  \* tags the network core may report
    Age,                    \* ages it may report them with
    FAKE_POSITION,          \* the feature `fake-position`, for boards without a receiver
    MaxTries,               \* bound: tries are counted up to here
    MaxWait                 \* bound: waits are measured up to here

ASSUME PeriodAssumption ==
    /\ TIME_BETWEEN_UPDATES \in Nat
    /\ MIN_BETWEEN_UPDATES \in Nat \ {0}
    /\ MIN_BETWEEN_UPDATES <= TIME_BETWEEN_UPDATES
ASSUME BackoffAssumption == GNNS_AQUISITION_TIMEOUT_SEC \in Nat
ASSUME AgeAssumption     == U16_MAX \in Nat /\ Age \subseteq 0 .. U16_MAX
ASSUME BuildAssumption   == FAKE_POSITION \in BOOLEAN
ASSUME BoundAssumption   == MaxTries \in Nat /\ MaxTries > 7 /\ MaxWait \in Nat

VARIABLES
    pc,             \* the await `updates` is suspended at
    elapsed,        \* time since last_update_start_timestamp
    tries,          \* attempts to locate the board in this update
    backoff,        \* seconds the current back-off lasts, 0 outside one
    location,       \* `location` is Some: the board has been located
    fixAge,         \* time since the fix in `location`, its time_of_fix
    uartRequest,    \* level of the request pin
    detected,       \* detected_tags: tag -> age when decoded
    linkWait,       \* time since decode_instant
    lte,            \* the modem is enabled
    update,         \* the GatewayUpdate under way: ages and the timestamp's age
    ledQueue,       \* LED_STATE_CHANNEL
    ledsReady,      \* `leds` has played its opening sequence
    led             \* the status `leds` is showing

updatesVars == <<pc, tries, backoff, location, uartRequest, detected, lte, update>>
clockVars   == <<elapsed, fixAge, linkWait>>
ledVars     == <<ledsReady, led>>
vars        == <<updatesVars, clockVars, ledQueue, ledVars>>

LedState == {"Waiting", "GnssAcquisition", "GnssWarning", "ReadingUart",
             "WaitingNetwork", "NetworkCommunication"}
Channel  == {"Altitude", "Latitude", "Longitude", "TimeOfFix"}
TagsSeen == UNION {[ids -> Age] : ids \in SUBSET TagId}

NoTags   == [id \in {} |-> 0]
NoUpdate == [ages |-> NoTags, timestampAge |-> 0]

AtMost(limit, n) == IF n <= limit THEN n ELSE limit
U16(n)           == n % (U16_MAX + 1)

Init ==
    /\ pc = "starting"
    /\ elapsed = 0
    /\ tries = 0
    /\ backoff = 0
    /\ location = FALSE
    /\ fixAge = 0
    /\ uartRequest = FALSE
    /\ detected = NoTags
    /\ linkWait = 0
    /\ lte = FALSE
    /\ update = NoUpdate
    /\ ledQueue = <<>>
    /\ ledsReady = FALSE
    /\ led = "Opening"

-----------------------------------------------------------------------------
(* A slip: a channel that takes every status. *)
TrySend_Unbounded(channel, status) == Append(channel, status)

(* LED_STATE_CHANNEL.try_send: a second status finds the only slot taken.    *)
TrySend(channel, status) == IF channel = <<>> THEN <<status>> ELSE channel

(* A ready task is polled before the event another one has just started to   *)
(* wait for, and `leds` is ready as soon as its channel holds a status.      *)
LedsSettled == ledsReady => ledQueue = <<>>

(* A slip: the modem is trusted to be off already. *)
StartUpdate_KeepsModem(channel) ==
    /\ pc' = "locating"
    /\ elapsed' = 0
    /\ lte' = lte
    /\ ledQueue' = TrySend(channel, "GnssAcquisition")
    /\ location' = FALSE
    /\ tries' = 0

(* The start of an update, up to the wait for the first reading.             *)
StartUpdate(channel) ==
    /\ pc' = "locating"
    /\ elapsed' = 0
    /\ lte' = FALSE
    /\ ledQueue' = TrySend(channel, "GnssAcquisition")
    /\ location' = FALSE
    /\ tries' = 0

(* The top of the loop: nothing is awaited when the next update is due.      *)
LoopTop(channel, lteOn) ==
    IF elapsed < TIME_BETWEEN_UPDATES
    THEN /\ pc' = "waiting"
         /\ lte' = lteOn
         /\ ledQueue' = TrySend(channel, "Waiting")
         /\ UNCHANGED <<elapsed, location, tries>>
    ELSE StartUpdate(TrySend(channel, "Waiting"))

(* The network stack is there: the modem is disabled and the loop entered.   *)
Boot ==
    /\ pc = "starting"
    /\ LedsSettled
    /\ LoopTop(ledQueue, FALSE)
    /\ UNCHANGED <<backoff, fixAge, uartRequest, detected, linkWait, update, ledVars>>

-----------------------------------------------------------------------------
(* A slip: a press of the button always starts an update. *)
Wake_Always ==
    /\ pc = "waiting"
    /\ LedsSettled
    /\ StartUpdate(ledQueue)
    /\ UNCHANGED <<backoff, fixAge, uartRequest, detected, linkWait, update, ledVars>>

(* The select of the button and the timer returns; too soon after the last   *)
(* start, the update is skipped.                                            *)
Wake ==
    /\ pc = "waiting"
    /\ LedsSettled
    /\ IF elapsed < MIN_BETWEEN_UPDATES
       THEN LoopTop(ledQueue, lte)
       ELSE StartUpdate(ledQueue)
    /\ UNCHANGED <<backoff, fixAge, uartRequest, detected, linkWait, update, ledVars>>

ButtonPressed == Wake
TimerElapsed  == elapsed >= TIME_BETWEEN_UPDATES /\ Wake

-----------------------------------------------------------------------------
(* A slip: the colour of this phase is forgotten. *)
RequestTags_Silent ==
    /\ uartRequest' = TRUE
    /\ pc' = "reading"
    /\ UNCHANGED <<backoff, ledQueue>>

(* The board is located: ask for the tags.                                   *)
RequestTags ==
    /\ uartRequest' = TRUE
    /\ ledQueue' = TrySend(ledQueue, "ReadingUart")
    /\ pc' = "reading"
    /\ UNCHANGED backoff

(* A slip: one more doubling than the u16 holds. *)
BackoffSecs_OneMore(attempts) == U16(GNNS_AQUISITION_TIMEOUT_SEC * 2 ^ AtMost(8, attempts))

BackoffSecs(attempts) == U16(GNNS_AQUISITION_TIMEOUT_SEC * 2 ^ AtMost(7, attempts))

(* It is not: back off, but only from the second failure on.                 *)
RetryLater ==
    /\ ledQueue' = TrySend(ledQueue, "GnssWarning")
    /\ IF tries' > 1
       THEN pc' = "backing_off" /\ backoff' = BackoffSecs(tries')
       ELSE UNCHANGED <<pc, backoff>>
    /\ UNCHANGED uartRequest

(* An error of the driver, as after a measurement that could not be          *)
(* triggered, may come without an await, and the fake position always does.  *)
ReturnsAtOnce(found) == FAKE_POSITION \/ found = {}

(* get_location() returns: a fix is a reading with all four values in it.    *)
(* `found` is empty for an error, and for the receiver's own timeout.        *)
Reading(found) ==
    /\ pc = "locating"
    /\ FAKE_POSITION => found = Channel
    /\ LedsSettled \/ ReturnsAtOnce(found)
    /\ location' = (found = Channel)
    /\ fixAge' = 0
    /\ tries' = AtMost(MaxTries, tries + 1)
    /\ IF location' THEN RequestTags ELSE RetryLater
    /\ UNCHANGED <<elapsed, detected, linkWait, lte, update, ledVars>>

BackoffOver ==
    /\ pc = "backing_off"
    /\ LedsSettled
    /\ pc' = "locating"
    /\ backoff' = 0
    /\ UNCHANGED <<tries, location, uartRequest, detected, lte, update>>
    /\ UNCHANGED <<clockVars, ledQueue, ledVars>>

-----------------------------------------------------------------------------
(* wait_for_decoded_message() returns: the request is withdrawn, the modem   *)
(* enabled.                                                                 *)
Decoded(tags) ==
    /\ pc = "reading"
    /\ LedsSettled
    /\ uartRequest' = FALSE
    /\ detected' = tags
    /\ linkWait' = 0
    /\ ledQueue' = TrySend(ledQueue, "WaitingNetwork")
    /\ lte' = TRUE
    /\ pc' = "linking"
    /\ UNCHANGED <<elapsed, fixAge, tries, backoff, location, update, ledVars>>

(* A slip: the ages are sent as they were decoded. *)
NewUpdate_StaleAges ==
    [ages         |-> detected,
     timestampAge |-> fixAge]

(* The tags' ages are brought up to date and the update is made.  The sum    *)
(* wraps in 16 bits, as in a release build; a debug build panics instead.    *)
(* The update is dated by its fix (a fake one by a fixed day).               *)
NewUpdate ==
    [ages         |-> [id \in DOMAIN detected |-> U16(detected[id] + AtMost(U16_MAX, linkWait))],
     timestampAge |-> fixAge]

LinkUp ==
    /\ pc = "linking"
    /\ LedsSettled
    /\ update' = NewUpdate
    /\ UNCHANGED <<fixAge, backoff, uartRequest, detected, linkWait, ledVars>>

(* A slip: an update without tags is not sent. *)
StartSending_OnlyWithTags ==
    /\ LinkUp
    /\ detected # NoTags
    /\ ledQueue' = TrySend(ledQueue, "NetworkCommunication")
    /\ pc' = "sending"
    /\ UNCHANGED <<elapsed, tries, location, lte>>

(* The back end is called, or the update cannot be serialised, which goes    *)
(* round the loop without the modem being disabled.                         *)
StartSending ==
    /\ LinkUp
    /\ ledQueue' = TrySend(ledQueue, "NetworkCommunication")
    /\ pc' = "sending"
    /\ UNCHANGED <<elapsed, tries, location, lte>>

SerializeError ==
    /\ LinkUp
    /\ LoopTop(TrySend(ledQueue, "NetworkCommunication"), lte)

(* The back end's call returns, whatever its result.                         *)
Sent ==
    /\ pc = "sending"
    /\ LedsSettled
    /\ LoopTop(ledQueue, FALSE)
    /\ UNCHANGED <<backoff, fixAge, uartRequest, detected, linkWait, update, ledVars>>

-----------------------------------------------------------------------------
(* The task `leds`: its opening takes 1.5 s, then it takes every status.     *)
LedsOpened ==
    /\ ~ledsReady
    /\ ledsReady' = TRUE
    /\ UNCHANGED <<updatesVars, clockVars, ledQueue, led>>

ShowStatus ==
    /\ ledsReady
    /\ ledQueue # <<>>
    /\ led' = Head(ledQueue)
    /\ ledQueue' = Tail(ledQueue)
    /\ UNCHANGED <<updatesVars, clockVars, ledsReady>>

(* The opening is over before the first update may start.                    *)
Tick ==
    /\ LedsSettled
    /\ ledsReady \/ elapsed + 1 < MIN_BETWEEN_UPDATES
    /\ elapsed' = AtMost(TIME_BETWEEN_UPDATES, elapsed + 1)
    /\ fixAge' = IF pc \in {"reading", "linking"} THEN AtMost(MaxWait, fixAge + 1) ELSE fixAge
    /\ linkWait' = IF pc = "linking" THEN AtMost(MaxWait, linkWait + 1) ELSE linkWait
    /\ UNCHANGED <<updatesVars, ledQueue, ledVars>>

Next ==
    \/ Boot
    \/ ButtonPressed
    \/ TimerElapsed
    \/ \E found \in SUBSET Channel : Reading(found)
    \/ BackoffOver
    \/ \E tags \in TagsSeen : Decoded(tags)
    \/ StartSending
    \/ SerializeError
    \/ Sent
    \/ LedsOpened
    \/ ShowStatus
    \/ Tick

Spec == Init /\ [][Next]_vars

(***************************************************************************)
(* The executor and its timers are fair, and time passes even while a held  *)
(* button makes `updates` go round its loop.  The rest is the environment   *)
(* an update needs: the board is located again and again if it keeps trying,   *)
(* the network core answers a request, the link comes up, an update can be  *)
(* serialised now and then, and the back end's call returns.                *)
(***************************************************************************)
ExecutorFairness ==
    /\ WF_vars(Boot)
    /\ WF_vars(TimerElapsed)
    /\ WF_vars(BackoffOver)
    /\ WF_vars(LedsOpened)
    /\ WF_vars(ShowStatus)
    /\ SF_vars(Tick)

PeersFairness ==
    /\ WF_vars(\E tags \in TagsSeen : Decoded(tags))
    /\ SF_vars(StartSending)
    /\ WF_vars(Sent)

FairSpec == Spec /\ ExecutorFairness /\ SF_vars(Reading(Channel)) /\ PeersFairness

(* The same where no fix is promised: attempts return, with whatever result. *)
FairSpecIndoors ==
    /\ Spec
    /\ ExecutorFairness
    /\ WF_vars(\E found \in SUBSET Channel : Reading(found))
    /\ PeersFairness

-----------------------------------------------------------------------------
TypeOK ==
    /\ pc \in {"starting", "waiting", "locating", "backing_off", "reading", "linking", "sending"}
    /\ elapsed \in 0 .. TIME_BETWEEN_UPDATES
    /\ tries \in 0 .. MaxTries
    /\ backoff \in 0 .. U16_MAX
    /\ location \in BOOLEAN
    /\ fixAge \in 0 .. MaxWait
    /\ uartRequest \in BOOLEAN
    /\ detected \in TagsSeen
    /\ linkWait \in 0 .. MaxWait
    /\ lte \in BOOLEAN
    /\ DOMAIN update = {"ages", "timestampAge"}
    /\ DOMAIN update.ages \subseteq TagId
    /\ \A id \in DOMAIN update.ages : update.ages[id] \in 0 .. U16_MAX
    /\ update.timestampAge \in 0 .. MaxWait
    /\ ledQueue = <<>> \/ \E status \in LedState : ledQueue = <<status>>
    /\ ledsReady \in BOOLEAN
    /\ led \in LedState \cup {"Opening"}

(***************************************************************************)
(* The modem and the GNSS receiver share one radio: the modem is off        *)
(* whenever the board is being located, also in the update after one that   *)
(* could not be serialised and left it on.                                  *)
(***************************************************************************)
RadioExclusive == pc \in {"locating", "backing_off"} => ~lte

(***************************************************************************)
(* An update lists every tag the network core sent, each with the time      *)
(* since it was last heard: the age it was sent with and the whole wait for *)
(* the link, as long as the sum fits the u16.                               *)
(***************************************************************************)
TrueAge(id) == detected[id] + linkWait

AgesHonest ==
    pc = "sending" =>
        /\ DOMAIN update.ages = DOMAIN detected
        /\ \A id \in DOMAIN detected :
            TrueAge(id) <= U16_MAX => update.ages[id] = TrueAge(id)

(***************************************************************************)
(* The back-off doubles with every attempt and stops doubling at the        *)
(* seventh, without the u16 product ever wrapping.                          *)
(***************************************************************************)
BackoffExact ==
    pc = "backing_off" =>
        /\ tries > 1
        /\ backoff = GNNS_AQUISITION_TIMEOUT_SEC * 2 ^ AtMost(7, tries)

(***************************************************************************)
(* Whatever presses of the button, failures and overdue timers come before  *)
(* it, an update never starts within MIN_BETWEEN_UPDATES of the last one.   *)
(***************************************************************************)
UpdatesSpaced ==
    [][pc' = "locating" /\ pc \notin {"locating", "backing_off"} =>
        elapsed >= MIN_BETWEEN_UPDATES]_vars

(***************************************************************************)
(* What the LED may show in each phase once `leds` has taken its status.  A *)
(* phase entered without an await after the one before finds the channel    *)
(* full, and the LED keeps the colour of that one: an update that is due at *)
(* once, a wait after a serialisation error, a failure that comes at once.  *)
(* But every later await lets the channel empty: from the third failure on, *)
(* which has a back-off before it, the LED is yellow, and it never shows    *)
(* that tags are read, the network awaited or an update sent when another   *)
(* phase is under way, nor the other way round (with a real receiver).      *)
(***************************************************************************)
BeforeFix == {"GnssAcquisition", "Waiting", "NetworkCommunication"}

StatusesOf(phase) ==
    CASE phase = "starting" -> {"Opening"}
      [] phase = "waiting"  -> {"Waiting", "NetworkCommunication"}
      [] phase \in {"locating", "backing_off"} ->
            IF tries > 2 THEN {"GnssWarning"}
            ELSE IF tries > 0 THEN {"GnssWarning"} \cup BeforeFix
            ELSE BeforeFix
      [] phase = "reading"  -> {"ReadingUart"} \cup (IF FAKE_POSITION THEN BeforeFix ELSE {})
      [] phase = "linking"  -> {"WaitingNetwork"}
      [] phase = "sending"  -> {"NetworkCommunication"}

LedTellsPhase == ledsReady /\ ledQueue = <<>> => led \in StatusesOf(pc)

(***************************************************************************)
(* Updates keep being sent: neither a location that takes many attempts,    *)
(* nor a skipped or failed update, nor a missing button press stops them.   *)
(***************************************************************************)
UpdatesKeepComing == []<>(pc = "sending")

-----------------------------------------------------------------------------
(* Two statements of the documentation that the code does not keep.          *)

(***************************************************************************)
(* The report schema and the README have updates sent without a position    *)
(* when there is none yet: this states that a failed attempt to locate the  *)
(* board, where attempts return but need not succeed, does not keep the     *)
(* update from being sent.                                                  *)
(***************************************************************************)
UpdatesWithoutFix == pc = "locating" /\ tries > 0 ~> pc = "sending"

(***************************************************************************)
(* The report schema: an age is the time since the tag was detected, so no  *)
(* less than it was when the network core sent it.                          *)
(***************************************************************************)
AgesNeverShrink ==
    pc = "sending" => \A id \in DOMAIN detected : update.ages[id] >= detected[id]

=============================================================================
