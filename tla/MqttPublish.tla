----------------------------- MODULE MqttPublish -----------------------------
(***************************************************************************)
(* The MQTT back end (gateway/src/mqtt.rs): each update opens a connection  *)
(* of its own, publishes once with QoS 2, polls until the publication is    *)
(* complete or the connection fails, and goes.                              *)
(*                                                                         *)
(* Update, call and connection share a number.  What a call has written     *)
(* before it was abandoned stays in `up` and may still reach the broker;    *)
(* a broker serves one connection of a client at a time and closes the old  *)
(* one for a new one.  Every call makes a new Client, which counts its      *)
(* packet identifiers from the beginning: all publications have the same    *)
(* one, and all that keeps an old one apart from a new one is the clean     *)
(* start, since the session never expires.                                  *)
(***************************************************************************)
EXTENDS Integers, SequencesExt

CONSTANTS
    MaxUpdates,     \* bound: calls of mqtt_connect_and_publish
    MaxRestarts     \* bound: restarts of the gateway

ASSUME MqttAssumption == MaxUpdates \in Nat /\ MaxRestarts \in Nat

VARIABLES
    pc,             \* the await the call is suspended at
    call,           \* history: how many calls were made
    restarts,       \* history: how often the gateway has started over
    completed,      \* history: updates whose PublishComplete was polled
    up,             \* connection -> packets on their way to the broker
    down,           \* packets on their way to the present call
    serving,        \* the connection the broker serves, or None
    unreleased,     \* the session: what was published and not released, or None
    delivered,      \* history: updates the broker has passed on
    onPublish       \* the broker passes on a PUBLISH at once, not when it is released

clientVars == <<pc, call, restarts, completed>>
brokerVars == <<serving, unreleased, delivered, onPublish>>
vars       == <<clientVars, up, down, brokerVars>>

None   == 0
Update == 1 .. MaxUpdates

Request  == {"CONNECT", "PUBLISH", "PUBREL", "DISCONNECT"}
Response == {"CONNACK", "PUBREC", "REFUSED", "PUBCOMP"}

Init ==
    /\ pc = "idle"
    /\ call = 0
    /\ restarts = 0
    /\ completed = {}
    /\ up = [c \in Update |-> <<>>]
    /\ down = <<>>
    /\ serving = None
    /\ unreleased = None
    /\ delivered = <<>>
    /\ onPublish \in BOOLEAN

-----------------------------------------------------------------------------
(* mqtt_connect_and_publish, from await to await.                            *)
Goto(from, to) ==
    /\ pc = from
    /\ pc' = to
    /\ UNCHANGED <<call, restarts>>

Call ==
    /\ pc = "idle"
    /\ call < MaxUpdates
    /\ call' = call + 1
    /\ pc' = "configuring"
    /\ UNCHANGED <<restarts, completed, up, down, brokerVars>>

Quietly(from, to) == Goto(from, to) /\ UNCHANGED <<completed, up, down, brokerVars>>

ConfigUp     == Quietly("configuring", "connecting")
Connected    == Quietly("connecting", "securing")
ConnectFails == Quietly("connecting", "pausing")
TlsFails     == Quietly("securing", "pausing")
PauseOver    == Quietly("pausing", "idle")

Write(packet) == up' = [up EXCEPT ![call] = Append(@, packet)]

(* A slip: answers to an abandoned call are still in the buffer. *)
TlsOpen_KeepsBuffer ==
    /\ Goto("securing", "connacking")
    /\ Write("CONNECT")
    /\ UNCHANGED <<completed, down, brokerVars>>

(* The handshake is done: the client connects.                               *)
TlsOpen ==
    /\ Goto("securing", "connacking")
    /\ Write("CONNECT")
    /\ down' = <<>>
    /\ UNCHANGED <<completed, brokerVars>>

Read(packet) == down # <<>> /\ Head(down) = packet /\ down' = Tail(down)

Publish ==
    /\ Goto("connacking", "polling")
    /\ Read("CONNACK")
    /\ Write("PUBLISH")
    /\ UNCHANGED <<completed, brokerVars>>

(* poll() answers the PUBREC by itself, and the loop goes on.                *)
Release ==
    /\ Goto("polling", "polling")
    /\ Read("PUBREC")
    /\ Write("PUBREL")
    /\ UNCHANGED <<completed, brokerVars>>

(* PublishRejected: the loop heeds no event but the one that never comes now.  *)
Rejected ==
    /\ Goto("polling", "refused")
    /\ Read("REFUSED")
    /\ UNCHANGED <<completed, up, brokerVars>>

(* PublishComplete: the client disconnects, and the call returns.            *)
Complete ==
    /\ Goto("polling", "idle")
    /\ Read("PUBCOMP")
    /\ Write("DISCONNECT")
    /\ completed' = completed \cup {call}
    /\ UNCHANGED brokerVars

(* A slip: the loop polls on whatever poll() returned. *)
PollFails_Ignored == Quietly("polling", "polling") \/ Quietly("refused", "refused")

(* poll() fails: its connection was reset, or the socket gave up after 30 s  *)
(* without an acknowledgement.  The call returns and the update is gone.     *)
PollFails == Quietly("polling", "idle") \/ Quietly("refused", "idle")

(* The same in connect(), publish() or disconnect() is unwrapped.            *)
Panics ==
    \/ Quietly("connacking", "panicked")
    \/ /\ Goto("connacking", "panicked")
       /\ Read("CONNACK")
       /\ UNCHANGED <<completed, up, brokerVars>>
    \/ /\ Goto("polling", "panicked")
       /\ Read("PUBCOMP")
       /\ completed' = completed \cup {call}
       /\ UNCHANGED <<up, brokerVars>>

(* The gateway loses power, or is reset after a panic.                       *)
Restart ==
    /\ restarts < MaxRestarts
    /\ restarts' = restarts + 1
    /\ pc' = "idle"
    /\ down' = <<>>
    /\ UNCHANGED <<call, completed, up, brokerVars>>

ClientNext ==
    \/ Call \/ ConfigUp \/ Connected \/ ConnectFails \/ TlsOpen \/ TlsFails \/ PauseOver
    \/ Publish \/ Release \/ Rejected \/ Complete \/ PollFails \/ Panics
    \/ Restart

-----------------------------------------------------------------------------
(* The broker.  Its answers reach the call that is still there.              *)
Arrives(c, packet) ==
    /\ up[c] # <<>>
    /\ Head(up[c]) = packet
    /\ packet # "CONNECT" => serving = c

Answer(c, packet) ==
    down' = IF c = call /\ pc \in {"connacking", "polling", "refused"}
            THEN Append(down, packet)
            ELSE down

(* A slip: the session of the last connection is resumed. *)
SessionAtConnect_Resumed == unreleased

(* ConnectOptions::clean_start: the broker discards the session it has.      *)
SessionAtConnect == None

(* A connection that is closed takes with it what was on its way.            *)
OnConnect(c) ==
    /\ Arrives(c, "CONNECT")
    /\ serving' = c
    /\ unreleased' = SessionAtConnect
    /\ up' = [d \in Update |-> IF d = c THEN Tail(up[c]) ELSE IF d = serving THEN <<>> ELSE up[d]]
    /\ Answer(c, "CONNACK")
    /\ UNCHANGED <<clientVars, delivered, onPublish>>

(* An identifier that was not released marks a repeated PUBLISH.             *)
OnPublish(c) ==
    /\ Arrives(c, "PUBLISH")
    /\ unreleased' = IF unreleased = None THEN c ELSE unreleased
    /\ delivered' = IF onPublish /\ unreleased = None THEN Append(delivered, c) ELSE delivered
    /\ up' = [up EXCEPT ![c] = Tail(@)]
    /\ Answer(c, "PUBREC")
    /\ UNCHANGED <<clientVars, serving, onPublish>>

(* A PUBREC with the reason of a failure ends the exchange.                  *)
OnPublishRefused(c) ==
    /\ Arrives(c, "PUBLISH")
    /\ up' = [up EXCEPT ![c] = Tail(@)]
    /\ Answer(c, "REFUSED")
    /\ UNCHANGED <<clientVars, serving, unreleased, delivered, onPublish>>

OnPubrel(c) ==
    /\ Arrives(c, "PUBREL")
    /\ unreleased' = None
    /\ delivered' = IF ~onPublish /\ unreleased # None
                    THEN Append(delivered, unreleased)
                    ELSE delivered
    /\ up' = [up EXCEPT ![c] = Tail(@)]
    /\ Answer(c, "PUBCOMP")
    /\ UNCHANGED <<clientVars, serving, onPublish>>

(* The connection ends, with a DISCONNECT or without, and the session stays. *)
Disconnected ==
    /\ serving # None
    /\ serving' = None
    /\ up' = [up EXCEPT ![serving] = <<>>]
    /\ UNCHANGED <<clientVars, down, unreleased, delivered, onPublish>>

BrokerNext ==
    \/ \E c \in Update :
        OnConnect(c) \/ OnPublish(c) \/ OnPublishRefused(c) \/ OnPubrel(c)
    \/ Disconnected

Next == ClientNext \/ BrokerNext

Spec == Init /\ [][Next]_vars

(***************************************************************************)
(* The timers fire, and the network lets a call get somewhere or fail: it   *)
(* is configured, and connecting and the handshake come to an end.  A       *)
(* packet that was written is answered while the broker serves its          *)
(* connection, and otherwise the client notices; neither connect() nor      *)
(* poll() has a timeout of its own.                                         *)
(***************************************************************************)
Unserved ==
    /\ call # None
    /\ down = <<>>
    /\ serving # call
    /\ ~Contains(up[call], "CONNECT")

Fairness ==
    /\ WF_vars(ConfigUp)
    /\ WF_vars(Connected \/ ConnectFails)
    /\ WF_vars(TlsOpen \/ TlsFails)
    /\ WF_vars(PauseOver)
    /\ WF_vars(Publish)
    /\ WF_vars(Release)
    /\ WF_vars(Rejected)
    /\ WF_vars(Complete)
    /\ WF_vars(Unserved /\ (PollFails \/ Panics))
    /\ \A c \in Update :
        WF_vars(OnConnect(c) \/ OnPublish(c) \/ OnPublishRefused(c) \/ OnPubrel(c))

FairSpec == Spec /\ Fairness

-----------------------------------------------------------------------------
TypeOK ==
    /\ pc \in {"idle", "configuring", "connecting", "securing", "connacking", "polling",
               "refused", "pausing", "panicked"}
    /\ call \in 0 .. MaxUpdates
    /\ restarts \in 0 .. MaxRestarts
    /\ completed \subseteq 1 .. call
    /\ up \in [Update -> Seq(Request)]
    /\ down \in Seq(Response)
    /\ Len(down) <= 1
    /\ serving \in Update \cup {None}
    /\ unreleased \in Update \cup {None}
    /\ delivered \in Seq(Update)
    /\ onPublish \in BOOLEAN

(***************************************************************************)
(* Although calls are abandoned at any point, their packets arrive late,    *)
(* and the identifiers repeat, updates are passed on in their order and     *)
(* once at most, and PublishComplete is polled only for one that was.       *)
(***************************************************************************)
Promise ==
    INSTANCE OrderedDelivery WITH Item <- Update, sent <- call, confirmed <- completed

ImplementsDelivery == Promise!Spec

(***************************************************************************)
(* A call ends, so that the modem is switched off and the next update       *)
(* begun; or the firmware stops, as it does where a result is unwrapped; or *)
(* the broker has refused the publication and goes on serving the           *)
(* connection.  Then the call polls on for an answer nobody owes it, and no *)
(* later update is sent for as long as the connection lasts.                *)
(***************************************************************************)
Ended == pc \in {"idle", "panicked"}
Hangs == pc = "refused" /\ serving = call

CallEnds == ~Ended ~> Ended \/ Hangs
=============================================================================
