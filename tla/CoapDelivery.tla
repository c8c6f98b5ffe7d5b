---------------------------- MODULE CoapDelivery ----------------------------
(***************************************************************************)
(* The CoAP back end: the gateway stores an update and pings the proxy      *)
(* (gateway/src/coap.rs), the proxy fetches /status from the gateway while  *)
(* it holds back its answer to the ping, and posts what it got to the HTTP  *)
(* back end (coap-proxy/server.py).                                         *)
(*                                                                         *)
(* Messages may be lost, delayed, duplicated and reordered: `msgs` holds    *)
(* all that were ever sent, and a message in it may be received at any      *)
(* time, again, or never.  A ping received twice starts one handler only,   *)
(* since the CoAP library answers a repeated message id by itself.          *)
(***************************************************************************)
EXTENDS Integers

CONSTANTS
    MaxUpdates,         \* bound: updates sent
    MaxRestarts,        \* bound: restarts of the gateway
    MaxProxyRestarts    \* bound: restarts of the proxy

ASSUME CoapAssumption ==
    /\ MaxUpdates \in Nat \ {0}
    /\ MaxRestarts \in Nat
    /\ MaxProxyRestarts \in Nat

VARIABLES
    link,           \* the cellular link is up
    gpc,            \* the await send_update is suspended at
    LAST_UPDATE,    \* the update /status answers with, or None
    UPDATE_READ,    \* the signal from StatusRenderer to send_update
    published,      \* history: how many updates were stored
    restarts,       \* history: how often the gateway has started over
    rendered,       \* history: updates answered with
    wasRead,        \* history: the last send_update got its signal
    proxy,          \* Register.render_post, one coroutine per ping
    result,         \* what its GET returned
    backend,        \* the update the HTTP back end got from it, or None
    configured,     \* the proxy was given an end point and a token
    proxyRestarts,  \* history: how often the proxy has started over
    msgs            \* every message sent

gatewayVars == <<link, gpc, LAST_UPDATE, UPDATE_READ, published, restarts, rendered, wasRead>>
processVars == <<configured, proxyRestarts>>
proxyVars   == <<proxy, result, backend, processVars>>
vars        == <<gatewayVars, proxyVars, msgs>>

Round  == 1 .. MaxUpdates
None   == 0
Update == Round \cup {None}

Ping(r)       == [kind |-> "ping", round |-> r]
Get(r)        == [kind |-> "get", round |-> r]
Content(r, u) == [kind |-> "content", round |-> r, update |-> u]
Unavailable(r) == [kind |-> "unavailable", round |-> r]
Reply(r, ok)  == [kind |-> "reply", round |-> r, ok |-> ok]

Message ==
    {Ping(r) : r \in Round} \cup {Get(r) : r \in Round}
        \cup {Content(r, u) : r, u \in Round} \cup {Unavailable(r) : r \in Round}
        \cup {Reply(r, ok) : r \in Round, ok \in BOOLEAN}

Send(m) == msgs' = msgs \cup {m}

Init ==
    /\ link = FALSE
    /\ gpc = "idle"
    /\ LAST_UPDATE = None
    /\ UPDATE_READ = FALSE
    /\ published = 0
    /\ restarts = 0
    /\ rendered = {}
    /\ wasRead = FALSE
    /\ proxy = [r \in Round |-> "none"]
    /\ result = [r \in Round |-> None]
    /\ backend = [r \in Round |-> None]
    /\ configured \in BOOLEAN
    /\ proxyRestarts = 0
    /\ msgs = {}

-----------------------------------------------------------------------------
(* The gateway enables the modem before it sends an update.                  *)
LinkUp ==
    /\ gpc = "idle"
    /\ ~link
    /\ link' = TRUE
    /\ UNCHANGED <<gpc, LAST_UPDATE, UPDATE_READ, published, restarts, rendered, wasRead>>
    /\ UNCHANGED <<proxyVars, msgs>>

(* A slip: a signal left over from the last update is not reset. *)
SendUpdate_NoReset ==
    /\ gpc = "idle"
    /\ link
    /\ published < MaxUpdates
    /\ published' = published + 1
    /\ LAST_UPDATE' = published'
    /\ gpc' = "connecting"
    /\ UNCHANGED <<link, UPDATE_READ, restarts, rendered, wasRead, proxyVars, msgs>>

(* A slip: the update is stored only if there is none yet. *)
SendUpdate_KeepsOld ==
    /\ gpc = "idle"
    /\ link
    /\ published < MaxUpdates
    /\ published' = published + 1
    /\ LAST_UPDATE' = IF LAST_UPDATE = None THEN published' ELSE LAST_UPDATE
    /\ UPDATE_READ' = FALSE
    /\ gpc' = "connecting"
    /\ UNCHANGED <<link, restarts, rendered, wasRead, proxyVars, msgs>>

(* send_update up to its first await.                                        *)
SendUpdate ==
    /\ gpc = "idle"
    /\ link
    /\ published < MaxUpdates
    /\ published' = published + 1
    /\ LAST_UPDATE' = published'
    /\ UPDATE_READ' = FALSE
    /\ gpc' = "connecting"
    /\ UNCHANGED <<link, restarts, rendered, wasRead, proxyVars, msgs>>

(* register_to_rd: the ping, once the client is there.                       *)
SendPing ==
    /\ gpc = "connecting"
    /\ gpc' = "registering"
    /\ Send(Ping(published))
    /\ UNCHANGED <<link, LAST_UPDATE, UPDATE_READ, published, restarts, rendered, wasRead>>
    /\ UNCHANGED proxyVars

(* The ping is answered, or given up after 30 s.                             *)
Registered ==
    /\ gpc = "registering"
    /\ \E ok \in BOOLEAN : Reply(published, ok) \in msgs
    /\ gpc' = "awaiting_read"
    /\ UNCHANGED <<link, LAST_UPDATE, UPDATE_READ, published, restarts, rendered, wasRead>>
    /\ UNCHANGED <<proxyVars, msgs>>

(* A slip: the timer covers the connection only, not the answer. *)
RegisterTimeout_ConnectOnly ==
    /\ gpc = "connecting"
    /\ gpc' = "awaiting_read"
    /\ UNCHANGED <<link, LAST_UPDATE, UPDATE_READ, published, restarts, rendered, wasRead>>
    /\ UNCHANGED <<proxyVars, msgs>>

RegisterTimeout ==
    /\ gpc \in {"connecting", "registering"}
    /\ gpc' = "awaiting_read"
    /\ UNCHANGED <<link, LAST_UPDATE, UPDATE_READ, published, restarts, rendered, wasRead>>
    /\ UNCHANGED <<proxyVars, msgs>>

(* The signal is taken, or given up after 30 s.                              *)
UpdateRead ==
    /\ gpc = "awaiting_read"
    /\ UPDATE_READ
    /\ UPDATE_READ' = FALSE
    /\ wasRead' = TRUE
    /\ gpc' = "draining"
    /\ UNCHANGED <<link, LAST_UPDATE, published, restarts, rendered, proxyVars, msgs>>

ReadTimeout ==
    /\ gpc = "awaiting_read"
    /\ wasRead' = FALSE
    /\ gpc' = "draining"
    /\ UNCHANGED <<link, LAST_UPDATE, UPDATE_READ, published, restarts, rendered>>
    /\ UNCHANGED <<proxyVars, msgs>>

(* Two seconds later send_update returns, and the modem is disabled.         *)
Drained ==
    /\ gpc = "draining"
    /\ gpc' = "idle"
    /\ link' = FALSE
    /\ UNCHANGED <<LAST_UPDATE, UPDATE_READ, published, restarts, rendered, wasRead>>
    /\ UNCHANGED <<proxyVars, msgs>>

(* A slip: a missing update is answered with like any other. *)
GetStatus_NoCheck(r) ==
    /\ link
    /\ Get(r) \in msgs
    /\ UPDATE_READ' = TRUE
    /\ Send(Content(r, LAST_UPDATE))
    /\ rendered' = rendered \cup {LAST_UPDATE}
    /\ UNCHANGED <<link, gpc, LAST_UPDATE, published, restarts, wasRead, proxyVars>>

(* StatusRenderer::get, whatever send_update is doing.                       *)
GetStatus(r) ==
    /\ link
    /\ Get(r) \in msgs
    /\ UPDATE_READ' = TRUE
    /\ IF LAST_UPDATE = None
       THEN Send(Unavailable(r)) /\ UNCHANGED rendered
       ELSE Send(Content(r, LAST_UPDATE)) /\ rendered' = rendered \cup {LAST_UPDATE}
    /\ UNCHANGED <<link, gpc, LAST_UPDATE, published, restarts, wasRead, proxyVars>>

(* The gateway loses power or panics, and starts over with its statics.      *)
Restart ==
    /\ restarts < MaxRestarts
    /\ restarts' = restarts + 1
    /\ link' = FALSE
    /\ gpc' = "idle"
    /\ LAST_UPDATE' = None
    /\ UPDATE_READ' = FALSE
    /\ UNCHANGED <<published, rendered, wasRead, proxyVars, msgs>>

-----------------------------------------------------------------------------
(* A slip: the ping is answered before the update is fetched. *)
ReceivePing_AnswersFirst(r) ==
    /\ Ping(r) \in msgs
    /\ proxy[r] = "none"
    /\ proxy' = [proxy EXCEPT ![r] = "getting"]
    /\ msgs' = msgs \cup {Get(r), Reply(r, TRUE)}
    /\ UNCHANGED <<gatewayVars, result, backend, processVars>>

(* Register.render_post: the GET is sent before anything is answered.        *)
ReceivePing(r) ==
    /\ Ping(r) \in msgs
    /\ proxy[r] = "none"
    /\ proxy' = [proxy EXCEPT ![r] = "getting"]
    /\ Send(Get(r))
    /\ UNCHANGED <<gatewayVars, result, backend, processVars>>

(* process_update gets CONTENT, and converts it.                             *)
ReceiveContent(r, u) ==
    /\ proxy[r] = "getting"
    /\ Content(r, u) \in msgs
    /\ proxy' = [proxy EXCEPT ![r] = "posting"]
    /\ result' = [result EXCEPT ![r] = u]
    /\ UNCHANGED <<gatewayVars, backend, processVars, msgs>>

Finish(r, ok) ==
    /\ proxy' = [proxy EXCEPT ![r] = "done"]
    /\ Send(Reply(r, ok))

(* Any other code is logged, and the ping is answered with OK.               *)
ReceiveUnavailable(r) ==
    /\ proxy[r] = "getting"
    /\ Unavailable(r) \in msgs
    /\ Finish(r, TRUE)
    /\ UNCHANGED <<gatewayVars, result, backend, processVars>>

(* The POST reaches the back end, and its answer the proxy unless lost.      *)
PostUpdate(r) ==
    /\ proxy[r] = "posting"
    /\ configured
    /\ backend' = [backend EXCEPT ![r] = result[r]]
    /\ \E ok \in BOOLEAN : Finish(r, ok)
    /\ UNCHANGED <<gatewayVars, result, processVars>>

(* Without end point or token nothing is posted, and that is only logged.    *)
NothingToPostTo(r) ==
    /\ proxy[r] = "posting"
    /\ ~configured
    /\ Finish(r, TRUE)
    /\ UNCHANGED <<gatewayVars, result, backend, processVars>>

(* The GET times out, its payload does not convert, or the POST fails.       *)
ProcessingFails(r) ==
    /\ proxy[r] \in {"getting", "posting"}
    /\ Finish(r, FALSE)
    /\ UNCHANGED <<gatewayVars, result, backend, processVars>>

(* The proxy starts over: its coroutines are gone, and with them the answers *)
(* they owed.  It knows nothing of the pings it was handling, but nor can it *)
(* decrypt their repetitions, the security contexts being gone as well.      *)
ProxyRestart ==
    /\ proxyRestarts < MaxProxyRestarts
    /\ proxyRestarts' = proxyRestarts + 1
    /\ proxy' = [r \in Round |-> IF proxy[r] = "none" THEN "none" ELSE "done"]
    /\ result' = [r \in Round |-> None]
    /\ UNCHANGED <<gatewayVars, backend, configured, msgs>>

GatewayNext ==
    \/ LinkUp
    \/ SendUpdate
    \/ SendPing
    \/ Registered
    \/ RegisterTimeout
    \/ UpdateRead
    \/ ReadTimeout
    \/ Drained
    \/ \E r \in Round : GetStatus(r)
    \/ Restart

ProxyNext ==
    \/ \E r \in Round :
        \/ ReceivePing(r)
        \/ \E u \in Round : ReceiveContent(r, u)
        \/ ReceiveUnavailable(r)
        \/ PostUpdate(r)
        \/ NothingToPostTo(r)
        \/ ProcessingFails(r)
    \/ ProxyRestart

Next == GatewayNext \/ ProxyNext

Spec == Init /\ [][Next]_vars

(* The gateway's timers fire.  Nothing is assumed of the network, or of the  *)
(* proxy.                                                                   *)
TimerFairness ==
    /\ WF_vars(RegisterTimeout)
    /\ WF_vars(ReadTimeout)
    /\ WF_vars(Drained)

FairSpec == Spec /\ TimerFairness

-----------------------------------------------------------------------------
TypeOK ==
    /\ link \in BOOLEAN
    /\ gpc \in {"idle", "connecting", "registering", "awaiting_read", "draining"}
    /\ LAST_UPDATE \in Update
    /\ UPDATE_READ \in BOOLEAN
    /\ published \in 0 .. MaxUpdates
    /\ restarts \in 0 .. MaxRestarts
    /\ rendered \subseteq Round
    /\ wasRead \in BOOLEAN
    /\ proxy \in [Round -> {"none", "getting", "posting", "done"}]
    /\ result \in [Round -> Update]
    /\ backend \in [Round -> Update]
    /\ configured \in BOOLEAN
    /\ proxyRestarts \in 0 .. MaxProxyRestarts
    /\ msgs \subseteq Message

(***************************************************************************)
(* When send_update ends because UPDATE_READ was signalled, the update it   *)
(* was called with has been answered with: a GET left over from an earlier  *)
(* update never stands in for it.                                           *)
(***************************************************************************)
ReadMeansCurrent == gpc = "draining" /\ wasRead => published \in rendered

(***************************************************************************)
(* A ping that was answered with OK has brought an update to the back end,  *)
(* unless the proxy was not told of one, or the gateway had said, to the    *)
(* GET that this very ping led to, that it has nothing to answer with.      *)
(***************************************************************************)
OkMeansForwarded ==
    \A r \in Round : Reply(r, TRUE) \in msgs =>
        \/ backend[r] # None
        \/ ~configured
        \/ Unavailable(r) \in msgs

(***************************************************************************)
(* However late, often and out of order pings, GETs and answers arrive, the *)
(* back end sees what StatusDelivery promises: an announcement brings one   *)
(* update at most, and never one older than itself.                         *)
(***************************************************************************)
Promise == INSTANCE StatusDelivery WITH forwarded <- backend

ImplementsPromise == Promise!Spec

(***************************************************************************)
(* send_update returns, so that the modem is switched off and the next      *)
(* update begun, even if nothing is ever heard of the proxy.                *)
(***************************************************************************)
SendUpdateReturns == gpc # "idle" ~> gpc = "idle"
=============================================================================
