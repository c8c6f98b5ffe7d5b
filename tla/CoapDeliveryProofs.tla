------------------------- MODULE CoapDeliveryProofs -------------------------
(***************************************************************************)
(* Proofs about CoapDelivery, for every number of updates and restarts: the *)
(* two properties of its answers, and that it implements StatusDelivery;    *)
(* and about ReportFormat, for every update: what the proxy makes of it.    *)
(***************************************************************************)
EXTENDS MCCoapDelivery, SequenceTheorems, TLAPS

(***************************************************************************)
(* The gateway answers with the update it is sending, and between updates   *)
(* with the last one, or with none after a restart.                         *)
(***************************************************************************)
GatewayInv ==
    /\ LAST_UPDATE \in {None, published}
    /\ LAST_UPDATE = None => published = 0 \/ restarts > 0
    /\ gpc # "idle" => published \in Round /\ LAST_UPDATE = published
    /\ gpc # "idle" /\ UPDATE_READ => published \in rendered
    /\ ReadMeansCurrent

(***************************************************************************)
(* What a message says was true when it was sent, and stays true.           *)
(***************************************************************************)
MessageInv ==
    \A r \in Round :
        /\ Ping(r) \in msgs => r <= published
        /\ Get(r) \in msgs => r <= published
        /\ \A u \in Round : Content(r, u) \in msgs => u \in r .. published
        /\ Unavailable(r) \in msgs => restarts > 0

(***************************************************************************)
(* A coroutine of the proxy posts what it fetched, once, as its last step.  *)
(***************************************************************************)
ProxyInv ==
    \A r \in Round :
        /\ proxy[r] = "posting" => result[r] \in r .. published
        /\ backend[r] # None => proxy[r] = "done"

CoapInv ==
    /\ TypeOK
    /\ GatewayInv
    /\ MessageInv
    /\ ProxyInv
    /\ OkMeansForwarded

-----------------------------------------------------------------------------
(* Messages of different kinds differ, and so do those of different rounds.  *)
LEMMA MessagesDiffer ==
    ASSUME NEW r, NEW s, NEW u, NEW v, NEW ok, NEW yes
    PROVE  /\ Ping(r) = Ping(s) => r = s
           /\ Get(r) = Get(s) => r = s
           /\ Unavailable(r) = Unavailable(s) => r = s
           /\ Content(r, u) = Content(s, v) => r = s /\ u = v
           /\ Reply(r, ok) = Reply(s, yes) => r = s /\ ok = yes
           /\ Ping(r) # Get(s) /\ Ping(r) # Content(s, v) /\ Ping(r) # Unavailable(s)
           /\ Ping(r) # Reply(s, yes) /\ Get(r) # Content(s, v) /\ Get(r) # Unavailable(s)
           /\ Get(r) # Reply(s, yes) /\ Content(r, u) # Unavailable(s)
           /\ Content(r, u) # Reply(s, yes) /\ Unavailable(r) # Reply(s, yes)
BY DEF Ping, Get, Content, Unavailable, Reply

(* The invariant holds initially.                                            *)
LEMMA InitCoap == Init => CoapInv
<1> SUFFICES ASSUME Init
             PROVE  CoapInv
  OBVIOUS
<1> USE DEF Init
<1>1. TypeOK
  <2>1. None \in Update
    BY DEF Update
  <2>2. 0 \in 0 .. MaxUpdates /\ 0 \in 0 .. MaxRestarts /\ 0 \in 0 .. MaxProxyRestarts
    BY CoapAssumption
  <2> QED
    BY <2>1, <2>2 DEF TypeOK
<1>2. GatewayInv
  BY DEF GatewayInv, ReadMeansCurrent
<1>3. MessageInv /\ OkMeansForwarded
  BY DEF MessageInv, OkMeansForwarded
<1>4. ProxyInv
  BY DEF ProxyInv
<1> QED
  BY <1>1, <1>2, <1>3, <1>4 DEF CoapInv

-----------------------------------------------------------------------------
(* Types.                                                                    *)
LEMMA NextTypeOK == CoapInv /\ [Next]_vars => TypeOK'
<1> SUFFICES ASSUME CoapInv, [Next]_vars
             PROVE  TypeOK'
  OBVIOUS
<1> USE CoapAssumption DEF CoapInv, TypeOK, processVars
<1>1. CASE LinkUp
  BY <1>1 DEF LinkUp, proxyVars
<1>2. CASE SendUpdate
  <2>1. published' \in Round /\ published' \in Update /\ published' \in 0 .. MaxUpdates
    BY <1>2 DEF SendUpdate, Update, Round
  <2> QED
    BY <1>2, <2>1 DEF SendUpdate, proxyVars
<1>10. CASE Registered \/ RegisterTimeout
  BY <1>10 DEF Registered, RegisterTimeout, proxyVars
<1>11. CASE UpdateRead \/ ReadTimeout \/ Drained
  BY <1>11 DEF UpdateRead, ReadTimeout, Drained, proxyVars
<1>12. CASE Restart
  <2>1. restarts' \in 0 .. MaxRestarts
    BY <1>12 DEF Restart
  <2>2. LAST_UPDATE' \in Update
    BY <1>12 DEF Restart, Update
  <2> QED
    BY <1>12, <2>1, <2>2 DEF Restart, proxyVars
<1>3. CASE SendPing
  BY <1>3 DEF SendPing, Send, Message, GatewayInv, proxyVars
<1>4. ASSUME NEW r \in Round, GetStatus(r)
      PROVE  TypeOK'
  <2>1. LAST_UPDATE # None => Content(r, LAST_UPDATE) \in Message /\ LAST_UPDATE \in Round
    BY DEF Message, Update
  <2>2. Unavailable(r) \in Message
    BY DEF Message
  <2> QED
    BY <1>4, <2>1, <2>2 DEF GetStatus, Send, proxyVars
<1>5. ASSUME NEW r \in Round, ReceivePing(r)
      PROVE  TypeOK'
  BY <1>5 DEF ReceivePing, Send, Message, gatewayVars
<1>6. ASSUME NEW r \in Round, NEW u \in Round, ReceiveContent(r, u)
      PROVE  TypeOK'
  BY <1>6 DEF ReceiveContent, Update, gatewayVars
<1>7. ASSUME NEW r \in Round,
             ReceiveUnavailable(r) \/ NothingToPostTo(r) \/ ProcessingFails(r)
      PROVE  TypeOK'
  <2>1. PICK ok \in BOOLEAN : Finish(r, ok)
    BY <1>7 DEF ReceiveUnavailable, NothingToPostTo, ProcessingFails
  <2>2. Reply(r, ok) \in Message
    BY DEF Message
  <2>3. UNCHANGED <<gatewayVars, result, backend, processVars>>
    BY <1>7 DEF ReceiveUnavailable, NothingToPostTo, ProcessingFails
  <2> QED
    BY <2>1, <2>2, <2>3 DEF Finish, Send, gatewayVars
<1>8. ASSUME NEW r \in Round, PostUpdate(r)
      PROVE  TypeOK'
  BY <1>8 DEF PostUpdate, Finish, Send, Message, gatewayVars
<1>13. CASE ProxyRestart
  <2>1. proxyRestarts' \in 0 .. MaxProxyRestarts
    BY <1>13 DEF ProxyRestart
  <2>2. proxy' \in [Round -> {"none", "getting", "posting", "done"}]
    BY <1>13 DEF ProxyRestart
  <2>3. result' \in [Round -> Update]
    BY <1>13 DEF ProxyRestart, Update
  <2> QED
    BY <1>13, <2>1, <2>2, <2>3 DEF ProxyRestart, gatewayVars
<1>9. CASE UNCHANGED vars
  BY <1>9 DEF vars, gatewayVars, proxyVars
<1> QED
  BY <1>1, <1>2, <1>3, <1>4, <1>5, <1>6, <1>7, <1>8, <1>9, <1>10, <1>11, <1>12, <1>13
  DEF Next, GatewayNext, ProxyNext

(* The gateway's own state.                                                  *)
LEMMA NextGateway == CoapInv /\ [Next]_vars => GatewayInv'
<1> SUFFICES ASSUME CoapInv, [Next]_vars
             PROVE  GatewayInv'
  OBVIOUS
<1> USE DEF CoapInv, GatewayInv, ReadMeansCurrent
<1>1. CASE LinkUp \/ SendPing \/ Registered \/ RegisterTimeout
  BY <1>1 DEF LinkUp, SendPing, Registered, RegisterTimeout
<1>2. CASE SendUpdate
  BY <1>2, CoapAssumption DEF SendUpdate, TypeOK, Round, None
<1>3. CASE UpdateRead \/ ReadTimeout \/ Drained
  BY <1>3 DEF UpdateRead, ReadTimeout, Drained
<1>4. ASSUME NEW r \in Round, GetStatus(r)
      PROVE  GatewayInv'
  BY <1>4 DEF GetStatus, Round, None
<1>5. CASE Restart
  BY <1>5 DEF Restart, TypeOK, None
<1>6. CASE UNCHANGED gatewayVars
  BY <1>6 DEF gatewayVars
<1>7. ProxyNext \/ UNCHANGED vars => UNCHANGED gatewayVars
  BY DEF ProxyNext, ReceivePing, ReceiveContent, ReceiveUnavailable, PostUpdate,
         NothingToPostTo, ProcessingFails, ProxyRestart, vars
<1> QED
  BY <1>1, <1>2, <1>3, <1>4, <1>5, <1>6, <1>7 DEF Next, GatewayNext

-----------------------------------------------------------------------------
(* `published` and `restarts` never fall.                                    *)
LEMMA NextCounters ==
    CoapInv /\ [Next]_vars =>
        /\ published \in Nat /\ published' \in Nat /\ published <= published'
        /\ restarts \in Nat /\ restarts' \in Nat /\ restarts <= restarts'
<1> SUFFICES ASSUME CoapInv, [Next]_vars
             PROVE  /\ published \in Nat /\ published' \in Nat /\ published <= published'
                    /\ restarts \in Nat /\ restarts' \in Nat /\ restarts <= restarts'
  OBVIOUS
<1>1. published \in Nat /\ restarts \in Nat
  BY CoapAssumption DEF CoapInv, TypeOK
<1>2. published' = published \/ published' = published + 1
  BY DEF Next, GatewayNext, ProxyNext, vars, gatewayVars, LinkUp, SendUpdate, SendPing,
         Registered, RegisterTimeout, UpdateRead, ReadTimeout, Drained, GetStatus, Restart,
         ReceivePing, ReceiveContent, ReceiveUnavailable, PostUpdate, NothingToPostTo,
         ProcessingFails, ProxyRestart
<1>3. restarts' = restarts \/ restarts' = restarts + 1
  BY DEF Next, GatewayNext, ProxyNext, vars, gatewayVars, LinkUp, SendUpdate, SendPing,
         Registered, RegisterTimeout, UpdateRead, ReadTimeout, Drained, GetStatus, Restart,
         ReceivePing, ReceiveContent, ReceiveUnavailable, PostUpdate, NothingToPostTo,
         ProcessingFails, ProxyRestart
<1> QED
  BY <1>1, <1>2, <1>3

(* Every step leaves the messages on their way true.                         *)
LEMMA NextMessages == CoapInv /\ [Next]_vars => MessageInv'
<1> SUFFICES ASSUME CoapInv, [Next]_vars
             PROVE  MessageInv'
  OBVIOUS
<1> USE NextCounters DEF MessageInv
<1>1. CASE UNCHANGED msgs
  BY <1>1 DEF CoapInv, Round
<1>2. CASE SendPing
  <2>1. published \in Round /\ msgs' = msgs \cup {Ping(published)} /\ published' = published
    BY <1>2 DEF SendPing, Send, CoapInv, GatewayInv
  <2> QED
    BY <2>1, MessagesDiffer DEF CoapInv, Round
<1>3. ASSUME NEW r \in Round, GetStatus(r)
      PROVE  MessageInv'
  <2>1. r <= published /\ published' = published /\ restarts' = restarts
    BY <1>3 DEF GetStatus, CoapInv
  <2>2. CASE LAST_UPDATE = None
    <3>1. msgs' = msgs \cup {Unavailable(r)}
      BY <1>3, <2>2 DEF GetStatus, Send
    <3>2. restarts > 0
      BY <2>1, <2>2 DEF CoapInv, GatewayInv, Round
    <3> QED
      BY <2>1, <3>1, <3>2, MessagesDiffer DEF CoapInv, Round
  <2>3. CASE LAST_UPDATE # None
    <3>1. msgs' = msgs \cup {Content(r, published)}
      BY <1>3, <2>3 DEF GetStatus, Send, CoapInv, GatewayInv
    <3> QED
      BY <2>1, <3>1, MessagesDiffer DEF CoapInv, Round
  <2> QED
    BY <2>2, <2>3
<1>4. ASSUME NEW r \in Round, ReceivePing(r)
      PROVE  MessageInv'
  <2>1. r <= published /\ published' = published /\ restarts' = restarts
    BY <1>4 DEF ReceivePing, CoapInv, gatewayVars
  <2>2. msgs' = msgs \cup {Get(r)}
    BY <1>4 DEF ReceivePing, Send
  <2> QED
    BY <2>1, <2>2, MessagesDiffer DEF CoapInv, Round
<1>5. ASSUME NEW r \in Round, NEW ok \in BOOLEAN, Finish(r, ok), UNCHANGED gatewayVars
      PROVE  MessageInv'
  <2>1. msgs' = msgs \cup {Reply(r, ok)} /\ published' = published /\ restarts' = restarts
    BY <1>5 DEF Finish, Send, gatewayVars
  <2> QED
    BY <2>1, MessagesDiffer DEF CoapInv, Round
<1>6. ASSUME NEW r \in Round,
             \/ ReceiveUnavailable(r) \/ PostUpdate(r)
             \/ NothingToPostTo(r) \/ ProcessingFails(r)
      PROVE  MessageInv'
  BY <1>5, <1>6 DEF ReceiveUnavailable, PostUpdate, NothingToPostTo, ProcessingFails
<1> QED
  BY <1>1, <1>2, <1>3, <1>4, <1>6
  DEF Next, GatewayNext, ProxyNext, LinkUp, SendUpdate, Registered, RegisterTimeout,
      UpdateRead, ReadTimeout, Drained, Restart, ReceiveContent, ProxyRestart, vars

-----------------------------------------------------------------------------
(* The proxy.                                                                *)
LEMMA NextProxy == CoapInv /\ [Next]_vars => ProxyInv'
<1> SUFFICES ASSUME CoapInv, [Next]_vars
             PROVE  ProxyInv'
  OBVIOUS
<1> USE NextCounters DEF CoapInv, ProxyInv
<1>1. CASE UNCHANGED proxyVars
  BY <1>1 DEF proxyVars, Round
<1>2. ASSUME NEW r \in Round, ReceivePing(r)
      PROVE  ProxyInv'
  BY <1>2 DEF ReceivePing, TypeOK, gatewayVars
<1>3. ASSUME NEW r \in Round, NEW u \in Round, ReceiveContent(r, u)
      PROVE  ProxyInv'
  BY <1>3 DEF ReceiveContent, TypeOK, MessageInv, gatewayVars
<1>4. ASSUME NEW r \in Round,
             ReceiveUnavailable(r) \/ NothingToPostTo(r) \/ ProcessingFails(r)
      PROVE  ProxyInv'
  BY <1>4 DEF ReceiveUnavailable, NothingToPostTo, ProcessingFails, Finish, TypeOK,
              gatewayVars
<1>5. ASSUME NEW r \in Round, PostUpdate(r)
      PROVE  ProxyInv'
  BY <1>5 DEF PostUpdate, Finish, TypeOK, gatewayVars
<1>6. CASE ProxyRestart
  BY <1>6 DEF ProxyRestart, TypeOK, gatewayVars
<1> QED
  BY <1>1, <1>2, <1>3, <1>4, <1>5, <1>6
  DEF Next, GatewayNext, ProxyNext, LinkUp, SendUpdate, SendPing, Registered,
      RegisterTimeout, UpdateRead, ReadTimeout, Drained, GetStatus, Restart, vars

(* The answers to the pings: OK is answered after the back end got the       *)
(* update, or without one to give it.                                       *)
LEMMA NextReplies == CoapInv /\ [Next]_vars => OkMeansForwarded'
<1> SUFFICES ASSUME CoapInv, [Next]_vars, NEW s \in Round, Reply(s, TRUE) \in msgs'
             PROVE  backend'[s] # None \/ ~configured' \/ Unavailable(s) \in msgs'
  BY DEF OkMeansForwarded, Reply, Unavailable
<1> USE NextCounters DEF CoapInv
<1>0. configured' = configured
  BY DEF Next, GatewayNext, ProxyNext, vars, proxyVars, processVars, LinkUp, SendUpdate,
         SendPing, Registered, RegisterTimeout, UpdateRead, ReadTimeout, Drained, GetStatus,
         Restart, ReceivePing, ReceiveContent, ReceiveUnavailable, PostUpdate,
         NothingToPostTo, ProcessingFails, ProxyRestart
<1>1. Reply(s, TRUE) \in msgs => backend[s] # None \/ ~configured \/ Unavailable(s) \in msgs
  BY DEF OkMeansForwarded
<1>2. backend[s] # None => backend'[s] # None
  <2>1. ASSUME NEW r \in Round, PostUpdate(r)
        PROVE  backend[s] # None => backend'[s] # None
    BY <2>1 DEF PostUpdate, ProxyInv, TypeOK
  <2>2. UNCHANGED backend \/ \E r \in Round : PostUpdate(r)
    BY DEF Next, GatewayNext, ProxyNext, vars, proxyVars, LinkUp, SendUpdate, SendPing,
           Registered, RegisterTimeout, UpdateRead, ReadTimeout, Drained, GetStatus, Restart,
           ReceivePing, ReceiveContent, ReceiveUnavailable, NothingToPostTo,
           ProcessingFails, ProxyRestart
  <2> QED
    BY <2>1, <2>2
<1>5. Unavailable(s) \in msgs => Unavailable(s) \in msgs'
  BY DEF Next, GatewayNext, ProxyNext, vars, LinkUp, SendUpdate, SendPing, Registered,
         RegisterTimeout, UpdateRead, ReadTimeout, Drained, GetStatus, Restart, ReceivePing,
         ReceiveContent, ReceiveUnavailable, PostUpdate, NothingToPostTo, ProcessingFails,
         ProxyRestart, Finish, Send
<1>3. CASE Reply(s, TRUE) \in msgs
  BY <1>0, <1>1, <1>2, <1>3, <1>5
<1>4. CASE Reply(s, TRUE) \notin msgs
  <2>1. ASSUME NEW r \in Round, NEW ok \in BOOLEAN, Finish(r, ok)
        PROVE  r = s /\ ok = TRUE
    BY <1>4, <2>1, MessagesDiffer DEF Finish, Send, Reply
  <2>2. CASE \E r \in Round : ReceiveUnavailable(r)
    BY <1>5, <2>1, <2>2 DEF ReceiveUnavailable
  <2>3. CASE \E r \in Round : PostUpdate(r)
    <3>1. PostUpdate(s)
      BY <2>1, <2>3 DEF PostUpdate
    <3> QED
      BY <3>1 DEF PostUpdate, ProxyInv, TypeOK, Round, None
  <2>4. CASE \E r \in Round : NothingToPostTo(r)
    BY <1>0, <2>4 DEF NothingToPostTo
  <2>5. CASE \E r \in Round : ProcessingFails(r)
    BY <2>1, <2>5 DEF ProcessingFails
  <2>6. CASE UNCHANGED msgs
    BY <1>4, <2>6 DEF Reply
  <2>7. CASE SendPing
    BY <1>4, <2>7, MessagesDiffer DEF SendPing, Send, Reply, Ping
  <2>8. ASSUME NEW r \in Round, GetStatus(r) \/ ReceivePing(r)
        PROVE  FALSE
    BY <1>4, <2>8 DEF GetStatus, ReceivePing, Send, Reply, Content, Unavailable, Get
  <2> QED
    BY <2>2, <2>3, <2>4, <2>5, <2>6, <2>7, <2>8
    DEF Next, GatewayNext, ProxyNext, LinkUp, SendUpdate, Registered, RegisterTimeout,
        UpdateRead, ReadTimeout, Drained, Restart, ReceiveContent, ProxyRestart, vars
<1> QED
  BY <1>3, <1>4

(***************************************************************************)
(* Every reachable state satisfies the inductive invariant.                 *)
(***************************************************************************)
THEOREM CoapInvariant == Spec => []CoapInv
<1>1. CoapInv /\ [Next]_vars => CoapInv'
  BY NextTypeOK, NextGateway, NextMessages, NextProxy, NextReplies DEF CoapInv
<1> QED
  BY <1>1, InitCoap, PTL DEF Spec

(***************************************************************************)
(* Every variable keeps its type; so nothing is answered before there was   *)
(* an update to answer with.                                                *)
(***************************************************************************)
THEOREM CoapTypeCorrect == Spec => []TypeOK
<1>1. CoapInv => TypeOK
  BY DEF CoapInv
<1> QED
  BY <1>1, CoapInvariant, PTL

(***************************************************************************)
(* The signal never stands for an update that was not answered with.        *)
(***************************************************************************)
THEOREM ReadMeansCurrentCorrect == Spec => []ReadMeansCurrent
<1>1. CoapInv => ReadMeansCurrent
  BY DEF CoapInv, GatewayInv
<1> QED
  BY <1>1, CoapInvariant, PTL

(***************************************************************************)
(* OK is answered to a ping only if an update reached the back end because  *)
(* of it, or there is no back end, or the gateway answered its GET with     *)
(* having none.                                                             *)
(***************************************************************************)
THEOREM OkMeansForwardedCorrect == Spec => []OkMeansForwarded
<1>1. CoapInv => OkMeansForwarded
  BY DEF CoapInv
<1> QED
  BY <1>1, CoapInvariant, PTL

-----------------------------------------------------------------------------
(* The refinement: SendUpdate publishes, PostUpdate forwards, and every      *)
(* other step leaves both counts alone.                                     *)
LEMMA InitPromise == Init => Promise!Init
BY DEF Init, Promise!Init, None

(* Every step is one of StatusDelivery, or a stutter.                        *)
LEMMA NextPromise ==
    CoapInv /\ [Next]_vars => [Promise!Next]_<<published, backend>>
<1> SUFFICES ASSUME CoapInv, Next
             PROVE  Promise!Next \/ UNCHANGED <<published, backend>>
  BY DEF vars, gatewayVars, proxyVars
<1> USE DEF CoapInv
<1>1. CASE SendUpdate
  <2>1. published + 1 \in Round
    BY <1>1, CoapAssumption DEF SendUpdate, TypeOK, Round
  <2> QED
    BY <1>1, <2>1 DEF SendUpdate, proxyVars, Promise!Next, Promise!Publish
<1>2. ASSUME NEW r \in Round, PostUpdate(r)
      PROVE  Promise!Next
  <2>1. result[r] \in r .. published /\ backend[r] = 0
    BY <1>2 DEF PostUpdate, ProxyInv, None
  <2>2. Promise!Forward(r)
    BY <1>2, <2>1 DEF PostUpdate, gatewayVars, Promise!Forward
  <2> QED
    BY <2>2 DEF Promise!Next
<1>3. CASE ~SendUpdate /\ ~\E r \in Round : PostUpdate(r)
  BY <1>3 DEF Next, GatewayNext, ProxyNext, gatewayVars, proxyVars, LinkUp, SendPing,
              Registered, RegisterTimeout, UpdateRead, ReadTimeout, Drained, GetStatus,
              Restart, ReceivePing, ReceiveContent, ReceiveUnavailable, NothingToPostTo,
              ProcessingFails, ProxyRestart
<1> QED
  BY <1>1, <1>2, <1>3

(***************************************************************************)
(* The pull over CoAP implements its promise: an announcement brings the    *)
(* back end one update at most, and never one older than itself.            *)
(***************************************************************************)
THEOREM ImplementsPromiseCorrect == Spec => ImplementsPromise
BY InitPromise, NextPromise, CoapInvariant, PTL DEF Spec, ImplementsPromise, Promise!Spec

-----------------------------------------------------------------------------
(* An array is cut behind its last field that is not None.                   *)
LEMMA ArrayCut ==
    ASSUME NEW S, NEW fields \in Seq(S), NEW n \in 1 .. Len(fields),
           fields[n] # <<>>,
           \A i \in n + 1 .. Len(fields) : fields[i] = <<>>
    PROVE  /\ Len(Array(fields)) = n
           /\ \A i \in 1 .. n : Array(fields)[i] = fields[i]
<1> DEFINE I    == {i \in 1 .. Len(fields) : fields[i] # <<>>}
           last == SelectLastInSeq(fields, LAMBDA field : field # <<>>)
<1>1. n \in I /\ \A i \in I : n >= i
  OBVIOUS
<1>2. \A x \in I : (\A y \in I : x >= y) => x = n
  OBVIOUS
<1>3. last = CHOOSE x \in I : \A y \in I : x >= y
  BY <1>1 DEF SelectLastInSeq, Max
<1>4. last = n
  <2> HIDE DEF I, last
  <2> QED
    BY <1>1, <1>2, <1>3
<1>5. Array(fields) = SubSeq(fields, 1, n)
  BY <1>4 DEF Array
<1> QED
  BY <1>5

(* A tag's five fields are always there.                                     *)
LEMMA TagEncoded ==
    ASSUME NEW tag
    PROVE  /\ EncodeTag(tag)[1][1] = tag.addr
           /\ EncodeTag(tag)[3][1] = tag.age
           /\ EncodeTag(tag)[4][1] = tag.rssi
<1> DEFINE fields == << <<tag.addr>>, <<tag.name>>, <<tag.age>>, <<tag.rssi>>, <<tag.sequence>> >>
           S      == {<<tag.addr>>, <<tag.name>>, <<tag.age>>, <<tag.rssi>>, <<tag.sequence>>}
<1>1. /\ fields \in Seq(S) /\ Len(fields) = 5 /\ fields[5] # <<>>
      /\ fields[1][1] = tag.addr /\ fields[3][1] = tag.age /\ fields[4][1] = tag.rssi
  OBVIOUS
<1>2. EncodeTag(tag) = Array(fields)
  BY DEF EncodeTag
<1> HIDE DEF fields, S
<1>3. \A i \in 1 .. 5 : Array(fields)[i] = fields[i]
  <2>1. 5 \in 1 .. Len(fields) /\ 5 + 1 .. Len(fields) = {}
    BY <1>1
  <2> QED
    BY <1>1, <2>1, ArrayCut
<1> QED
  BY <1>1, <1>2, <1>3

(* The proxy gives a location the names serde gives it, if there is one.     *)
LEMMA LocationRestored ==
    ASSUME NEW Places, NEW location \in Optional(Places)
    PROVE  ConvertLocation(EncodeLocation(location)) = SerdeLocation(location)
<1> DEFINE Cbor(l) == Array(<< <<l.latitude>>, <<l.longitude>>, <<l.altitude>>, <<l.heading>>,
                               <<l.horizontal_speed>>, <<l.vertical_speed>>, <<l.time_of_fix>> >>)
<1>1. ASSUME NEW l
      PROVE  /\ Cbor(l)[1][1] = l.latitude /\ Cbor(l)[2][1] = l.longitude
             /\ Cbor(l)[3][1] = l.altitude /\ Cbor(l)[4][1] = l.heading
             /\ Cbor(l)[5][1] = l.horizontal_speed /\ Cbor(l)[6][1] = l.vertical_speed
             /\ Cbor(l)[7][1] = l.time_of_fix
  <2> DEFINE fields == << <<l.latitude>>, <<l.longitude>>, <<l.altitude>>, <<l.heading>>,
                          <<l.horizontal_speed>>, <<l.vertical_speed>>, <<l.time_of_fix>> >>
             S      == {<<l.latitude>>, <<l.longitude>>, <<l.altitude>>, <<l.heading>>,
                        <<l.horizontal_speed>>, <<l.vertical_speed>>, <<l.time_of_fix>>}
  <2>1. /\ fields \in Seq(S) /\ Len(fields) = 7 /\ fields[7] # <<>>
        /\ fields[1][1] = l.latitude /\ fields[2][1] = l.longitude
        /\ fields[3][1] = l.altitude /\ fields[4][1] = l.heading
        /\ fields[5][1] = l.horizontal_speed /\ fields[6][1] = l.vertical_speed
        /\ fields[7][1] = l.time_of_fix
    OBVIOUS
  <2>2. Cbor(l) = Array(fields)
    OBVIOUS
  <2> HIDE DEF fields, S, Cbor
  <2>3. \A i \in 1 .. 7 : Array(fields)[i] = fields[i]
    <3>1. 7 \in 1 .. Len(fields) /\ 7 + 1 .. Len(fields) = {}
      BY <2>1
    <3> QED
      BY <2>1, <3>1, ArrayCut
  <2> QED
    BY <2>1, <2>2, <2>3
<1>2. EncodeLocation(location) = [i \in DOMAIN location |-> Cbor(location[i])]
  BY DEF EncodeLocation
<1> HIDE DEF Cbor
<1>3. /\ DOMAIN EncodeLocation(location) = DOMAIN location
      /\ \A i \in DOMAIN location : EncodeLocation(location)[i] = Cbor(location[i])
  BY <1>2
<1> DEFINE names(a, b, c, d, e, f, g) ==
            [latitude |-> a, longitude |-> b, altitude |-> c, heading |-> d,
             horizontalSpeed |-> e, verticalSpeed |-> f, timeOfFix |-> g]
           converted(l) == names(Cbor(l)[1][1], Cbor(l)[2][1], Cbor(l)[3][1], Cbor(l)[4][1],
                                 Cbor(l)[5][1], Cbor(l)[6][1], Cbor(l)[7][1])
           served(l)    == names(l.latitude, l.longitude, l.altitude, l.heading,
                                 l.horizontal_speed, l.vertical_speed, l.time_of_fix)
<1>4. ASSUME NEW l PROVE converted(l) = served(l)
  <2> HIDE DEF names
  <2> QED
    BY <1>1
<1>5. ConvertLocation(EncodeLocation(location)) = [i \in DOMAIN location |-> converted(location[i])]
  BY <1>3 DEF ConvertLocation
<1>6. SerdeLocation(location) = [i \in DOMAIN location |-> served(location[i])]
  BY DEF SerdeLocation
<1> HIDE DEF converted, served
<1> QED
  BY <1>4, <1>5, <1>6

(* The proxy finds of every tag what it passes on.                           *)
LEMMA TagsRestored ==
    ASSUME NEW tags
    PROVE  ConvertTags(EncodeTags(tags)) = [i \in DOMAIN tags |-> ProxiedTag(tags[i])]
<1> DEFINE cbor       == EncodeTags(tags)
           told(c)    == [id |-> c[1][1], age |-> c[3][1], rssi |-> c[4][1]]
<1>1. DOMAIN cbor = DOMAIN tags /\ \A i \in DOMAIN tags : cbor[i] = EncodeTag(tags[i])
  BY DEF EncodeTags
<1>2. ASSUME NEW tag
      PROVE  told(EncodeTag(tag)) = ProxiedTag(tag)
  BY TagEncoded DEF ProxiedTag
<1>3. ConvertTags(cbor) = [i \in DOMAIN cbor |-> told(cbor[i])]
  BY DEF ConvertTags
<1> HIDE DEF cbor, told
<1>4. ConvertTags(cbor) = [i \in DOMAIN tags |-> ProxiedTag(tags[i])]
  BY <1>1, <1>2, <1>3
<1> QED
  BY <1>4 DEF cbor

(* A location is there after the conversion if and only if it was before.    *)
LEMMA LocationThere ==
    ASSUME NEW Places, NEW location \in Optional(Places)
    PROVE  /\ EncodeLocation(location) = <<>> <=> location = <<>>
           /\ location = <<>> => SerdeLocation(location) = <<>>
<1>1. CASE location = <<>>
  <2>1. DOMAIN location = {}
    BY <1>1
  <2>2. EncodeLocation(location) = <<>> /\ SerdeLocation(location) = <<>>
    BY <2>1 DEF EncodeLocation, SerdeLocation
  <2> QED
    BY <1>1, <2>2
<1>2. CASE location # <<>>
  <2>1. DOMAIN location = {1}
    BY <1>2 DEF Optional
  <2>2. DOMAIN EncodeLocation(location) = {1}
    BY <2>1 DEF EncodeLocation
  <2>3. DOMAIN <<>> = {}
    OBVIOUS
  <2> QED
    BY <1>2, <2>2, <2>3
<1> QED
  BY <1>1, <1>2

(***************************************************************************)
(* Whatever is in it, with any number of tags, and whichever of its         *)
(* optional fields are missing: of an update that goes through CBOR and the *)
(* proxy, the back end gets what it gets from the gateway itself, but for   *)
(* the two keys that are renamed and the name and number that every tag     *)
(* loses.                                                                   *)
(***************************************************************************)
THEOREM ReportRestored ==
    ASSUME NEW Value, NEW Tag, NEW Places,
           NEW update \in [gateway_id : Value, timestamp : Value, detected_tags : Seq(Tag),
                           battery_level : Optional(Value), location : Optional(Places)]
    PROVE  ProxyBody(update) = Proxied(SerdeBody(update))
<1> DEFINE tags     == update.detected_tags
           battery  == update.battery_level
           location == update.location
           encoded  == EncodeLocation(location)
           fields   == << <<update.gateway_id>>, <<update.timestamp>>, <<EncodeTags(tags)>>,
                          battery, encoded >>
           S        == {<<update.gateway_id>>, <<update.timestamp>>, <<EncodeTags(tags)>>,
                        battery, encoded}
           cbor     == Encode(update)
<1>1. /\ tags \in Seq(Tag) /\ location \in Optional(Places)
      /\ fields \in Seq(S) /\ Len(fields) = 5
      /\ fields[1] = <<update.gateway_id>> /\ fields[2] = <<update.timestamp>>
      /\ fields[3] = <<EncodeTags(tags)>> /\ fields[4] = battery /\ fields[5] = encoded
  OBVIOUS
<1>2. cbor = Array(fields)
  BY DEF Encode
<1>3. /\ encoded = <<>> <=> location = <<>>
      /\ location = <<>> => SerdeLocation(location) = <<>>
  BY <1>1, LocationThere
<1>4. ConvertLocation(encoded) = SerdeLocation(location)
  BY <1>1, LocationRestored
<1> HIDE DEF fields, S, cbor, encoded, tags, battery, location
<1>5. /\ cbor[1][1] = update.gateway_id /\ cbor[2][1] = update.timestamp
      /\ cbor[3][1] = EncodeTags(tags)
      /\ (IF Len(cbor) >= 4 THEN cbor[4] ELSE <<>>) = battery
      /\ (IF Len(cbor) >= 5 THEN ConvertLocation(cbor[5]) ELSE <<>>) = SerdeLocation(location)
  <2>1. ASSUME NEW n \in 3 .. 5, fields[n] # <<>>, \A i \in n + 1 .. 5 : fields[i] = <<>>
        PROVE  Len(cbor) = n /\ \A i \in 1 .. n : cbor[i] = fields[i]
    <3>1. n \in 1 .. Len(fields) /\ \A i \in n + 1 .. Len(fields) : fields[i] = <<>>
      BY <1>1, <2>1
    <3>2. Len(Array(fields)) = n /\ \A i \in 1 .. n : Array(fields)[i] = fields[i]
      BY <1>1, <2>1, <3>1, ArrayCut
    <3> QED
      BY <1>2, <3>2
  <2>2. CASE location # <<>>
    <3>1. Len(cbor) = 5 /\ \A i \in 1 .. 5 : cbor[i] = fields[i]
      <4>1. fields[5] # <<>> /\ 5 + 1 .. 5 = {}
        BY <1>1, <1>3, <2>2
      <4> QED
        BY <2>1, <4>1
    <3> QED
      BY <1>1, <1>4, <3>1
  <2>3. CASE location = <<>> /\ battery # <<>>
    <3>1. Len(cbor) = 4 /\ \A i \in 1 .. 4 : cbor[i] = fields[i]
      <4>1. fields[4] # <<>> /\ \A i \in 4 + 1 .. 5 : fields[i] = <<>>
        BY <1>1, <1>3, <2>3
      <4> QED
        BY <2>1, <4>1
    <3> QED
      BY <1>1, <1>3, <2>3, <3>1
  <2>4. CASE location = <<>> /\ battery = <<>>
    <3>1. Len(cbor) = 3 /\ \A i \in 1 .. 3 : cbor[i] = fields[i]
      <4>1. fields[3] # <<>> /\ \A i \in 3 + 1 .. 5 : fields[i] = <<>>
        BY <1>1, <1>3, <2>4
      <4> QED
        BY <2>1, <4>1
    <3> QED
      BY <1>1, <1>3, <2>4, <3>1
  <2> QED
    BY <2>2, <2>3, <2>4
<1>6. ProxyBody(update) =
        [gatewayId |-> update.gateway_id, timestamp |-> update.timestamp,
         detected_tags |-> ConvertTags(EncodeTags(tags)),
         batteryLevel |-> battery, location |-> SerdeLocation(location)]
  BY <1>5 DEF ProxyBody, ConvertGatewayUpdate, cbor
<1>7. SerdeBody(update) =
        [gatewayId |-> update.gateway_id, timestamp |-> update.timestamp, detectedTags |-> tags,
         batteryLevel |-> battery, location |-> SerdeLocation(location)]
  BY DEF SerdeBody, tags, battery, location
<1>8. ConvertTags(EncodeTags(tags)) = [i \in DOMAIN tags |-> ProxiedTag(tags[i])]
  BY TagsRestored
<1>9. Proxied(SerdeBody(update)) =
        [gatewayId |-> update.gateway_id, timestamp |-> update.timestamp,
         detected_tags |-> [i \in DOMAIN tags |-> ProxiedTag(tags[i])],
         batteryLevel |-> battery, location |-> SerdeLocation(location)]
  BY <1>7 DEF Proxied
<1> QED
  BY <1>6, <1>8, <1>9
=============================================================================
