-------------------------- MODULE MqttPublishProofs --------------------------
(***************************************************************************)
(* Proofs about MqttPublish, for every number of calls and restarts: its    *)
(* types, and that it implements OrderedDelivery.                           *)
(***************************************************************************)
EXTENDS MqttPublish, SequenceTheorems, TLAPS

(* Where the item c stands among those the broker has passed on.             *)
Delivered(c)    == \E i \in 1 .. Len(delivered) : delivered[i] = c
BeforeIsAll(c)  == \A i \in 1 .. Len(delivered) : delivered[i] < c

(***************************************************************************)
(* A call writes nothing before its last packet was answered, so a          *)
(* connection carries one packet at most, and none before its call.  Until  *)
(* it publishes, only older calls have delivered.                           *)
(***************************************************************************)
CallInv ==
    /\ \A i \in 1 .. Len(delivered) : delivered[i] <= call
    /\ \A c \in Update :
        /\ up[c] = <<>> \/ \E packet \in Request : up[c] = <<packet>>
        /\ c > call => up[c] = <<>>
    /\ pc \in {"configuring", "connecting", "securing"} =>
        call \in Update /\ BeforeIsAll(call) /\ up[call] = <<>>
    /\ pc = "connacking" =>
        /\ call \in Update
        /\ BeforeIsAll(call)
        /\ \/ up[call] = <<"CONNECT">> /\ down = <<>>
           \/ up[call] = <<>> /\ down \in {<<>>, <<"CONNACK">>}
    /\ pc = "polling" =>
        /\ call \in Update
        /\ \/ up[call] \in {<<>>, <<"PUBLISH">>, <<"PUBREL">>} /\ down = <<>>
           \/ up[call] = <<>> /\ down \in {<<"PUBREC">>, <<"REFUSED">>, <<"PUBCOMP">>}
    /\ pc = "refused" => call \in Update /\ up[call] = <<>> /\ down = <<>>

(* The broker has received the publication of c, and has passed it on or     *)
(* will when it is released.                                                *)
Accepted(c) == Delivered(c) \/ (~onPublish /\ unreleased = c)

(***************************************************************************)
(* The session is that of the connection being served, which has delivered  *)
(* nothing when its PUBLISH arrives, and all else delivered is older.       *)
(***************************************************************************)
SessionInv ==
    serving # None =>
        /\ unreleased \in {None, serving}
        /\ ~onPublish /\ unreleased = serving => BeforeIsAll(serving)
        /\ up[serving] = <<"PUBLISH">> => unreleased = None /\ BeforeIsAll(serving)
        /\ up[serving] = <<"PUBREL">> => Accepted(serving)
        /\ serving = call /\ pc = "connacking" /\ down = <<"CONNACK">> => unreleased = None
        /\ serving = call /\ pc = "polling" /\ down = <<"PUBREC">> => Accepted(call)

(* What the call hears of is so.                                             *)
AckInv == pc = "polling" /\ down = <<"PUBCOMP">> => Delivered(call)

MqttInv ==
    /\ TypeOK
    /\ CallInv
    /\ SessionInv
    /\ AckInv

-----------------------------------------------------------------------------
(* A queue of one packet: read, it is empty; the packet can be told from it. *)
LEMMA OnePacket ==
    ASSUME NEW S, NEW packet \in S
    PROVE  /\ <<packet>> \in Seq(S)
           /\ <<packet>> # <<>>
           /\ Len(<<packet>>) = 1
           /\ Head(<<packet>>) = packet
           /\ Tail(<<packet>>) = <<>>
           /\ Append(<<>>, packet) = <<packet>>
           /\ \A other : <<packet>> = <<other>> => packet = other
OBVIOUS

(* What a step of the call that reads or writes does to the two queues.      *)
LEMMA TlsOpenEffect ==
    ASSUME MqttInv, TlsOpen
    PROVE  /\ call \in Update
           /\ BeforeIsAll(call)
           /\ up' = [up EXCEPT ![call] = <<"CONNECT">>]
           /\ down' = <<>>
           /\ pc' = "connacking"
BY OnePacket DEF TlsOpen, Goto, Write, MqttInv, CallInv, Request

(* The update is published on the connection of its own call.                *)
LEMMA PublishEffect ==
    ASSUME MqttInv, Publish
    PROVE  /\ call \in Update
           /\ BeforeIsAll(call)
           /\ pc = "connacking"
           /\ down = <<"CONNACK">>
           /\ up' = [up EXCEPT ![call] = <<"PUBLISH">>]
           /\ down' = <<>>
           /\ pc' = "polling"
BY OnePacket DEF Publish, Goto, Write, Read, MqttInv, CallInv, Request, Response

(* What the broker received is released.                                     *)
LEMMA ReleaseEffect ==
    ASSUME MqttInv, Release
    PROVE  /\ call \in Update
           /\ pc = "polling"
           /\ down = <<"PUBREC">>
           /\ up' = [up EXCEPT ![call] = <<"PUBREL">>]
           /\ down' = <<>>
           /\ pc' = "polling"
BY OnePacket DEF Release, Goto, Write, Read, MqttInv, CallInv, Request, Response

(* After a refusal nothing is on the way any more.                           *)
LEMMA RejectedEffect ==
    ASSUME MqttInv, Rejected
    PROVE  /\ call \in Update
           /\ up[call] = <<>>
           /\ down' = <<>>
           /\ pc' = "refused"
           /\ UNCHANGED <<call, restarts, completed, up, brokerVars>>
BY OnePacket DEF Rejected, Goto, Read, MqttInv, CallInv, Request, Response

(* What the broker completed is complete.                                    *)
LEMMA CompleteEffect ==
    ASSUME MqttInv, Complete
    PROVE  /\ call \in Update
           /\ pc = "polling"
           /\ down = <<"PUBCOMP">>
           /\ up' = [up EXCEPT ![call] = <<"DISCONNECT">>]
           /\ down' = <<>>
           /\ pc' = "idle"
BY OnePacket DEF Complete, Goto, Write, Read, MqttInv, CallInv, Request, Response

(* A panic leaves connections and broker as they are.                        *)
LEMMA PanicsEffect ==
    ASSUME MqttInv, Panics
    PROVE  /\ pc' = "panicked"
           /\ down' \in Seq(Response)
           /\ Len(down') <= 1
           /\ call' = call
           /\ restarts' = restarts
           /\ up' = up
           /\ brokerVars' = brokerVars
           /\ \/ completed' = completed
              \/ /\ pc = "polling"
                 /\ call \in Update
                 /\ down = <<"PUBCOMP">>
                 /\ completed' = completed \cup {call}
<1>1. Tail(<<"CONNACK">>) = <<>> /\ Tail(<<"PUBCOMP">>) = <<>> /\ Tail(<<"PUBREC">>) = <<>>
  OBVIOUS
<1>2. <<>> \in Seq(Response) /\ Len(<<>>) = 0
  OBVIOUS
<1>3. Head(<<"PUBREC">>) = "PUBREC" /\ Head(<<"REFUSED">>) = "REFUSED"
  OBVIOUS
<1>4. pc = "polling" => call \in Update /\ 
            (down # <<>> => down \in {<<"PUBREC">>, <<"REFUSED">>, <<"PUBCOMP">>})
  BY DEF MqttInv, CallInv
<1>5. pc = "connacking" => down \in {<<>>, <<"CONNACK">>}
  BY DEF MqttInv, CallInv
<1>6. down \in Seq(Response) /\ Len(down) <= 1
  BY DEF MqttInv, TypeOK
<1>7. CASE Quietly("connacking", "panicked")
  BY <1>6, <1>7 DEF Quietly, Goto
<1>8. CASE /\ Goto("connacking", "panicked")
           /\ Read("CONNACK")
           /\ UNCHANGED <<completed, up, brokerVars>>
  <2>1. down' = <<>>
    BY <1>1, <1>5, <1>8 DEF Goto, Read
  <2> QED
    BY <1>2, <1>8, <2>1 DEF Goto
<1>9. CASE /\ Goto("polling", "panicked")
           /\ Read("PUBCOMP")
           /\ completed' = completed \cup {call}
           /\ UNCHANGED <<up, brokerVars>>
  <2>1. down = <<"PUBCOMP">> /\ down' = <<>>
    BY <1>1, <1>3, <1>4, <1>9 DEF Goto, Read
  <2> QED
    BY <1>2, <1>4, <1>9, <2>1 DEF Goto
<1> QED
  BY <1>7, <1>8, <1>9 DEF Panics

(* What arrives is all there was on the connection, and an answer to the     *)
(* call is all there is for it.                                             *)
LEMMA ArrivesEffect ==
    ASSUME MqttInv, NEW c \in Update, NEW packet, Arrives(c, packet)
    PROVE  /\ packet \in Request
           /\ up[c] = <<packet>>
           /\ Tail(up[c]) = <<>>
           /\ c <= call
           /\ c = call /\ pc \in {"connacking", "polling"} => down = <<>>
<1>1. PICK other \in Request : up[c] = <<other>>
  BY DEF Arrives, MqttInv, CallInv
<1>2. packet = other /\ up[c] # <<>> /\ Tail(up[c]) = <<>>
  BY <1>1, OnePacket DEF Arrives
<1>3. c <= call
  BY <1>2, MqttAssumption DEF MqttInv, CallInv, TypeOK, Update
<1>4. pc \in {"connacking", "polling"} /\ up[call] # <<>> => down = <<>>
  BY DEF MqttInv, CallInv
<1> QED
  BY <1>1, <1>2, <1>3, <1>4

(* An answer reaches the client only on its present connection.              *)
LEMMA AnswerEffect ==
    ASSUME MqttInv, NEW c \in Update, NEW packet, Arrives(c, packet),
           NEW answer \in Response, Answer(c, answer)
    PROVE  /\ down' \in Seq(Response)
           /\ Len(down') <= 1
           /\ IF c = call /\ pc \in {"connacking", "polling"}
              THEN down = <<>> /\ down' = <<answer>>
              ELSE down' = down
<1>1. CASE c = call /\ pc \in {"connacking", "polling"}
  <2>1. down = <<>>
    BY <1>1, ArrivesEffect
  <2>2. down' = <<answer>>
    BY <1>1, <2>1, OnePacket DEF Answer
  <2> QED
    BY <1>1, <2>1, <2>2, OnePacket
<1>2. CASE ~(c = call /\ pc \in {"connacking", "polling"})
  <2>1. ~(c = call /\ pc = "refused")
    BY DEF Arrives, MqttInv, CallInv
  <2> QED
    BY <1>2, <2>1 DEF Answer, MqttInv, TypeOK
<1> QED
  BY <1>1, <1>2

(* One more was passed on.                                                   *)
LEMMA PassedOn ==
    ASSUME delivered \in Seq(Update), NEW c \in Update, delivered' = Append(delivered, c)
    PROVE  /\ Len(delivered) \in Nat
           /\ Len(delivered') = Len(delivered) + 1
           /\ delivered'[Len(delivered) + 1] = c
           /\ \A i \in 1 .. Len(delivered) : delivered'[i] = delivered[i] /\ delivered[i] \in Update
           /\ Delivered(c)'
           /\ \A d : Delivered(d) => Delivered(d)'
           /\ \A n \in Int : BeforeIsAll(n) /\ c < n => BeforeIsAll(n)'
           /\ \A n \in Int : (\A i \in 1 .. Len(delivered) : delivered[i] <= n) /\ c <= n
                => \A i \in 1 .. Len(delivered') : delivered'[i] <= n
<1>1. /\ Len(delivered) \in Nat
      /\ Len(delivered') = Len(delivered) + 1
      /\ delivered'[Len(delivered) + 1] = c
      /\ \A i \in 1 .. Len(delivered) : delivered'[i] = delivered[i] /\ delivered[i] \in Update
  BY AppendProperties, ElementOfSeq, LenProperties
<1>2. Delivered(c)'
  BY <1>1 DEF Delivered
<1>3. \A d : Delivered(d) => Delivered(d)'
  BY <1>1 DEF Delivered
<1>4. \A n \in Int : BeforeIsAll(n) /\ c < n => BeforeIsAll(n)'
  BY <1>1 DEF BeforeIsAll
<1>5. \A n \in Int : (\A i \in 1 .. Len(delivered) : delivered[i] <= n) /\ c <= n
        => \A i \in 1 .. Len(delivered') : delivered'[i] <= n
  BY <1>1
<1> QED
  BY <1>1, <1>2, <1>3, <1>4, <1>5

(* What a packet does when it reaches the broker.                            *)
LEMMA OnConnectEffect ==
    ASSUME MqttInv, NEW c \in Update, OnConnect(c)
    PROVE  /\ up[c] = <<"CONNECT">>
           /\ c <= call
           /\ serving' = c
           /\ unreleased' = None
           /\ up'[c] = <<>>
           /\ \A d \in Update : up'[d] \in {<<>>, up[d]}
           /\ \A d \in Update : d # c /\ d # serving => up'[d] = up[d]
           /\ IF c = call /\ pc \in {"connacking", "polling"}
              THEN down = <<>> /\ down' = <<"CONNACK">>
              ELSE down' = down
<1>1. "CONNACK" \in Response
  BY DEF Response
<1>2. Arrives(c, "CONNECT") /\ Answer(c, "CONNACK")
  BY DEF OnConnect
<1>3. up[c] = <<"CONNECT">> /\ Tail(up[c]) = <<>> /\ c <= call
  BY <1>2, ArrivesEffect
<1> QED
  BY <1>1, <1>2, <1>3, AnswerEffect DEF OnConnect, SessionAtConnect

(* The broker takes a PUBLISH of the connection it serves.                   *)
LEMMA OnPublishEffect ==
    ASSUME MqttInv, NEW c \in Update, OnPublish(c)
    PROVE  /\ up[c] = <<"PUBLISH">>
           /\ c <= call
           /\ serving = c
           /\ unreleased = None
           /\ BeforeIsAll(c)
           /\ unreleased' = c
           /\ delivered' = IF onPublish THEN Append(delivered, c) ELSE delivered
           /\ up' = [up EXCEPT ![c] = <<>>]
           /\ IF c = call /\ pc \in {"connacking", "polling"}
              THEN down = <<>> /\ down' = <<"PUBREC">>
              ELSE down' = down
<1>1. "PUBREC" \in Response
  BY DEF Response
<1>2. Arrives(c, "PUBLISH") /\ Answer(c, "PUBREC")
  BY DEF OnPublish
<1>3. up[c] = <<"PUBLISH">> /\ Tail(up[c]) = <<>> /\ c <= call /\ serving = c
  BY <1>2, ArrivesEffect DEF Arrives
<1>4. serving # None
  BY <1>3 DEF Update, None
<1>5. unreleased = None /\ BeforeIsAll(c)
  BY <1>3, <1>4 DEF MqttInv, SessionInv
<1> QED
  BY <1>1, <1>2, <1>3, <1>5, AnswerEffect DEF OnPublish

(* A PUBLISH that is refused changes nothing but the connection.             *)
LEMMA OnPublishRefusedEffect ==
    ASSUME MqttInv, NEW c \in Update, OnPublishRefused(c)
    PROVE  /\ up[c] = <<"PUBLISH">>
           /\ up' = [up EXCEPT ![c] = <<>>]
           /\ down' \in Seq(Response)
           /\ Len(down') <= 1
           /\ IF c = call /\ pc \in {"connacking", "polling"}
              THEN down = <<>> /\ down' = <<"REFUSED">>
              ELSE down' = down
           /\ UNCHANGED <<clientVars, brokerVars>>
<1>1. "REFUSED" \in Response
  BY DEF Response
<1>2. Arrives(c, "PUBLISH") /\ Answer(c, "REFUSED")
  BY DEF OnPublishRefused
<1>3. up[c] = <<"PUBLISH">> /\ Tail(up[c]) = <<>>
  BY <1>2, ArrivesEffect
<1> QED
  BY <1>1, <1>2, <1>3, AnswerEffect DEF OnPublishRefused, brokerVars

(* A PUBREL finds its update delivered, or delivers it.                      *)
LEMMA OnPubrelEffect ==
    ASSUME MqttInv, NEW c \in Update, OnPubrel(c)
    PROVE  /\ up[c] = <<"PUBREL">>
           /\ c <= call
           /\ serving = c
           /\ Accepted(c)
           /\ unreleased \in {None, c}
           /\ c # None
           /\ unreleased' = None
           /\ delivered' = IF ~onPublish /\ unreleased = c THEN Append(delivered, c) ELSE delivered
           /\ ~onPublish /\ unreleased = c => BeforeIsAll(c)
           /\ Delivered(c)'
           /\ up' = [up EXCEPT ![c] = <<>>]
           /\ IF c = call /\ pc \in {"connacking", "polling"}
              THEN down = <<>> /\ down' = <<"PUBCOMP">>
              ELSE down' = down
<1>1. "PUBCOMP" \in Response
  BY DEF Response
<1>2. Arrives(c, "PUBREL") /\ Answer(c, "PUBCOMP")
  BY DEF OnPubrel
<1>3. up[c] = <<"PUBREL">> /\ Tail(up[c]) = <<>> /\ c <= call /\ serving = c
  BY <1>2, ArrivesEffect DEF Arrives
<1>4. c # None
  BY DEF Update, None
<1>5. Accepted(c) /\ unreleased \in {None, c} /\ (~onPublish /\ unreleased = c => BeforeIsAll(c))
  BY <1>3, <1>4 DEF MqttInv, SessionInv
<1>6. delivered' = IF ~onPublish /\ unreleased = c THEN Append(delivered, c) ELSE delivered
  BY <1>4, <1>5 DEF OnPubrel
<1>7. Delivered(c)'
  <2>1. CASE ~onPublish /\ unreleased = c
    BY <1>6, <2>1, PassedOn DEF MqttInv, TypeOK
  <2>2. CASE ~(~onPublish /\ unreleased = c)
    BY <1>5, <1>6, <2>2 DEF Accepted, Delivered
  <2> QED
    BY <2>1, <2>2
<1>8. /\ unreleased' = None
      /\ up' = [up EXCEPT ![c] = <<>>]
  BY <1>3 DEF OnPubrel
<1>9. IF c = call /\ pc \in {"connacking", "polling"}
      THEN down = <<>> /\ down' = <<"PUBCOMP">>
      ELSE down' = down
  BY <1>1, <1>2, AnswerEffect
<1> QED
  BY <1>3, <1>4, <1>5, <1>6, <1>7, <1>8, <1>9

(* The invariant holds initially.                                            *)
LEMMA InitMqtt == Init => MqttInv
<1> SUFFICES ASSUME Init
             PROVE  MqttInv
  OBVIOUS
<1> USE DEF Init
<1>1. TypeOK
  BY MqttAssumption, EmptySeq DEF TypeOK
<1>2. Len(delivered) = 0
  BY EmptySeq
<1>3. CallInv
  BY <1>2 DEF CallInv
<1>4. SessionInv /\ AckInv
  BY DEF SessionInv, AckInv
<1> QED
  BY <1>1, <1>3, <1>4 DEF MqttInv

-----------------------------------------------------------------------------
(* Types.                                                                    *)
LEMMA NextTypeOK == MqttInv /\ [Next]_vars => TypeOK'
<1> SUFFICES ASSUME MqttInv, [Next]_vars
             PROVE  TypeOK'
  OBVIOUS
<1> USE MqttAssumption DEF TypeOK, brokerVars, clientVars
<1>0. TypeOK
  BY DEF MqttInv
<1>1. \A packet \in Request : <<packet>> \in Seq(Request)
  OBVIOUS
<1>3. <<>> \in Seq(Request) /\ <<>> \in Seq(Response) /\ Len(<<>>) = 0
  OBVIOUS
<1>4. CASE Call
  BY <1>0, <1>4 DEF Call
<1>5. CASE ConfigUp \/ Connected \/ ConnectFails \/ TlsFails \/ PauseOver \/ PollFails
  BY <1>0, <1>5
  DEF ConfigUp, Connected, ConnectFails, TlsFails, PauseOver, PollFails, Quietly, Goto
<1>6. CASE TlsOpen
  <2>1. up' \in [Update -> Seq(Request)]
    BY <1>0, <1>1, <1>6, TlsOpenEffect DEF Request
  <2> QED
    BY <1>0, <1>3, <1>6, <2>1, TlsOpenEffect DEF TlsOpen, Goto
<1>7. CASE Publish
  <2>1. up' \in [Update -> Seq(Request)]
    BY <1>0, <1>1, <1>7, PublishEffect DEF Request
  <2> QED
    BY <1>0, <1>3, <1>7, <2>1, PublishEffect DEF Publish, Goto
<1>8. CASE Release
  <2>1. up' \in [Update -> Seq(Request)]
    BY <1>0, <1>1, <1>8, ReleaseEffect DEF Request
  <2> QED
    BY <1>0, <1>3, <1>8, <2>1, ReleaseEffect DEF Release, Goto
<1>9. CASE Complete
  <2>1. up' \in [Update -> Seq(Request)]
    BY <1>0, <1>1, <1>9, CompleteEffect DEF Request
  <2> QED
    BY <1>0, <1>3, <1>9, <2>1, CompleteEffect DEF Complete, Goto, Update
<1>10. CASE Panics
  <2>1. completed' \subseteq 1 .. call
    <3>1. completed' = completed \/ (call \in Update /\ completed' = completed \cup {call})
      BY <1>10, PanicsEffect
    <3>2. call \in Update => call \in 1 .. call
      BY DEF Update
    <3>3. completed \subseteq 1 .. call /\ call' = call
      BY <1>0, <1>10, PanicsEffect
    <3> QED
      BY <3>1, <3>2, <3>3
  <2> QED
    BY <1>0, <1>10, <2>1, PanicsEffect
<1>11. CASE Restart
  BY <1>0, <1>3, <1>11 DEF Restart
<1>12. ASSUME NEW c \in Update, OnConnect(c)
       PROVE  TypeOK'
  <2>1. down' \in Seq(Response) /\ Len(down') <= 1
    <3>1. "CONNACK" \in Response /\ Arrives(c, "CONNECT") /\ Answer(c, "CONNACK")
      BY <1>12 DEF OnConnect, Response
    <3> QED
      BY <3>1, AnswerEffect
  <2>2. up' \in [Update -> Seq(Request)]
    BY <1>0, <1>3, <1>12, ArrivesEffect DEF OnConnect
  <2> QED
    BY <1>0, <1>12, <2>1, <2>2 DEF OnConnect, SessionAtConnect
<1>13. ASSUME NEW c \in Update, OnPublish(c)
       PROVE  TypeOK'
  <2>1. down' \in Seq(Response) /\ Len(down') <= 1
    <3>1. "PUBREC" \in Response /\ Arrives(c, "PUBLISH") /\ Answer(c, "PUBREC")
      BY <1>13 DEF OnPublish, Response
    <3> QED
      BY <3>1, AnswerEffect
  <2>2. up' \in [Update -> Seq(Request)]
    BY <1>0, <1>3, <1>13, ArrivesEffect DEF OnPublish
  <2>3. delivered' \in Seq(Update)
    BY <1>0, <1>13, AppendProperties DEF OnPublish
  <2> QED
    BY <1>0, <1>13, <2>1, <2>2, <2>3 DEF OnPublish
<1>14. ASSUME NEW c \in Update, OnPubrel(c)
       PROVE  TypeOK'
  <2>1. down' \in Seq(Response) /\ Len(down') <= 1
    <3>1. "PUBCOMP" \in Response /\ Arrives(c, "PUBREL") /\ Answer(c, "PUBCOMP")
      BY <1>14 DEF OnPubrel, Response
    <3> QED
      BY <3>1, AnswerEffect
  <2>2. up' \in [Update -> Seq(Request)]
    BY <1>0, <1>3, <1>14, ArrivesEffect DEF OnPubrel
  <2>3. delivered' \in Seq(Update)
    BY <1>0, <1>14, AppendProperties DEF OnPubrel
  <2> QED
    BY <1>0, <1>14, <2>1, <2>2, <2>3 DEF OnPubrel
<1>15. CASE Disconnected
  BY <1>0, <1>3, <1>15 DEF Disconnected
<1>16. CASE Rejected
  <2>1. down' = <<>> /\ pc' = "refused"
    BY <1>16, RejectedEffect
  <2>2. UNCHANGED <<call, restarts, completed, up, serving, unreleased, delivered, onPublish>>
    BY <1>16, RejectedEffect
  <2> QED
    BY <1>0, <1>3, <2>1, <2>2
<1>17. ASSUME NEW c \in Update, OnPublishRefused(c)
       PROVE  TypeOK'
  <2>1. up' \in [Update -> Seq(Request)]
    BY <1>0, <1>3, <1>17, OnPublishRefusedEffect
  <2> QED
    BY <1>0, <1>17, <2>1, OnPublishRefusedEffect
<1>18. CASE UNCHANGED vars
  BY <1>0, <1>18 DEF vars
<1> QED
  BY <1>4, <1>5, <1>6, <1>7, <1>8, <1>9, <1>10, <1>11, <1>12, <1>13, <1>14, <1>15, <1>16,
     <1>17, <1>18
  DEF Next, ClientNext, BrokerNext

-----------------------------------------------------------------------------
(* The call and its connection.                                              *)
LEMMA NextCall == MqttInv /\ [Next]_vars => CallInv'
<1> SUFFICES ASSUME MqttInv, [Next]_vars
             PROVE  CallInv'
  OBVIOUS
<1> USE MqttAssumption DEF None
<1>0. TypeOK /\ CallInv
  BY DEF MqttInv
<1>1. \A i \in 1 .. Len(delivered) : delivered[i] \in Update
  BY <1>0, ElementOfSeq DEF TypeOK
<1>2. call \in Nat /\ \A c \in Update : c \in Nat
  BY <1>0 DEF TypeOK, Update
<1>3. up \in [Update -> Seq(Request)]
  BY <1>0 DEF TypeOK
<1>4. CASE Call
  <2>1. call' \in Update /\ call' = call + 1
    BY <1>0, <1>4 DEF Call, TypeOK, Update
  <2>2. pc' = "configuring" /\ up' = up /\ delivered' = delivered
    BY <1>4 DEF Call, brokerVars
  <2>3. \A i \in 1 .. Len(delivered) : delivered[i] <= call /\ delivered[i] < call'
    <3>1. \A i \in 1 .. Len(delivered) : delivered[i] \in Nat /\ delivered[i] <= call
      BY <1>0, <1>1, <1>2 DEF CallInv
    <3>2. \A n \in Nat : n <= call => n < call'
      BY <1>2, <2>1
    <3> QED
      BY <3>1, <3>2
  <2>4. up[call'] = <<>>
    BY <1>0, <1>2, <2>1 DEF CallInv
  <2>5. \A c \in Update : c > call' => up[c] = <<>>
    <3>1. \A c \in Update : c > call => up[c] = <<>>
      BY <1>0 DEF CallInv
    <3>2. \A c \in Update : c > call' => c > call
      BY <1>2, <2>1
    <3> QED
      BY <3>1, <3>2
  <2>6. \A i \in 1 .. Len(delivered) : delivered[i] <= call'
    <3>1. \A n \in Nat : n <= call => n <= call'
      BY <1>2, <2>1
    <3> QED
      BY <1>1, <1>2, <2>3, <3>1
  <2> QED
    BY <1>0, <2>1, <2>2, <2>3, <2>4, <2>5, <2>6 DEF CallInv, BeforeIsAll
<1>5. CASE ConfigUp \/ Connected \/ ConnectFails \/ TlsFails \/ PauseOver \/ PollFails
  BY <1>0, <1>5
  DEF ConfigUp, Connected, ConnectFails, TlsFails, PauseOver, PollFails, Quietly, Goto,
      CallInv, BeforeIsAll, brokerVars
<1>6. CASE TlsOpen
  <2>1. up'[call] = <<"CONNECT">> /\ \A c \in Update : c # call => up'[c] = up[c]
    BY <1>3, <1>6, TlsOpenEffect
  <2>2. UNCHANGED <<call, delivered>>
    BY <1>6 DEF TlsOpen, Goto, brokerVars
  <2> QED
    BY <1>0, <1>2, <1>6, <2>1, <2>2, TlsOpenEffect DEF CallInv, BeforeIsAll, Request
<1>7. CASE Publish
  <2>1. up'[call] = <<"PUBLISH">> /\ \A c \in Update : c # call => up'[c] = up[c]
    BY <1>3, <1>7, PublishEffect
  <2>2. UNCHANGED <<call, delivered>>
    BY <1>7 DEF Publish, Goto, brokerVars
  <2> QED
    BY <1>0, <1>2, <1>7, <2>1, <2>2, PublishEffect DEF CallInv, BeforeIsAll, Request
<1>8. CASE Release
  <2>1. up'[call] = <<"PUBREL">> /\ \A c \in Update : c # call => up'[c] = up[c]
    BY <1>3, <1>8, ReleaseEffect
  <2>2. UNCHANGED <<call, delivered>>
    BY <1>8 DEF Release, Goto, brokerVars
  <2> QED
    BY <1>0, <1>2, <1>8, <2>1, <2>2, ReleaseEffect DEF CallInv, BeforeIsAll, Request
<1>9. CASE Complete
  <2>1. up'[call] = <<"DISCONNECT">> /\ \A c \in Update : c # call => up'[c] = up[c]
    BY <1>3, <1>9, CompleteEffect
  <2>2. UNCHANGED <<call, delivered>>
    BY <1>9 DEF Complete, Goto, brokerVars
  <2> QED
    BY <1>0, <1>2, <1>9, <2>1, <2>2, CompleteEffect DEF CallInv, BeforeIsAll, Request
<1>10. CASE Panics
  BY <1>0, <1>10, PanicsEffect DEF CallInv, BeforeIsAll, brokerVars
<1>11. CASE Restart
  BY <1>0, <1>11 DEF Restart, CallInv, BeforeIsAll, brokerVars
<1>12. ASSUME NEW c \in Update, OnConnect(c)
       PROVE  CallInv'
  <2>1. UNCHANGED <<pc, call, delivered>>
    BY <1>12 DEF OnConnect, clientVars
  <2>2. up[c] = <<"CONNECT">> /\ up[c] # <<>> /\ up[c] # <<"PUBLISH">> /\ up[c] # <<"PUBREL">>
    BY <1>12, OnConnectEffect, OnePacket DEF Request
  <2>3. \A d \in Update : up'[d] = <<>> \/ up'[d] = up[d]
    BY <1>12, OnConnectEffect
  <2>4. CASE c = call /\ pc \in {"connacking", "polling"}
    BY <1>0, <1>12, <2>1, <2>2, <2>3, <2>4, OnConnectEffect DEF CallInv, BeforeIsAll
  <2>5. CASE ~(c = call /\ pc \in {"connacking", "polling"})
    BY <1>0, <1>12, <2>1, <2>2, <2>3, <2>5, OnConnectEffect DEF CallInv, BeforeIsAll
  <2> QED
    BY <2>4, <2>5
<1>13. ASSUME NEW c \in Update, OnPublish(c)
       PROVE  CallInv'
  <2>1. UNCHANGED <<pc, call>>
    BY <1>13 DEF OnPublish, clientVars
  <2>2. up[c] # <<>> /\ up[c] # <<"CONNECT">>
    BY <1>13, OnPublishEffect, OnePacket DEF Request
  <2>3. up'[c] = <<>> /\ \A d \in Update : d # c => up'[d] = up[d]
    BY <1>3, <1>13, OnPublishEffect
  <2>4. \A i \in 1 .. Len(delivered') : delivered'[i] <= call
    <3>1. CASE delivered' = delivered
      BY <1>0, <3>1 DEF CallInv
    <3>2. CASE delivered' = Append(delivered, c)
      <4>1. c <= call /\ delivered \in Seq(Update) /\ call \in Int
        BY <1>0, <1>2, <1>13, OnPublishEffect DEF TypeOK
      <4> QED
        BY <1>0, <3>2, <4>1, PassedOn DEF CallInv
    <3> QED
      BY <1>13, <3>1, <3>2, OnPublishEffect
  <2>5. BeforeIsAll(call) /\ c < call => BeforeIsAll(call)'
    <3>1. \A n \in Int : BeforeIsAll(n) /\ c < n => BeforeIsAll(n)'
      BY <1>0, <1>13, OnPublishEffect, PassedOn DEF TypeOK, BeforeIsAll
    <3> QED
      BY <1>2, <2>1, <3>1 DEF BeforeIsAll
  <2>6. c <= call
    BY <1>13, OnPublishEffect
  <2>7. CASE c = call
    BY <1>0, <1>2, <1>13, <2>1, <2>2, <2>3, <2>4, <2>7, OnPublishEffect DEF CallInv
  <2>8. CASE c # call
    <3>1. c < call
      BY <1>2, <2>6, <2>8
    <3>2. down' = down
      BY <1>13, <2>8, OnPublishEffect
    <3> QED
      BY <1>0, <1>2, <2>1, <2>3, <2>4, <2>5, <2>8, <3>1, <3>2 DEF CallInv
  <2> QED
    BY <2>7, <2>8
<1>14. ASSUME NEW c \in Update, OnPubrel(c)
       PROVE  CallInv'
  <2>1. UNCHANGED <<pc, call>>
    BY <1>14 DEF OnPubrel, clientVars
  <2>2. up[c] # <<>> /\ up[c] # <<"CONNECT">>
    BY <1>14, OnPubrelEffect, OnePacket DEF Request
  <2>3. up'[c] = <<>> /\ \A d \in Update : d # c => up'[d] = up[d]
    BY <1>3, <1>14, OnPubrelEffect
  <2>4. \A i \in 1 .. Len(delivered') : delivered'[i] <= call
    <3>1. CASE delivered' = delivered
      BY <1>0, <3>1 DEF CallInv
    <3>2. CASE delivered' = Append(delivered, c)
      <4>1. c <= call /\ delivered \in Seq(Update) /\ call \in Int
        BY <1>0, <1>2, <1>14, OnPubrelEffect DEF TypeOK
      <4> QED
        BY <1>0, <3>2, <4>1, PassedOn DEF CallInv
    <3> QED
      BY <1>14, <3>1, <3>2, OnPubrelEffect
  <2>5. BeforeIsAll(call) /\ c < call => BeforeIsAll(call)'
    <3>1. \A n \in Int : BeforeIsAll(n) /\ c < n => BeforeIsAll(n)'
      BY <1>0, <1>14, OnPubrelEffect, PassedOn DEF TypeOK, BeforeIsAll
    <3> QED
      BY <1>2, <2>1, <3>1 DEF BeforeIsAll
  <2>6. c <= call
    BY <1>14, OnPubrelEffect
  <2>7. CASE c = call
    BY <1>0, <1>2, <1>14, <2>1, <2>2, <2>3, <2>4, <2>7, OnPubrelEffect DEF CallInv
  <2>8. CASE c # call
    <3>1. c < call
      BY <1>2, <2>6, <2>8
    <3>2. down' = down
      BY <1>14, <2>8, OnPubrelEffect
    <3> QED
      BY <1>0, <1>2, <2>1, <2>3, <2>4, <2>5, <2>8, <3>1, <3>2 DEF CallInv
  <2> QED
    BY <2>7, <2>8
<1>15. CASE Disconnected
  <2>1. UNCHANGED <<pc, call, down, delivered>>
    BY <1>15 DEF Disconnected, clientVars
  <2>2. \A d \in Update : up'[d] = <<>> \/ up'[d] = up[d]
    BY <1>3, <1>15 DEF Disconnected
  <2> QED
    BY <1>0, <2>1, <2>2 DEF CallInv, BeforeIsAll
<1>16. CASE Rejected
  BY <1>0, <1>16, RejectedEffect DEF CallInv, BeforeIsAll, brokerVars
<1>17. ASSUME NEW c \in Update, OnPublishRefused(c)
       PROVE  CallInv'
  <2>1. UNCHANGED <<pc, call, delivered>>
    BY <1>17, OnPublishRefusedEffect DEF clientVars, brokerVars
  <2>2. up[c] # <<>> /\ up[c] # <<"CONNECT">>
    BY <1>17, OnPublishRefusedEffect, OnePacket DEF Request
  <2>3. up'[c] = <<>> /\ \A d \in Update : d # c => up'[d] = up[d]
    BY <1>3, <1>17, OnPublishRefusedEffect
  <2>4. CASE c = call /\ pc \in {"connacking", "polling"}
    BY <1>0, <1>17, <2>1, <2>2, <2>3, <2>4, OnPublishRefusedEffect DEF CallInv, BeforeIsAll
  <2>5. CASE ~(c = call /\ pc \in {"connacking", "polling"})
    BY <1>0, <1>17, <2>1, <2>2, <2>3, <2>5, OnPublishRefusedEffect DEF CallInv, BeforeIsAll
  <2> QED
    BY <2>4, <2>5
<1>18. CASE UNCHANGED vars
  BY <1>0, <1>18 DEF vars, clientVars, brokerVars, CallInv, BeforeIsAll
<1> QED
  BY <1>4, <1>5, <1>6, <1>7, <1>8, <1>9, <1>10, <1>11, <1>12, <1>13, <1>14, <1>15, <1>16,
     <1>17, <1>18
  DEF Next, ClientNext, BrokerNext

(* The session and the connection it belongs to.                             *)
LEMMA NextSession == MqttInv /\ [Next]_vars => SessionInv'
<1> SUFFICES ASSUME MqttInv, [Next]_vars
             PROVE  SessionInv'
  OBVIOUS
<1>0. SessionInv
  BY DEF MqttInv
<1>1. \A packet, other : <<packet>> = <<other>> => packet = other
  OBVIOUS
<1>2. \A packet : <<packet>> # <<>>
  OBVIOUS
<1>3. up \in [Update -> Seq(Request)] /\ serving \in Update \cup {None}
  BY DEF MqttInv, TypeOK
<1>4. CASE Call
  BY <1>0, <1>4 DEF Call, SessionInv, Accepted, Delivered, BeforeIsAll, brokerVars
<1>5. CASE ConfigUp \/ Connected \/ ConnectFails \/ TlsFails \/ PauseOver \/ PollFails
  BY <1>0, <1>5
  DEF ConfigUp, Connected, ConnectFails, TlsFails, PauseOver, PollFails, Quietly, Goto,
      SessionInv, Accepted, Delivered, BeforeIsAll, brokerVars
<1>6. CASE TlsOpen
  <2>1. up'[call] = <<"CONNECT">> /\ \A c \in Update : c # call => up'[c] = up[c]
    BY <1>3, <1>6, TlsOpenEffect
  <2>2. UNCHANGED <<call, brokerVars>>
    BY <1>6 DEF TlsOpen, Goto
  <2>3. UNCHANGED <<serving, unreleased, onPublish, Accepted(serving), BeforeIsAll(serving)>>
    BY <2>2 DEF brokerVars, Accepted, Delivered, BeforeIsAll
  <2>4. CASE serving = call
    BY <1>0, <1>1, <1>2, <1>6, <2>1, <2>2, <2>3, <2>4, TlsOpenEffect DEF SessionInv
  <2>5. CASE serving # call
    BY <1>0, <1>3, <2>1, <2>2, <2>3, <2>5 DEF SessionInv
  <2> QED
    BY <2>4, <2>5
<1>7. CASE Publish
  <2>1. up'[call] = <<"PUBLISH">> /\ \A c \in Update : c # call => up'[c] = up[c]
    BY <1>3, <1>7, PublishEffect
  <2>2. UNCHANGED <<call, brokerVars>>
    BY <1>7 DEF Publish, Goto
  <2>3. UNCHANGED <<serving, unreleased, onPublish, Accepted(serving), BeforeIsAll(serving)>>
    BY <2>2 DEF brokerVars, Accepted, Delivered, BeforeIsAll
  <2>4. CASE serving = call
    BY <1>0, <1>1, <1>2, <1>7, <2>1, <2>2, <2>3, <2>4, PublishEffect DEF SessionInv
  <2>5. CASE serving # call
    BY <1>0, <1>3, <2>1, <2>2, <2>3, <2>5 DEF SessionInv
  <2> QED
    BY <2>4, <2>5
<1>8. CASE Release
  <2>1. up'[call] = <<"PUBREL">> /\ \A c \in Update : c # call => up'[c] = up[c]
    BY <1>3, <1>8, ReleaseEffect
  <2>2. UNCHANGED <<call, brokerVars>>
    BY <1>8 DEF Release, Goto
  <2>3. UNCHANGED <<serving, unreleased, onPublish, Accepted(serving), BeforeIsAll(serving)>>
    BY <2>2 DEF brokerVars, Accepted, Delivered, BeforeIsAll
  <2>4. CASE serving = call
    BY <1>0, <1>1, <1>2, <1>8, <2>1, <2>2, <2>3, <2>4, ReleaseEffect DEF SessionInv
  <2>5. CASE serving # call
    BY <1>0, <1>3, <2>1, <2>2, <2>3, <2>5 DEF SessionInv
  <2> QED
    BY <2>4, <2>5
<1>9. CASE Complete
  <2>1. up'[call] = <<"DISCONNECT">> /\ \A c \in Update : c # call => up'[c] = up[c]
    BY <1>3, <1>9, CompleteEffect
  <2>2. UNCHANGED <<call, brokerVars>>
    BY <1>9 DEF Complete, Goto
  <2>3. UNCHANGED <<serving, unreleased, onPublish, Accepted(serving), BeforeIsAll(serving)>>
    BY <2>2 DEF brokerVars, Accepted, Delivered, BeforeIsAll
  <2>4. CASE serving = call
    BY <1>0, <1>1, <1>2, <1>9, <2>1, <2>2, <2>3, <2>4, CompleteEffect DEF SessionInv
  <2>5. CASE serving # call
    BY <1>0, <1>3, <2>1, <2>2, <2>3, <2>5 DEF SessionInv
  <2> QED
    BY <2>4, <2>5
<1>10. CASE Panics
  BY <1>0, <1>10, PanicsEffect DEF SessionInv, Accepted, Delivered, BeforeIsAll, brokerVars
<1>11. CASE Restart
  BY <1>0, <1>11 DEF Restart, SessionInv, Accepted, Delivered, BeforeIsAll, brokerVars
<1>12. ASSUME NEW c \in Update, OnConnect(c)
       PROVE  SessionInv'
  <2>1. UNCHANGED <<pc, call>>
    BY <1>12 DEF OnConnect, clientVars
  <2>2. c # None
    BY DEF Update, None
  <2>3. serving' = c /\ unreleased' = None /\ up'[c] = <<>>
    BY <1>12, OnConnectEffect
  <2>4. ~(c = call /\ pc = "polling")
    BY <1>1, <1>2, <1>12, OnConnectEffect DEF MqttInv, CallInv
  <2> QED
    BY <1>2, <2>1, <2>2, <2>3, <2>4 DEF SessionInv
<1>13. ASSUME NEW c \in Update, OnPublish(c)
       PROVE  SessionInv'
  <2>1. UNCHANGED <<pc, call, serving, onPublish>>
    BY <1>13 DEF OnPublish, clientVars
  <2>2. c # None
    BY DEF Update, None
  <2>3. serving = c /\ unreleased' = c /\ up'[c] = <<>>
    BY <1>3, <1>13, OnPublishEffect
  <2>4. ~(c = call /\ pc = "connacking")
    BY <1>1, <1>2, <1>13, OnPublishEffect DEF MqttInv, CallInv
  <2>5. ~onPublish => BeforeIsAll(c)'
    BY <1>13, OnPublishEffect DEF BeforeIsAll
  <2>6. onPublish => Delivered(c)'
    BY <1>13, OnPublishEffect, PassedOn DEF MqttInv, TypeOK
  <2>7. c = call => Accepted(call)'
    BY <2>1, <2>3, <2>6 DEF Accepted, Delivered
  <2>8. ~onPublish /\ unreleased' = serving' => BeforeIsAll(serving)'
    BY <2>1, <2>3, <2>5 DEF BeforeIsAll
  <2> QED
    BY <1>2, <2>1, <2>2, <2>3, <2>4, <2>7, <2>8 DEF SessionInv
<1>14. ASSUME NEW c \in Update, OnPubrel(c)
       PROVE  SessionInv'
  <2>1. UNCHANGED <<pc, call, serving>>
    BY <1>14 DEF OnPubrel, clientVars
  <2>2. c # None
    BY DEF Update, None
  <2>3. serving = c /\ unreleased' = None /\ up'[c] = <<>>
    BY <1>3, <1>14, OnPubrelEffect
  <2>4. ~(c = call /\ pc = "polling" /\ down' = <<"PUBREC">>)
    BY <1>1, <1>14, OnPubrelEffect
  <2> QED
    BY <1>2, <2>1, <2>2, <2>3, <2>4 DEF SessionInv
<1>15. CASE Disconnected
  BY <1>15 DEF Disconnected, SessionInv
<1>16. CASE Rejected
  BY <1>0, <1>16, RejectedEffect DEF SessionInv, Accepted, Delivered, BeforeIsAll, brokerVars
<1>17. ASSUME NEW c \in Update, OnPublishRefused(c)
       PROVE  SessionInv'
  <2>1. UNCHANGED <<pc, call, brokerVars>>
    BY <1>17, OnPublishRefusedEffect DEF clientVars
  <2>2. up'[c] = <<>> /\ \A d \in Update : d # c => up'[d] = up[d]
    BY <1>3, <1>17, OnPublishRefusedEffect
  <2>3. /\ down' = <<"CONNACK">> => down = <<"CONNACK">>
        /\ down' = <<"PUBREC">> => down = <<"PUBREC">>
    BY <1>1, <1>17, OnPublishRefusedEffect
  <2>4. UNCHANGED <<serving, unreleased, onPublish, Accepted(serving), BeforeIsAll(serving),
                    Accepted(call)>>
    BY <2>1 DEF brokerVars, Accepted, Delivered, BeforeIsAll
  <2> QED
    BY <1>0, <1>2, <1>3, <2>1, <2>2, <2>3, <2>4 DEF SessionInv
<1>18. CASE UNCHANGED vars
  BY <1>0, <1>18 DEF vars, clientVars, brokerVars, SessionInv, Accepted, Delivered, BeforeIsAll
<1> QED
  BY <1>4, <1>5, <1>6, <1>7, <1>8, <1>9, <1>10, <1>11, <1>12, <1>13, <1>14, <1>15, <1>16,
     <1>17, <1>18
  DEF Next, ClientNext, BrokerNext

(* What the call hears of.                                                   *)
LEMMA NextAck == MqttInv /\ [Next]_vars => AckInv'
<1> SUFFICES ASSUME MqttInv, [Next]_vars
             PROVE  AckInv'
  OBVIOUS
<1>0. AckInv
  BY DEF MqttInv
<1>1. \A packet, other : <<packet>> = <<other>> => packet = other
  OBVIOUS
<1>2. \A packet : <<packet>> # <<>>
  OBVIOUS
<1>4. CASE Call \/ ConfigUp \/ Connected \/ ConnectFails \/ TlsFails \/ PauseOver \/ PollFails \/ Restart
  BY <1>0, <1>4
  DEF Call, ConfigUp, Connected, ConnectFails, TlsFails, PauseOver, PollFails, Restart,
      Quietly, Goto, AckInv
<1>5. CASE TlsOpen \/ Publish \/ Release \/ Rejected \/ Complete \/ Panics
  BY <1>2, <1>5, TlsOpenEffect, PublishEffect, ReleaseEffect, RejectedEffect, CompleteEffect,
     PanicsEffect
  DEF AckInv
<1>6. ASSUME NEW c \in Update, OnConnect(c)
      PROVE  AckInv'
  BY <1>0, <1>1, <1>6, OnConnectEffect DEF OnConnect, AckInv, Delivered, clientVars
<1>7. ASSUME NEW c \in Update, OnPublish(c)
      PROVE  AckInv'
  <2>1. UNCHANGED <<pc, call>>
    BY <1>7 DEF OnPublish, clientVars
  <2>2. CASE c = call /\ pc = "polling"
    BY <1>1, <1>7, <2>1, <2>2, OnPublishEffect DEF AckInv
  <2>3. CASE ~(c = call /\ pc = "polling")
    <3>1. Delivered(call) => \E d : d = call /\ Delivered(d)'
      BY <1>7, OnPublishEffect, PassedOn DEF Delivered, MqttInv, TypeOK
    <3> QED
      BY <1>0, <1>7, <2>1, <2>3, <3>1, OnPublishEffect DEF AckInv, Delivered
  <2> QED
    BY <2>2, <2>3
<1>8. ASSUME NEW c \in Update, OnPubrel(c)
      PROVE  AckInv'
  <2>1. UNCHANGED <<pc, call>>
    BY <1>8 DEF OnPubrel, clientVars
  <2>2. CASE c = call
    BY <1>8, <2>1, <2>2, OnPubrelEffect DEF AckInv, Delivered
  <2>3. CASE c # call
    <3>1. Delivered(call) => \E d : d = call /\ Delivered(d)'
      BY <1>8, OnPubrelEffect, PassedOn DEF Delivered, MqttInv, TypeOK
    <3> QED
      BY <1>0, <1>8, <2>1, <2>3, <3>1, OnPubrelEffect DEF AckInv, Delivered
  <2> QED
    BY <2>2, <2>3
<1>9. ASSUME NEW c \in Update, OnPublishRefused(c)
      PROVE  AckInv'
  BY <1>0, <1>1, <1>9, OnPublishRefusedEffect DEF AckInv, Delivered, clientVars, brokerVars
<1>10. CASE Disconnected \/ UNCHANGED vars
  BY <1>0, <1>10 DEF Disconnected, AckInv, Delivered, vars, clientVars, brokerVars
<1> QED
  BY <1>4, <1>5, <1>6, <1>7, <1>8, <1>9, <1>10 DEF Next, ClientNext, BrokerNext

(***************************************************************************)
(* The invariant holds for any number of calls and restarts.  An answer     *)
(* read while a call polls is the answer to that call's own packet, and the *)
(* session an old call left behind is gone before the new one publishes,    *)
(* because of the clean start: their packet identifiers are the same.       *)
(***************************************************************************)
THEOREM MqttInvariant == Spec => []MqttInv
<1>1. MqttInv /\ [Next]_vars => MqttInv'
  BY NextTypeOK, NextCall, NextSession, NextAck DEF MqttInv
<1> QED
  BY <1>1, InitMqtt, PTL DEF Spec

(* The types, and that one answer at most waits for the call.                *)
THEOREM MqttTypeCorrect == Spec => []TypeOK
<1>1. MqttInv => TypeOK
  BY DEF MqttInv
<1> QED
  BY <1>1, MqttInvariant, PTL

-----------------------------------------------------------------------------
(* The promise.                                                              *)
LEMMA InitPromise == Init => Promise!Init
BY DEF Init, Promise!Init

(* What comes after all that was passed on may be passed on.                 *)
LEMMA MayBePassedOn ==
    ASSUME MqttInv, NEW c \in Update, c <= call, BeforeIsAll(c),
           delivered' = Append(delivered, c), UNCHANGED <<call, completed>>
    PROVE  Promise!Next
<1>1. delivered = <<>> \/ Len(delivered) \in 1 .. Len(delivered)
  BY EmptySeq, LenProperties DEF MqttInv, TypeOK
<1>2. delivered = <<>> \/ Promise!Last(delivered) < c
  BY <1>1 DEF BeforeIsAll, Promise!Last
<1>3. Promise!Deliver(c)
  BY <1>2 DEF Promise!Deliver
<1> QED
  BY <1>3 DEF Promise!Next

(* A call that reads PUBCOMP has been passed on.                             *)
LEMMA MayBeConfirmed ==
    ASSUME MqttInv, pc = "polling", down = <<"PUBCOMP">>,
           completed' = completed \cup {call}, UNCHANGED <<call, delivered>>
    PROVE  Promise!Next
<1>1. Delivered(call) /\ call \in Update
  BY DEF MqttInv, AckInv, CallInv
<1>2. Promise!Contains(delivered, call)
  BY <1>1 DEF Delivered, Promise!Contains
<1>3. Promise!Confirm(call)
  BY <1>2 DEF Promise!Confirm
<1> QED
  BY <1>1, <1>3 DEF Promise!Next

(* Every step is one of OrderedDelivery, or a stutter.                       *)
LEMMA NextPromise ==
    MqttInv /\ [Next]_vars => [Promise!Next]_<<call, delivered, completed>>
<1> SUFFICES ASSUME MqttInv, [Next]_vars
             PROVE  Promise!Next \/ UNCHANGED <<call, delivered, completed>>
  OBVIOUS
<1>1. CASE Call
  <2>1. call + 1 \in Update
    BY <1>1, MqttAssumption DEF Call, MqttInv, TypeOK, Update
  <2>2. Promise!Send
    BY <1>1, <2>1 DEF Call, brokerVars, Promise!Send
  <2> QED
    BY <2>2 DEF Promise!Next
<1>2. CASE \/ ConfigUp \/ Connected \/ ConnectFails \/ TlsFails \/ PauseOver \/ PollFails
           \/ TlsOpen \/ Publish \/ Release \/ Rejected \/ Restart
  BY <1>2
  DEF ConfigUp, Connected, ConnectFails, TlsFails, PauseOver, PollFails, TlsOpen, Publish,
      Release, Rejected, Restart, Quietly, Goto, brokerVars
<1>3. CASE Complete
  BY <1>3, CompleteEffect, MayBeConfirmed DEF Complete, Goto, brokerVars
<1>4. CASE Panics
  BY <1>4, PanicsEffect, MayBeConfirmed DEF brokerVars
<1>5. ASSUME NEW c \in Update, OnConnect(c)
      PROVE  UNCHANGED <<call, delivered, completed>>
  BY <1>5 DEF OnConnect, clientVars
<1>6. ASSUME NEW c \in Update, OnPublish(c)
      PROVE  Promise!Next \/ UNCHANGED <<call, delivered, completed>>
  <2>1. UNCHANGED <<call, completed>>
    BY <1>6 DEF OnPublish, clientVars
  <2> QED
    BY <1>6, <2>1, OnPublishEffect, MayBePassedOn
<1>7. ASSUME NEW c \in Update, OnPubrel(c)
      PROVE  Promise!Next \/ UNCHANGED <<call, delivered, completed>>
  <2>1. UNCHANGED <<call, completed>>
    BY <1>7 DEF OnPubrel, clientVars
  <2> QED
    BY <1>7, <2>1, OnPubrelEffect, MayBePassedOn
<1>8. ASSUME NEW c \in Update, OnPublishRefused(c)
      PROVE  UNCHANGED <<call, delivered, completed>>
  BY <1>8 DEF OnPublishRefused, clientVars
<1>9. CASE Disconnected \/ UNCHANGED vars
  BY <1>9 DEF Disconnected, vars, clientVars, brokerVars
<1> QED
  BY <1>1, <1>2, <1>3, <1>4, <1>5, <1>6, <1>7, <1>8, <1>9 DEF Next, ClientNext, BrokerNext

(***************************************************************************)
(* Publishing over MQTT implements its promise: whatever calls are given    *)
(* up, and however late their packets arrive, updates are passed on in      *)
(* their order, each once at most, and PublishComplete is polled only for   *)
(* an update the broker has passed on.                                      *)
(***************************************************************************)
THEOREM ImplementsDeliveryCorrect == Spec => ImplementsDelivery
BY InitPromise, NextPromise, MqttInvariant, PTL DEF Spec, ImplementsDelivery, Promise!Spec
=============================================================================
