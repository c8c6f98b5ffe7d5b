------------------------------ MODULE HttpPost ------------------------------
(***************************************************************************)
(* One POST after the other to an HTTP server, each over a connection of    *)
(* its own: send_kuzzle_post_request in gateway/src/http.rs.  The all-in-   *)
(* one scanner has the same function again.                                 *)
(*                                                                         *)
(* The client never gives up by itself: an error comes from the network or  *)
(* the other side.  So a request the server gets, it gets before the call   *)
(* returns.  What it makes of it is its own affair: the status is logged.   *)
(***************************************************************************)
EXTENDS Integers, Sequences

VARIABLES
    http,           \* the await the call is suspended at, or how it ended
    item,           \* history: the number of what is being posted
    body,           \* what is being posted
    arrived,        \* history: items the server got, in order
    confirmed       \* history: items it answered to, with whatever status

httpVars == <<http, item, body, arrived, confirmed>>

Nobody == <<>>

HttpInit ==
    /\ http = "idle"
    /\ item = 0
    /\ body = Nobody
    /\ arrived = <<>>
    /\ confirmed = {}

Post(number, content) ==
    /\ http = "idle"
    /\ http' = "connecting"
    /\ item' = number
    /\ body' = content
    /\ UNCHANGED <<arrived, confirmed>>

(* client.request(): name, connection, and TLS if the URL asks for it.       *)
Requested ==
    /\ http = "connecting"
    /\ http' \in {"sending", "error"}
    /\ UNCHANGED <<item, body, arrived, confirmed>>

(* handle.send(): the request arrives as a whole or not at all ...           *)
RequestArrives ==
    /\ http = "sending"
    /\ http' = "responding"
    /\ arrived' = Append(arrived, item)
    /\ UNCHANGED <<item, body, confirmed>>

RequestLost ==
    /\ http = "sending"
    /\ http' = "error"
    /\ UNCHANGED <<item, body, arrived, confirmed>>

(* ... and the head of the response as well.                                 *)
Response ==
    /\ http = "responding"
    /\ http' = "reading"
    /\ confirmed' = confirmed \cup {item}
    /\ UNCHANGED <<item, body, arrived>>

ResponseLost ==
    /\ http = "responding"
    /\ http' = "error"
    /\ UNCHANGED <<item, body, arrived, confirmed>>

(* read_to_end(): only logged, an error of it as well.                       *)
BodyRead ==
    /\ http = "reading"
    /\ http' = "ok"
    /\ UNCHANGED <<item, body, arrived, confirmed>>

HttpNext ==
    \/ Requested
    \/ RequestArrives \/ RequestLost
    \/ Response \/ ResponseLost
    \/ BodyRead

(* The call is over, and an error is logged.                                 *)
Returned ==
    /\ http \in {"ok", "error"}
    /\ http' = "idle"
    /\ item' = 0
    /\ body' = Nobody
    /\ UNCHANGED <<arrived, confirmed>>

(* The server has what is being posted.                                      *)
ServerHasBody == http \in {"responding", "reading", "ok"}

HttpState == {"idle", "connecting", "sending", "responding", "reading", "ok", "error"}
=============================================================================
