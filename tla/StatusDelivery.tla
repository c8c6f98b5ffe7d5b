--------------------------- MODULE StatusDelivery ---------------------------
(***************************************************************************)
(* What the pull over CoAP promises, whatever the network does: the gateway *)
(* publishes one update after the other and announces each; an announcement *)
(* makes the back end receive at most one update, and never one older than  *)
(* the update that was announced.                                           *)
(***************************************************************************)
EXTENDS Integers

CONSTANT Round          \* the announcements, numbered from 1

VARIABLES
    published,          \* how many updates have been published
    forwarded           \* announcement -> the update it brought, 0 for none

Init ==
    /\ published = 0
    /\ forwarded = [r \in Round |-> 0]

Publish ==
    /\ published + 1 \in Round
    /\ published' = published + 1
    /\ UNCHANGED forwarded

Forward(r) ==
    /\ forwarded[r] = 0
    /\ \E u \in r .. published : forwarded' = [forwarded EXCEPT ![r] = u]
    /\ UNCHANGED published

Next == Publish \/ \E r \in Round : Forward(r)

Spec == Init /\ [][Next]_<<published, forwarded>>
=============================================================================
