--------------------------- MODULE OrderedDelivery ---------------------------
(***************************************************************************)
(* What a back end reached over one connection after the other promises:    *)
(* items are numbered in the order they were handed over, and arrive in     *)
(* that order, each once at most; some never do.  What the sender takes as  *)
(* delivered has been.                                                      *)
(***************************************************************************)
EXTENDS Integers, SequencesExt

CONSTANT Item               \* the numbers items may have

VARIABLES
    sent,                   \* how many items were handed over
    delivered,              \* those that arrived, in the order they did
    confirmed               \* those the sender takes as delivered

Init ==
    /\ sent = 0
    /\ delivered = <<>>
    /\ confirmed = {}

Send ==
    /\ sent + 1 \in Item
    /\ sent' = sent + 1
    /\ UNCHANGED <<delivered, confirmed>>

Deliver(item) ==
    /\ item <= sent
    /\ delivered = <<>> \/ Last(delivered) < item
    /\ delivered' = Append(delivered, item)
    /\ UNCHANGED <<sent, confirmed>>

Confirm(item) ==
    /\ Contains(delivered, item)
    /\ confirmed' = confirmed \cup {item}
    /\ UNCHANGED <<sent, delivered>>

Next ==
    \/ Send
    \/ \E item \in Item : Deliver(item) \/ Confirm(item)

Spec == Init /\ [][Next]_<<sent, delivered, confirmed>>
=============================================================================
