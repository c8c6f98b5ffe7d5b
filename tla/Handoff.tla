------------------------------- MODULE Handoff -------------------------------
(***************************************************************************)
(* What the UART link promises: the gateway asks, and is given the table as *)
(* it stood at some moment between its asking and its being given it.  Only *)
(* a link that was damaged may give it something that was never sent.       *)
(***************************************************************************)
EXTENDS Integers

CONSTANT Version        \* states of the table, in the order it goes through them

VARIABLES
    table,              \* the version the table is at
    asked,              \* the version it was at when the gateway asked, or Nothing
    given,              \* what the gateway was given last, or Nothing
    damaged             \* something was lost on the way, or cut short

Nothing == -1
Garbage == -3

Init ==
    /\ table = 0
    /\ asked = Nothing
    /\ given = Nothing
    /\ damaged = FALSE

Change ==
    /\ table + 1 \in Version
    /\ table' = table + 1
    /\ UNCHANGED <<asked, given, damaged>>

Ask ==
    /\ asked = Nothing
    /\ asked' = table
    /\ UNCHANGED <<table, given, damaged>>

Give ==
    /\ asked # Nothing
    /\ \/ given' \in asked .. table
       \/ damaged /\ given' = Garbage
    /\ asked' = Nothing
    /\ UNCHANGED <<table, damaged>>

(* The network core starts over, or bytes are lost.                          *)
Damage ==
    /\ damaged' = TRUE
    /\ table' \in Version \cap {table, table + 1}
    /\ UNCHANGED <<asked, given>>

(* The gateway starts over.                                                  *)
Forget ==
    /\ asked' = Nothing
    /\ given' = Nothing
    /\ UNCHANGED <<table, damaged>>

Next == Change \/ Ask \/ Give \/ Damage \/ Forget

Spec == Init /\ [][Next]_<<table, asked, given, damaged>>
=============================================================================
