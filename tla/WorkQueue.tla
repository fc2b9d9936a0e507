----------------------------- MODULE WorkQueue -----------------------------
(***************************************************************************)
(* What a queue of work promises its callers: an item that was taken in is *)
(* owed until a handler that has that very item in hand gives it up as     *)
(* done.  A handler is only ever handed items that are owed, and the next  *)
(* batch only when the last one is finished.                               *)
(***************************************************************************)
CONSTANT Items

VARIABLES
    owed,      \* the items that must still be handled
    running    \* the items a handler is working on

workVars == <<owed, running>>

Take(i) == owed' = owed \cup {i} /\ UNCHANGED running

Begin(S) ==
    /\ S # {} /\ S \subseteq owed /\ running = {}
    /\ running' = S /\ UNCHANGED owed

\* The handler is done with the item, or gives it back, or both in turn.
End(i) ==
    /\ i \in running
    /\ running' \in {running, running \ {i}}
    /\ owed' \in {owed, owed \ {i}}

WorkInit == owed = {} /\ running = {}

WorkNext == (\E i \in Items : Take(i) \/ End(i)) \/ (\E S \in SUBSET Items : Begin(S))

WorkSpec == WorkInit /\ [][WorkNext]_workVars
=============================================================================
