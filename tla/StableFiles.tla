---------------------------- MODULE StableFiles -----------------------------
(***************************************************************************)
(* What the store promises of a small file (state, schedule, last_sync):   *)
(* a save replaces it by exactly the value that was asked for, or leaves   *)
(* it as it was, whatever fails and whenever the power goes.  EinkStore    *)
(* (eink_store.c) is shown to implement it.                                *)
(***************************************************************************)
CONSTANTS Files,   \* the files
          Values,  \* what may be saved
          None     \* no value

VARIABLES value,   \* value[f]: what a restart would load, None before the first save
          wanted   \* wanted[f]: the value of the save in progress, None when there is none

vars == <<value, wanted>>

TypeOK == /\ value \in [Files -> Values \union {None}]
          /\ wanted \in [Files -> Values \union {None}]

Init == value = [f \in Files |-> None] /\ wanted = [f \in Files |-> None]

Ask(f, v) == /\ wanted[f] = None
             /\ wanted' = [wanted EXCEPT ![f] = v]
             /\ UNCHANGED value

Commit(f) == /\ wanted[f] # None
             /\ value' = [value EXCEPT ![f] = wanted[f]]
             /\ wanted' = [wanted EXCEPT ![f] = None]

\* The save fails.
Abort(f) == /\ wanted' = [wanted EXCEPT ![f] = None]
            /\ UNCHANGED value

\* The power goes: every save in progress is lost.
Restart == /\ wanted' = [f \in Files |-> None]
           /\ UNCHANGED value

Next == \/ \E f \in Files : Commit(f) \/ Abort(f) \/ \E v \in Values : Ask(f, v)
        \/ Restart

Spec == Init /\ [][Next]_vars
=============================================================================
