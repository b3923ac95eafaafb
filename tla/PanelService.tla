---------------------------- MODULE PanelService ----------------------------
(***************************************************************************)
(* What the e-ink display service promises its callers, without threads,   *)
(* semaphores or a work queue: it accepts a command only when nothing is   *)
(* outstanding, and it completes every accepted command exactly once, with *)
(* a result.  EinkDisplay (eink_display.c) is shown to implement it.       *)
(***************************************************************************)

CONSTANTS Commands,  \* every command a caller may hand to the service
          Results,   \* what a refresh may return
          None       \* "no command outstanding"

VARIABLES outstanding,  \* the accepted command that has not completed, or None
          result        \* the result of the last completed command

vars == <<outstanding, result>>

TypeOK == /\ outstanding \in Commands \union {None}
          /\ result \in Results

Init == /\ outstanding = None
        /\ result \in Results

Accept(cmd) == /\ outstanding = None
               /\ outstanding' = cmd
               /\ UNCHANGED result

Complete(r) == /\ outstanding # None
               /\ outstanding' = None
               /\ result' = r

Next == \/ \E cmd \in Commands : Accept(cmd)
        \/ \E r \in Results : Complete(r)

Spec == Init /\ [][Next]_vars /\ WF_vars(\E r \in Results : Complete(r))
=============================================================================
