--------------------------- MODULE MCEinkDisplay ----------------------------
(***************************************************************************)
(* Instances of EinkDisplay.  The threads have the priorities Zephyr gives *)
(* them: main 0, the display work queue 5 (EINK_DISP_PRIORITY), the HTTP   *)
(* work queue 6 (EINK_HTTP_PRIORITY), the shell 14.                        *)
(***************************************************************************)
EXTENDS EinkDisplay

PrioOf == [main |-> 0, http |-> 6, shell |-> 14]
MCPrio == [c \in Callers |-> PrioOf[c]]

\* Only the simulator's boot and the wake machine paint from main; sync runs on
\* the HTTP queue; the shell shows, clears and ticks.  show_payload is part of the
\* API although no thread of the tree calls it: as a shell command it does not wait.
Job == {"show_job"}
Shell == {"show", "clear"}
Who(main, http, shell) ==
    [c \in Callers |-> CASE c = "main" -> main [] c = "http" -> http [] OTHER -> shell]

\* A build that waits, with a panel within the two minutes; the same with a slow panel
\* and a shell that only queues; the duty-cycled build, where nobody waits.
TwoWaiters == [fire |-> FALSE, slow |-> FALSE, ops |-> Who({}, Job, Kinds)]
SlowPanel == [fire |-> FALSE, slow |-> TRUE, ops |-> Who({}, Job, Shell \union {"payload"})]
Duty == [fire |-> TRUE, slow |-> FALSE, ops |-> Who(Job, Job, Job \union Shell)]
PassBuilds == {TwoWaiters, SlowPanel, Duty}
=============================================================================
