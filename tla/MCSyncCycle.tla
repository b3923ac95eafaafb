---------------------------- MODULE MCSyncCycle -----------------------------
(***************************************************************************)
(* Instances of SyncCycle: a day of five ticks, two jobs of which the      *)
(* cloud serves either or both, one of them at midnight.                   *)
(***************************************************************************)
EXTENDS SyncCycle

Entry(j, s) == [id |-> j, slot |-> s]
MCManifests == {<<Entry("a", 0), Entry("b", 3)>>, <<Entry("b", 3), Entry("a", 1)>>}

\* A mains device polls often; a duty-cycled one sleeps longer than a slot lasts.
Mains == [duty |-> FALSE, fast |-> TRUE, v2 |-> FALSE, poll |-> 1]
Duty == [duty |-> TRUE, fast |-> TRUE, v2 |-> TRUE, poll |-> 4]
PassBuilds == {Mains, Duty}
FastDuty == {[Duty EXCEPT !.v2 = FALSE]}
=============================================================================
