---------------------------- MODULE MCConfigSync ----------------------------
EXTENDS ConfigSync

\* Mains and duty-cycle boards, v0 with and without the cache, and v2.  The fast path is
\* tried where it makes a difference to the state: before a sleep.
AllBuilds == {b \in Build : /\ b.v2 => ~b.cache
                           /\ b.fast => b.cache /\ b.duty}

\* A mains board that caches, every pass of which asks.
Caches == {b \in Build : b.cache /\ ~b.v2 /\ ~b.duty /\ ~b.fast}

First == CHOOSE s \in Servers : TRUE

\* The first cloud's ETag of a configuration is the others' ETag of another one.
PerCloud ==
    [s \in Servers |-> [b \in Body |->
        IF s = First THEN b
        ELSE [b EXCEPT !.sched = CHOOSE c \in Contents : c # b.sched]]]
=============================================================================
