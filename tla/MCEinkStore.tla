----------------------------- MODULE MCEinkStore ----------------------------
(* Small instances of EinkStore for TLC. *)
EXTENDS EinkStore

CONSTANTS state, sync_meta, v1, v2, i1, i2

TwoFiles == {state, sync_meta}
OneFile == {state}
TwoValues == {v1, v2}
OneId == {i1}
TwoIds == {i1, i2}
=============================================================================
