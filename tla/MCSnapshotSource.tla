-------------------------- MODULE MCSnapshotSource --------------------------
(* Small instances of SnapshotSource: three keys, a few revisions.          *)
EXTENDS SnapshotSource

MCKey == 1..3
WholeAndPrefix == {MCKey, {1, 2}}
=============================================================================
