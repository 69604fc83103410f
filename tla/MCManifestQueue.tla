-------------------------- MODULE MCManifestQueue --------------------------
(* Small instances of ManifestQueue for TLC.                               *)
EXTENDS ManifestQueue

CONSTANTS c1, c2

TwoCallers == {c1, c2}
=============================================================================
