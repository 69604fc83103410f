---------------------------- MODULE MCCliSession ----------------------------
(* Small instances of CliSession for TLC.                                  *)
EXTENDS CliSession

CONSTANTS j1, w1, w2

OneJob      == {j1}
TwoSessions == {w1, w2}
Creator     == {w1}
=============================================================================
