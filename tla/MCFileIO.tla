----------------------------- MODULE MCFileIO ------------------------------
(* Small instances of FileIO for TLC.                                      *)
EXTENDS FileIO

Both          == {"check", "verify"}
DirectReads   == {p \in AllProfiles : p.direct}
=============================================================================
