----------------------------- MODULE MCDirScan -----------------------------
(* Small instances of DirScan for TLC: a directory with a subdirectory,    *)
(* beside a second one, or two flat directories.                           *)
EXTENDS DirScan

CONSTANTS a, b, c

TreeDirs     == {a, b, c}
TreeRoots    == <<a, b>>
TreeChildren == [d \in {a, b, c} |-> IF d = a THEN {c} ELSE {}]
TreeFiles    == [d \in {a, b, c} |-> IF d = a THEN 0 ELSE 1]

FlatDirs     == {a, b}
FlatRoots    == <<a, b>>
FlatChildren == [d \in {a, b} |-> {}]
FlatFiles    == [d \in {a, b} |-> 0]
=============================================================================
