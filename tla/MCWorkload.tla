----------------------------- MODULE MCWorkload -----------------------------
(* Small instances of Workload for TLC.                                    *)
EXTENDS Workload

Asks(runners, compare) == [runners |-> runners, compare |-> compare]

\* Reads that are compared, metadata on files of the master, and the two
\* runners without a fetcher side by side.
Mixes == {Asks({"read"}, TRUE), Asks({"stat"}, FALSE), Asks({"metadata", "write"}, FALSE)}
=============================================================================
