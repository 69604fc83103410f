------------------------------- MODULE JobLog -------------------------------
(***************************************************************************)
(* What watching a job promises, with no word on locks, channels and       *)
(* registries.  A job has a log of numbers that grow, until it is closed.  *)
(* A reader begins at a point of its own behind the log as it stands, and  *)
(* is shown that point and then every later entry, one after the other.    *)
(* It may be cut off at any moment; but if its reading ends otherwise, the *)
(* log is closed and it has been shown all of it.                          *)
(***************************************************************************)
EXTENDS Integers

CONSTANTS
  Jobs,    (* the job ids                                                  *)
  Readers, (* those who watch a job                                        *)
  None     (* no job                                                       *)

VARIABLES
  last,    \* the last number that was given to anything
  log,     \* the numbers of the entries of each job
  closed,  \* the jobs whose log is complete
  state,   \* of each reader: "new", "reading", "ended", "cut"
  job,     \* what it reads
  since,   \* where it began, 0 if it does not read
  shown    \* the numbers it was shown

vars == <<last, log, closed, state, job, since, shown>>

Init ==
  /\ last = 0
  /\ log = [j \in Jobs |-> {}] /\ closed = {}
  /\ state = [r \in Readers |-> "new"] /\ job = [r \in Readers |-> None]
  /\ since = [r \in Readers |-> 0] /\ shown = [r \in Readers |-> {}]

(* An entry is written; it may be the last one.                            *)
Write(j) ==
  /\ j \notin closed
  /\ last' = last + 1
  /\ log' = [log EXCEPT ![j] = @ \cup {last + 1}]
  /\ closed' \in {closed, closed \cup {j}}
  /\ UNCHANGED <<state, job, since, shown>>

Begin(r, j) ==
  /\ state[r] = "new"
  /\ last' = last + 1
  /\ state' = [state EXCEPT ![r] = "reading"] /\ job' = [job EXCEPT ![r] = j]
  /\ since' = [since EXCEPT ![r] = last + 1]
  /\ UNCHANGED <<log, closed, shown>>

After(r) == {n \in log[job[r]] : n > since[r]}

(* The point where it began, or the least entry it has not been shown.     *)
IsNext(r, n) ==
  IF shown[r] = {} THEN n = since[r]
  ELSE /\ n \in After(r) \ shown[r]
       /\ \A m \in After(r) \ shown[r] : n <= m
       /\ \A m \in shown[r] : m < n

Show(r, n) ==
  /\ state[r] = "reading" /\ IsNext(r, n)
  /\ shown' = [shown EXCEPT ![r] = @ \cup {n}]
  /\ UNCHANGED <<last, log, closed, state, job, since>>

Stop(r, how) ==
  /\ state[r] = "reading"
  /\ state' = [state EXCEPT ![r] = how] /\ since' = [since EXCEPT ![r] = 0]
  /\ UNCHANGED <<last, log, closed, job, shown>>

CutOff(r) == Stop(r, "cut")

(* The end of the log.                                                     *)
End(r) == /\ job[r] \in closed /\ since[r] \in shown[r] /\ After(r) \subseteq shown[r]
          /\ Stop(r, "ended")

Next == \/ \E j \in Jobs : Write(j)
        \/ \E r \in Readers : \/ CutOff(r) \/ End(r)
                              \/ \E j \in Jobs : Begin(r, j)
                              \/ \E n \in 1..last : Show(r, n)

Spec == Init /\ [][Next]_vars
=============================================================================
