------------------------------ MODULE FileWork ------------------------------
(***************************************************************************)
(* What a worker promises about the files that the master gives it, with   *)
(* no word on its fetchers, buffers, tasks and flags.  The files come in   *)
(* the order of their numbers.  Each waits, is taken in hand by one task   *)
(* and is handled at most once.  A file in hand is dropped only in trouble *)
(* (a failure or a cancellation), and the worker reports a success exactly *)
(* if there was none; then nothing is in hand, and files are left waiting  *)
(* only if the time was up.                                                *)
(***************************************************************************)
EXTENDS Integers

CONSTANT NFiles  (* the files are 1..NFiles                                *)

VARIABLES
  given,    \* how many files have been given
  waiting,  \* those that no task has taken yet
  inHand,   \* those that a task has
  handled,  \* those that were handled
  late,     \* the time is up
  trouble,  \* something failed or the job was cancelled
  verdict   \* "none", or what the worker ended with

vars == <<given, waiting, inHand, handled, late, trouble, verdict>>

Init == /\ given = 0 /\ waiting = {} /\ inHand = {} /\ handled = {}
        /\ late = FALSE /\ trouble = FALSE /\ verdict = "none"

Open == verdict = "none"

Give(n) ==
  /\ Open /\ given + n <= NFiles
  /\ given' = given + n
  /\ waiting' = waiting \cup ((given + 1)..(given + n))
  /\ UNCHANGED <<inHand, handled, late, trouble, verdict>>

Take(f) ==
  /\ Open /\ f \in waiting
  /\ waiting' = waiting \ {f} /\ inHand' = inHand \cup {f}
  /\ UNCHANGED <<given, handled, late, trouble, verdict>>

Handle(f) ==
  /\ Open /\ f \in inHand
  /\ inHand' = inHand \ {f} /\ handled' = handled \cup {f}
  /\ UNCHANGED <<given, waiting, late, trouble, verdict>>

(* Trouble, in which some of the files in hand may be dropped.             *)
Interrupt(F) ==
  /\ Open
  /\ trouble' = TRUE /\ inHand' = inHand \ F
  /\ UNCHANGED <<given, waiting, handled, late, verdict>>

TimeIsUp ==
  /\ Open /\ late' = TRUE
  /\ UNCHANGED <<given, waiting, inHand, handled, trouble, verdict>>

Succeed ==
  /\ Open /\ ~trouble /\ inHand = {} /\ (late \/ waiting = {})
  /\ verdict' = "success"
  /\ UNCHANGED <<given, waiting, inHand, handled, late, trouble>>

GiveUp(v) ==
  /\ Open /\ trouble
  /\ verdict' = v
  /\ UNCHANGED <<given, waiting, inHand, handled, late, trouble>>

(* The worker does not begin.                                              *)
Refuse ==
  /\ Open /\ given = 0
  /\ verdict' = "refused"
  /\ UNCHANGED <<given, waiting, inHand, handled, late, trouble>>

Next == \/ \E n \in 0..NFiles : Give(n)
        \/ \E f \in waiting : Take(f)
        \/ \E f \in inHand : Handle(f)
        \/ \E F \in SUBSET inHand : Interrupt(F)
        \/ TimeIsUp \/ Succeed \/ Refuse
        \/ \E v \in {"failure", "cancelled", "left"} : GiveUp(v)

Spec == Init /\ [][Next]_vars
=============================================================================
