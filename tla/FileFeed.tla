------------------------------ MODULE FileFeed ------------------------------
(***************************************************************************)
(* What the manifest of a job promises its workers, with no word on the    *)
(* queue, its slots, locks and flags: the files go out in the order of the *)
(* manifest, each batch to one worker, pass by pass if the job loops, and  *)
(* none is skipped or given twice.  As long as the job lives a worker is   *)
(* told that there is nothing left only when everything has gone out, and  *)
(* once one has been told nobody else is given a file.                     *)
(***************************************************************************)
EXTENDS Integers, Sequences

CONSTANTS
  Workers,  (* the crew                                                    *)
  NFiles,   (* the files of the manifest are 1..NFiles                     *)
  Batch     (* the largest batch                                           *)

VARIABLES
  looped,   \* the manifest is read again and again
  over,     \* the job has come to its end
  given,    \* how many files have gone out
  hands,    \* the batch each worker is being given
  told      \* the workers that were told that nothing is left

vars == <<looped, over, given, hands, told>>

(* The k-th file to go out.                                                *)
File(k) == ((k - 1) % NFiles) + 1

Init == /\ looped \in BOOLEAN /\ over = FALSE
        /\ given = 0 /\ told = {}
        /\ hands = [w \in Workers |-> <<>>]

Give(w, n) ==
  /\ hands[w] = <<>>
  /\ told = {}
  /\ ~looped => given + n <= NFiles
  /\ hands' = [hands EXCEPT ![w] = [i \in 1..n |-> File(given + i)]]
  /\ given' = given + n
  /\ UNCHANGED <<looped, over, told>>

(* The batch has arrived, or it is lost: it is not given to anybody else.  *)
Done(w) ==
  /\ hands' = [hands EXCEPT ![w] = <<>>]
  /\ UNCHANGED <<looped, over, given, told>>

Tell(w) ==
  /\ hands[w] = <<>>
  /\ over \/ (~looped /\ given = NFiles)
  /\ told' = told \cup {w}
  /\ UNCHANGED <<looped, over, given, hands>>

(* The answer is lost, and the worker asks again.                          *)
AskAgain(w) ==
  /\ told' = told \ {w}
  /\ UNCHANGED <<looped, over, given, hands>>

End == over' = TRUE /\ UNCHANGED <<looped, given, hands, told>>

Next == \/ End
        \/ \E w \in Workers : \/ Done(w) \/ Tell(w) \/ AskAgain(w)
                              \/ \E n \in 1..Batch : Give(w, n)

Spec == Init /\ [][Next]_vars
=============================================================================
