----------------------------- MODULE CliSession -----------------------------
(***************************************************************************)
(* The sessions of cvd-cli that follow a job, as clients of EventStream.   *)
(*                                                                         *)
(* `create` submits a job and watches it; `watch` looks at a job and       *)
(* watches it unless it is over.  Both then read events until the stream   *)
(* ends, the user leaves, or the stream is cut, and ask the master for     *)
(* the verdict.  Ctrl+C opens a prompt during which nothing is read: the   *)
(* user detaches, cancels the job, or presses Ctrl+C again.  A session     *)
(* that was cut off from a live job polls a few times and gives up.        *)
(***************************************************************************)
EXTENDS EventStream

CONSTANTS
  Creators, (* the sessions that run `create`; the others run `watch`      *)
  MaxPolls  (* the polls after the first query, 10 in the code             *)

ASSUME SessionAssumption == Creators \subseteq Watchers /\ MaxPolls \in Nat

VARIABLES
  step,     \* where the session is
  target,   \* its job
  polls,    \* the polls made after the first query
  outcome,  \* how it ended
  cut       \* history: the sessions that lost their stream or a call

sessionVars == <<step, target, polls, outcome, cut>>
allVars     == <<vars, sessionVars>>

Steps    == {"start", "named", "watching", "prompt", "query", "polling", "done"}
Outcomes == {"none", "report", "detached", "killed", "error"}

SessionTypeOK ==
  /\ TypeOK
  /\ step \in [Watchers -> Steps]
  /\ target \in [Watchers -> Jobs \cup {None}]
  /\ polls \in [Watchers -> 0..MaxPolls]
  /\ outcome \in [Watchers -> Outcomes]
  /\ cut \subseteq Watchers

SessionInit ==
  /\ Init
  /\ step    = [w \in Watchers |-> "start"]
  /\ target  = [w \in Watchers |-> None]
  /\ polls   = [w \in Watchers |-> 0]
  /\ outcome = [w \in Watchers |-> "none"]
  /\ cut     = {}

-----------------------------------------------------------------------------
(* Steps of a session.                                                     *)

Goes(w, s)   == step' = [step EXCEPT ![w] = s] /\ UNCHANGED outcome
Ends(w, how) == /\ step' = [step EXCEPT ![w] = "done"]
                /\ outcome' = [outcome EXCEPT ![w] = how]

(* The answer of QueryJob is terminal.                                     *)
QueryIsTerminal(w) == phase[target[w]] = "over"

(* `create`: the job is created, and its id kept.                          *)
Create(w, j) ==
  /\ step[w] = "start" /\ w \in Creators
  /\ CreateJob(j)
  /\ Goes(w, "named") /\ target' = [target EXCEPT ![w] = j]
  /\ UNCHANGED <<polls, cut>>

(* `watch`: a job that is over is reported at once.  A first query that    *)
(* fails, for whatever reason, is ignored.                                 *)
Look(w, j) ==
  /\ step[w] = "start" /\ w \notin Creators
  /\ target' = [target EXCEPT ![w] = j]
  /\ \/ phase[j] = "over" /\ JobsLockFree /\ Ends(w, "report")
     \/ Goes(w, "named")
  /\ UNCHANGED <<vars, polls, cut>>

(* A call that fails ends the session, wherever the error comes from: the  *)
(* spec is refused, the job is not found, the master is not reached.       *)
CallFails(w) ==
  /\ \/ step[w] = "start" /\ w \in Creators
     \/ step[w] \in {"named", "query", "polling"}
  /\ Ends(w, "error") /\ cut' = cut \cup {w}
  /\ UNCHANGED <<vars, target, polls>>

Subscribe(w) ==
  /\ step[w] = "named"
  /\ WatchJob(w, target[w])
  /\ Goes(w, "watching")
  /\ UNCHANGED <<target, polls, cut>>

(* Mutant: the loop goes on after the status that ends the stream.         *)
ReadItemOn(w) ==
  /\ step[w] = "watching"
  /\ Receive(w)
  /\ UNCHANGED sessionVars

(* An event is shown; the status that ends the stream of an evicted        *)
(* watcher is kept for the error text, and the loop is left.               *)
ReadItem(w) ==
  /\ step[w] = "watching"
  /\ Receive(w)
  /\ Goes(w, IF Head(buffer[w]) = Overflow THEN "query" ELSE "watching")
  /\ UNCHANGED <<target, polls, cut>>

EndOfStream(w) ==
  /\ step[w] = "watching"
  /\ StreamEnds(w)
  /\ Goes(w, "query")
  /\ UNCHANGED <<target, polls, cut>>

(* The connection breaks under the stream.                                 *)
StreamBreaks(w) ==
  /\ step[w] = "watching"
  /\ Leave(w)
  /\ Goes(w, "query") /\ cut' = cut \cup {w}
  /\ UNCHANGED <<target, polls>>

(* The first Ctrl+C.  While the prompt is open the stream is not read.     *)
CtrlC(w) ==
  /\ step[w] = "watching"
  /\ Goes(w, "prompt")
  /\ UNCHANGED <<vars, target, polls, cut>>

(* The user detaches, or presses Ctrl+C a second time.                     *)
Detach(w) ==
  /\ step[w] = "prompt"
  /\ stream[w] \in {"open", "shut"}
  /\ Leave(w)
  /\ Ends(w, "detached") \/ Ends(w, "killed")
  /\ UNCHANGED <<target, polls, cut>>

(* The user cancels, or there is nobody to ask.  DeleteJob leaves a job    *)
(* that is over alone, and its errors are only shown.                      *)
CancelJob(w) ==
  /\ step[w] = "prompt"
  /\ EndJob(target[w]) \/ UNCHANGED vars
  /\ Goes(w, "watching")
  /\ UNCHANGED <<target, polls, cut>>

(* Mutant: the query after the stream is taken for the verdict.            *)
QueryUnchecked(w) ==
  /\ step[w] = "query" /\ JobsLockFree
  /\ Ends(w, "report")
  /\ UNCHANGED <<vars, target, polls, cut>>

(* The query after the stream: a job that is over is reported.  A job that *)
(* was collected is not found.                                             *)
Query(w) ==
  /\ step[w] = "query" /\ JobsLockFree
  /\ IF QueryIsTerminal(w) THEN Ends(w, "report")
     ELSE IF phase[target[w]] = "live" THEN Goes(w, "polling")
     ELSE Ends(w, "error")
  /\ UNCHANGED <<vars, target, polls, cut>>

(* One of the polls of ensure_terminal_after_stream.                       *)
Poll(w) ==
  /\ step[w] = "polling" /\ polls[w] < MaxPolls /\ JobsLockFree
  /\ polls' = [polls EXCEPT ![w] = @ + 1]
  /\ IF QueryIsTerminal(w) THEN Ends(w, "report")
     ELSE IF phase[target[w]] = "live" THEN Goes(w, "polling")
     ELSE Ends(w, "error")
  /\ UNCHANGED <<vars, target, cut>>

(* The stream ended before the job did, as far as this session knows.      *)
GiveUpPolling(w) ==
  /\ step[w] = "polling" /\ polls[w] = MaxPolls
  /\ Ends(w, "error")
  /\ UNCHANGED <<vars, target, polls, cut>>

Session(w) ==
  \/ \E j \in Jobs : Create(w, j) \/ Look(w, j)
  \/ CallFails(w) \/ Subscribe(w) \/ ReadItem(w)
  \/ EndOfStream(w) \/ StreamBreaks(w)
  \/ CtrlC(w) \/ Detach(w) \/ CancelJob(w) \/ Query(w) \/ Poll(w) \/ GiveUpPolling(w)

(* What the master does for other clients, and on its own.                 *)
Master ==
  /\ \/ \E j \in Jobs : Handler(j)
     \/ \E w \in Watchers : Offer(w) \/ Evict(w)
     \/ BroadcastBegins \/ HandlerUnlocks
  /\ UNCHANGED sessionVars

SessionNext == Master \/ \E w \in Watchers : Session(w)

SessionSpec == SessionInit /\ [][SessionNext]_allVars

-----------------------------------------------------------------------------
(* Properties.                                                             *)

(* What a session reads is the history of the job from the snapshot on.    *)
HistoryFaithful == SessionTypeOK /\ StreamFaithful

(* A report is about a job that is over: a stream that was cut, evicted or *)
(* not read while the prompt was open is never taken for the end of the    *)
(* job.                                                                    *)
ReportIsFinal ==
  \A w \in Watchers : outcome[w] = "report" => phase[target[w]] \in {"over", "gone"}

(* A stream that ends for a session by itself ends because the job is      *)
(* over: the master closes nothing else, and says the last word first.     *)
(* So a session fails only if it was evicted or cut off, or if the job was *)
(* collected before it could ask.                                          *)
EndMeansOver ==
  \A w \in Watchers :
    /\ step[w] = "query" /\ w \notin evicted \cup cut =>
         phase[target[w]] \in {"over", "gone"}
    /\ outcome[w] = "error" =>
         w \in evicted \cup cut \/ phase[target[w]] = "gone"

-----------------------------------------------------------------------------
(* Liveness: the master's part is fair, the session reads and asks, and    *)
(* the user answers the prompt.  The select is biased towards Ctrl+C, so   *)
(* that the session is read only if the user does not press it again       *)
(* before every event: strong fairness.                                    *)

SessionFairness ==
  /\ \A w \in Watchers :
       /\ WF_allVars((Offer(w) \/ Evict(w)) /\ UNCHANGED sessionVars)
       /\ SF_allVars(ReadItem(w) \/ EndOfStream(w))
       /\ WF_allVars(Detach(w) \/ CancelJob(w))
       /\ WF_allVars(Query(w)) /\ WF_allVars(Poll(w)) /\ WF_allVars(GiveUpPolling(w))
  /\ WF_allVars(BroadcastBegins /\ UNCHANGED sessionVars)
  /\ WF_allVars(HandlerUnlocks /\ UNCHANGED sessionVars)
  /\ \A j \in Jobs : WF_allVars(Terminate(j) /\ UNCHANGED sessionVars)

FairSessionSpec == SessionSpec /\ SessionFairness

(* A session ends when its job does: it was told the verdict, sees the     *)
(* stream end after an eviction or a cut, or gives up polling.             *)
SessionsEnd ==
  \A w \in Watchers :
    (step[w] \in {"watching", "prompt", "query", "polling"}
       /\ phase[target[w]] \in {"over", "gone"}) ~> step[w] = "done"
=============================================================================
