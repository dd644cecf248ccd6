---------------------------- MODULE AsyncExecutor ----------------------------
(***************************************************************************)
(* What a thread pool promises its owner: tasks run in the order they were *)
(* submitted, each once, at most Threads at a time, and every one of them  *)
(* runs; waiting and closing end, and not before all submitted tasks have. *)
(* There are no locks, no condition variables and no workers here.         *)
(***************************************************************************)
EXTENDS Integers, FiniteSets

CONSTANTS Threads, MaxTasks

VARIABLES
  submitted,  \* how many tasks were submitted: they are 1..submitted
  running,    \* the tasks that have started and not finished
  finished,   \* the tasks that have finished
  owner       \* what the owner is doing: free, waiting, closing, closed

vars == <<submitted, running, finished, owner>>

AllDone == finished = 1..submitted

Init ==
  /\ submitted = 0
  /\ running = {}
  /\ finished = {}
  /\ owner = "free"

\* By the owner, or by a task that runs: also while the owner waits.
Submit ==
  /\ owner = "free" \/ (owner = "waiting" /\ running # {})
  /\ submitted < MaxTasks
  /\ submitted' = submitted + 1
  /\ UNCHANGED <<running, finished, owner>>

\* The oldest task that has not started.
Start ==
  LET next == Cardinality(running \cup finished) + 1
  IN  /\ next <= submitted
      /\ Cardinality(running) < Threads
      /\ running' = running \cup {next}
      /\ UNCHANGED <<submitted, finished, owner>>

Finish(t) ==
  /\ t \in running
  /\ running' = running \ {t}
  /\ finished' = finished \cup {t}
  /\ UNCHANGED <<submitted, owner>>

Begin(what) ==
  /\ owner = "free"
  /\ owner' = what
  /\ UNCHANGED <<submitted, running, finished>>

End ==
  /\ owner \in {"waiting", "closing"}
  /\ AllDone
  /\ owner' = IF owner = "waiting" THEN "free" ELSE "closed"
  /\ UNCHANGED <<submitted, running, finished>>

Next ==
  \/ Submit
  \/ Start
  \/ \E t \in 1..MaxTasks : Finish(t)
  \/ \E what \in {"waiting", "closing"} : Begin(what)
  \/ End

Spec ==
  /\ Init
  /\ [][Next]_vars
  /\ WF_vars(Start)
  /\ \A t \in 1..MaxTasks : WF_vars(Finish(t))
  /\ WF_vars(End)
==============================================================================
