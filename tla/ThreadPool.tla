------------------------------ MODULE ThreadPool ------------------------------
(***************************************************************************)
(* llvm::ThreadPool: worker threads that take tasks from a queue, and the  *)
(* thread that owns the pool, which submits tasks, waits for them and at   *)
(* last destroys the pool.  A task may submit tasks too.                   *)
(*                                                                         *)
(* A step is what a thread does between two points where another one can   *)
(* be noticed: it takes a mutex, it evaluates part of a predicate, it      *)
(* signals.  A condition variable is a set of sleeping threads; whoever    *)
(* is woken takes the mutex again and evaluates its predicate again.       *)
(* A thread may be woken for no reason, MaxSpurious times in all.          *)
(***************************************************************************)
EXTENDS Integers, Sequences, FiniteSets

CONSTANTS
  Worker,       \* the threads of the pool
  MaxTasks,     \* how many tasks are submitted at most
  MaxSpurious,  \* how often a thread is woken without a signal at most
  Nobody        \* the holder of a free mutex

ASSUME WorkerAssumption == IsFiniteSet(Worker) /\ Worker # {} /\ Nobody \notin Worker
ASSUME BoundsAssumption == MaxTasks \in Nat /\ MaxSpurious \in Nat

VARIABLES
  Tasks,          \* the queue: task numbers in the order they were submitted
  EnableFlag,     \* FALSE once the destructor has run
  ActiveThreads,  \* the number of threads between taking a task and being done
  QueueLock,      \* the worker that holds QueueLock beyond a step, or Nobody
  CompletionLock, \* is CompletionLock held by wait()?
  pc,             \* what each worker does next
  task,           \* the task a worker has taken, 0 if none
  owner,          \* what the owner does next
  submitted,      \* how many tasks were submitted
  done,           \* the tasks that have run: their futures are ready
  spurious        \* how many wake-ups without a signal there were

queueVars == <<Tasks, EnableFlag, QueueLock, submitted>>
completionVars == <<ActiveThreads, CompletionLock>>
vars == <<queueVars, completionVars, pc, task, owner, done, spurious>>

Goto(w, l) == pc' = [pc EXCEPT ![w] = l]

-----------------------------------------------------------------------------
(* The loop of a worker. *)

\* The predicate of QueueCondition.
HasWork == ~EnableFlag \/ Tasks # <<>>

\* The exit condition of the loop.
\* A worker that leaves as soon as the pool is disabled.
BugMayExit == ~EnableFlag

MayExit == ~EnableFlag /\ Tasks = <<>>

\* A worker takes QueueLock and looks.  With nothing to do it gives the lock
\* back and sleeps, or exits; otherwise it keeps the lock.
Sleep(w) ==
  /\ pc[w] = "look"
  /\ QueueLock = Nobody
  /\ ~HasWork
  /\ Goto(w, "asleep")
  /\ UNCHANGED <<queueVars, completionVars, task, owner, done, spurious>>

ExitLoop(w) ==
  /\ pc[w] = "look"
  /\ QueueLock = Nobody
  /\ HasWork /\ MayExit
  /\ Goto(w, "exited")
  /\ UNCHANGED <<queueVars, completionVars, task, owner, done, spurious>>

\* The block of the lock ends before the task is taken.
BugFindTask(w) ==
  /\ pc[w] = "look"
  /\ QueueLock = Nobody
  /\ HasWork /\ ~MayExit
  /\ Goto(w, "activate")
  /\ UNCHANGED <<queueVars, completionVars, task, owner, done, spurious>>

FindTask(w) ==
  /\ pc[w] = "look"
  /\ QueueLock = Nobody
  /\ HasWork /\ ~MayExit
  /\ QueueLock' = w
  /\ Goto(w, "activate")
  /\ UNCHANGED <<Tasks, EnableFlag, submitted, completionVars, task, owner, done, spurious>>

\* Signals that it is active before it changes the queue.
Activate(w) ==
  /\ pc[w] = "activate"
  /\ ~CompletionLock
  /\ ActiveThreads' = ActiveThreads + 1
  /\ Goto(w, "pop")
  /\ UNCHANGED <<queueVars, CompletionLock, task, owner, done, spurious>>

PopTask(w) ==
  /\ pc[w] = "pop"
  /\ task' = [task EXCEPT ![w] = Head(Tasks)]
  /\ Tasks' = Tail(Tasks)
  /\ QueueLock' = Nobody
  /\ Goto(w, "run")
  /\ UNCHANGED <<EnableFlag, submitted, completionVars, owner, done, spurious>>

RunTask(w) ==
  /\ pc[w] = "run"
  /\ done' = done \cup {task[w]}
  /\ task' = [task EXCEPT ![w] = 0]
  /\ Goto(w, "deactivate")
  /\ UNCHANGED <<queueVars, completionVars, owner, spurious>>

Deactivate(w) ==
  /\ pc[w] = "deactivate"
  /\ ~CompletionLock
  /\ ActiveThreads' = ActiveThreads - 1
  /\ Goto(w, "notify")
  /\ UNCHANGED <<queueVars, CompletionLock, task, owner, done, spurious>>

\* What a notification on CompletionCondition makes of the owner.
Notified == IF owner = "wait asleep" THEN "wait" ELSE owner

NotifyCompletion(w) ==
  /\ pc[w] = "notify"
  /\ owner' = Notified
  /\ Goto(w, "look")
  /\ UNCHANGED <<queueVars, completionVars, task, done, spurious>>

-----------------------------------------------------------------------------
(* asyncImpl, called by the owner or by a task that runs. *)

Sleeping == {w \in Worker : pc[w] = "asleep"}

\* The workers of W are woken; p is what the workers do next otherwise.
Wake(W, p) == pc' = [w \in Worker |-> IF w \in W THEN "look" ELSE p[w]]

\* Notifies only when the queue was empty before.
BugNotifyOne(p) ==
  IF Sleeping = {} \/ Len(Tasks) > 1 THEN pc' = p ELSE \E w \in Sleeping : Wake({w}, p)

\* notify_one wakes one thread if any sleeps.
NotifyOne(p) ==
  IF Sleeping = {} THEN pc' = p ELSE \E w \in Sleeping : Wake({w}, p)

Push ==
  /\ submitted < MaxTasks
  /\ QueueLock = Nobody
  /\ submitted' = submitted + 1
  /\ Tasks' = Append(Tasks, submitted + 1)
  /\ UNCHANGED <<EnableFlag, QueueLock>>

Async ==
  /\ owner = "free"
  /\ Push
  /\ owner' = "async notify"
  /\ UNCHANGED <<completionVars, pc, task, done, spurious>>

AsyncNotify ==
  /\ owner = "async notify"
  /\ NotifyOne(pc)
  /\ owner' = "free"
  /\ UNCHANGED <<queueVars, completionVars, task, done, spurious>>

AsyncFrom(w) ==
  /\ pc[w] = "run"
  /\ Push
  /\ Goto(w, "run notify")
  /\ UNCHANGED <<completionVars, task, owner, done, spurious>>

AsyncFromNotify(w) ==
  /\ pc[w] = "run notify"
  /\ NotifyOne([pc EXCEPT ![w] = "run"])
  /\ UNCHANGED <<queueVars, completionVars, task, owner, done, spurious>>

-----------------------------------------------------------------------------
(* The owner of the pool: wait and the destructor. *)

CallWait ==
  /\ owner = "free"
  /\ owner' = "wait"
  /\ UNCHANGED <<queueVars, completionVars, pc, task, done, spurious>>

\* wait() looks at the queue alone.
BugBusy == FALSE

\* The first half of the predicate of wait(): with a thread active the owner
\* sleeps, otherwise it goes on to the queue and keeps the lock.
Busy == ActiveThreads # 0

CheckActiveThreads ==
  /\ owner = "wait"
  /\ ~CompletionLock
  /\ CompletionLock' = ~Busy
  /\ owner' = IF Busy THEN "wait asleep" ELSE "wait queue"
  /\ UNCHANGED <<queueVars, ActiveThreads, pc, task, done, spurious>>

\* The second half reads the queue without QueueLock.
CheckQueue ==
  /\ owner = "wait queue"
  /\ CompletionLock' = FALSE
  /\ owner' = IF Tasks = <<>> THEN "free" ELSE "wait asleep"
  /\ UNCHANGED <<queueVars, ActiveThreads, pc, task, done, spurious>>

NotifyAll == Wake(Sleeping, pc)

Disable ==
  /\ owner = "free"
  /\ QueueLock = Nobody
  /\ EnableFlag' = FALSE
  /\ owner' = "close notify"
  /\ UNCHANGED <<Tasks, QueueLock, submitted, completionVars, pc, task, done, spurious>>

DisableNotify ==
  /\ owner = "close notify"
  /\ NotifyAll
  /\ owner' = "join"
  /\ UNCHANGED <<queueVars, completionVars, task, done, spurious>>

Join ==
  /\ owner = "join"
  /\ \A w \in Worker : pc[w] = "exited"
  /\ owner' = "destroyed"
  /\ UNCHANGED <<queueVars, completionVars, pc, task, done, spurious>>

\* What a worker does by itself, whatever its task is.
LoopStep(w) ==
  \/ Sleep(w) \/ ExitLoop(w) \/ FindTask(w) \/ Activate(w) \/ PopTask(w)
  \/ AsyncFromNotify(w) \/ Deactivate(w) \/ NotifyCompletion(w)

\* What the owner does once it is inside a function of the pool.
OwnerStep ==
  AsyncNotify \/ CheckActiveThreads \/ CheckQueue \/ DisableNotify \/ Join

-----------------------------------------------------------------------------
\* A thread wakes up although nobody notified it.
SpuriousWakeUp ==
  /\ spurious < MaxSpurious
  /\ spurious' = spurious + 1
  /\ \/ /\ \E w \in Sleeping : Wake({w}, pc)
        /\ UNCHANGED owner
     \/ /\ owner = "wait asleep"
        /\ owner' = "wait"
        /\ UNCHANGED pc
  /\ UNCHANGED <<queueVars, completionVars, task, done>>

Init ==
  /\ Tasks = <<>>
  /\ EnableFlag = TRUE
  /\ ActiveThreads = 0
  /\ QueueLock = Nobody
  /\ CompletionLock = FALSE
  /\ pc = [w \in Worker |-> "look"]
  /\ task = [w \in Worker |-> 0]
  /\ owner = "free"
  /\ submitted = 0
  /\ done = {}
  /\ spurious = 0

\* A task that submits another one does so before the pool is disabled: the
\* assertion of asyncImpl.
Next ==
  \/ \E w \in Worker : LoopStep(w) \/ RunTask(w) \/ (EnableFlag /\ AsyncFrom(w))
  \/ Async \/ CallWait \/ Disable
  \/ OwnerStep
  \/ SpuriousWakeUp

\* A thread that can go on is scheduled at some time.  The owner need not
\* call anything.
Fairness ==
  /\ \A w \in Worker : WF_vars(LoopStep(w) \/ RunTask(w))
  /\ WF_vars(OwnerStep)

Spec == Init /\ [][Next]_vars

FairSpec == Spec /\ Fairness
-----------------------------------------------------------------------------
(* Properties. *)

At(places) == {w \in Worker : pc[w] \in places}

\* The tasks that have been taken from the queue.
Popped == submitted - Len(Tasks)

\* Types, and what the variables that repeat another's knowledge must agree
\* on: who holds QueueLock, how many threads are active, and that the queue
\* holds the tasks not taken so far in the order of their submission.
TypeOK ==
  /\ submitted \in 0..MaxTasks
  /\ Len(Tasks) <= submitted
  /\ Tasks = [i \in 1..Len(Tasks) |-> Popped + i]
  /\ EnableFlag \in BOOLEAN
  /\ CompletionLock = (owner = "wait queue")
  /\ pc \in [Worker -> {"look", "asleep", "activate", "pop", "run", "run notify",
                        "deactivate", "notify", "exited"}]
  /\ task \in [Worker -> 0..MaxTasks]
  /\ \A w \in Worker : task[w] # 0 <=> pc[w] \in {"run", "run notify"}
  /\ owner \in {"free", "async notify", "wait", "wait asleep", "wait queue",
                "close notify", "join", "destroyed"}
  /\ EnableFlag <=> owner \notin {"close notify", "join", "destroyed"}
  /\ ActiveThreads = Cardinality(At({"pop", "run", "run notify", "deactivate"}))
  /\ \A w \in Worker : QueueLock = w <=> pc[w] \in {"activate", "pop"}
  /\ QueueLock \in Worker \cup {Nobody}
  /\ QueueLock # Nobody => Tasks # <<>>
  /\ done \subseteq 1..Popped
  /\ spurious \in 0..MaxSpurious

\* wait() reads the queue without the lock of the queue.  No worker is about
\* to change it then, as wait() has seen that none is active and holds the
\* lock a worker needs to become active: what the comment on the order of
\* the two checks claims.
NoTasksRace == owner = "wait queue" => At({"pop"}) = {}

\* No task waits for a busy thread while an idle one sleeps: with a thread
\* asleep, every queued task has another thread that is on its way to the
\* queue, or is just being announced.  notify_one is enough.
NoIdleThread ==
  Sleeping # {} =>
    Len(Tasks) <= Cardinality(At({"look", "activate", "pop", "run notify"}))
                    + (IF owner = "async notify" THEN 1 ELSE 0)

\* The pool is an executor of submitted tasks: wait() and the destructor
\* return when all tasks have run and not before, each task runs once and in
\* its turn, and with fair threads nothing waits for ever.
Executor == INSTANCE AsyncExecutor WITH
  Threads <- Cardinality(Worker),
  running <- {task[w] : w \in At({"run", "run notify"})},
  finished <- done,
  owner <- CASE owner \in {"free", "async notify"} -> "free"
             [] owner \in {"wait", "wait asleep", "wait queue"} -> "waiting"
             [] owner \in {"close notify", "join"} -> "closing"
             [] OTHER -> "closed"

ImplementsExecutor == Executor!Spec

=============================================================================
