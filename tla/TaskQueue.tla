------------------------------- MODULE TaskQueue -------------------------------
(***************************************************************************)
(* llvm::TaskQueue: a queue whose items run on a thread pool one after the *)
(* other.  An item in flight is a task of the pool; when it is done the    *)
(* worker that ran it submits the next one.                                *)
(*                                                                         *)
(* The owner of the pool owns the queue as well: it adds items, submits    *)
(* plain tasks beside them, destroys the queue, and later the pool.  Items *)
(* are numbered in the order they are added.                               *)
(***************************************************************************)
EXTENDS ThreadPool

CONSTANT MaxItems  \* how many items are added at most

ASSUME ItemsAssumption == MaxItems \in 0..MaxTasks

VARIABLES
  IsTaskInFlight,  \* an item has been scheduled and is not complete
  queued,          \* Tasks of the queue: the items not yet scheduled
  asked,           \* how many items were added
  fulfilled,       \* the items whose promise is set
  carries,         \* the item of every task of the pool, 0 for a plain task
  stage,           \* how far each worker is with the item it runs
  continuation,    \* the item each worker will schedule, 0 if none
  call,            \* what the owner does next in TaskQueue::async, which
                   \* holds the lock of the queue then
  life             \* the queue is alive, is being destroyed, is gone

queueState == <<IsTaskInFlight, queued, continuation>>
itemVars == <<asked, fulfilled, carries, stage>>
tqVars == <<queueState, itemVars, call, life>>

allVars == <<vars, tqVars>>

-----------------------------------------------------------------------------
(* TaskQueue::async. *)

OwnerFree == owner = "free" /\ call = "none" /\ life # "destroying"

\* With an item in flight the new one is queued.  Otherwise it is scheduled
\* with the lock held.
AddItem ==
  /\ OwnerFree /\ life = "alive"
  /\ asked < MaxItems
  /\ asked' = asked + 1
  /\ queued' = IF IsTaskInFlight THEN Append(queued, asked') ELSE queued
  /\ call' = IF IsTaskInFlight THEN "none" ELSE "schedule"
  /\ UNCHANGED <<vars, IsTaskInFlight, continuation, fulfilled, carries, stage, life>>

\* The lock is given back before the flag is set.
BugScheduleItem ==
  /\ call = "schedule"
  /\ Async
  /\ carries' = Append(carries, asked)
  /\ call' = "none"
  /\ UNCHANGED <<queueState, asked, fulfilled, stage, life>>

ScheduleItem ==
  /\ call = "schedule"
  /\ Async
  /\ carries' = Append(carries, asked)
  /\ call' = "mark"
  /\ UNCHANGED <<queueState, asked, fulfilled, stage, life>>

MarkInFlight ==
  /\ call = "mark" /\ owner = "free"
  /\ IsTaskInFlight' = TRUE
  /\ call' = "none"
  /\ UNCHANGED <<vars, queued, continuation, itemVars, life>>

-----------------------------------------------------------------------------
(* The item as a task of the pool: Task::operator() and completeTask. *)

Item(w) == IF pc[w] = "run" THEN carries[task[w]] ELSE 0

To(w, s) == stage' = [stage EXCEPT ![w] = s]

SetPromise(w) ==
  /\ Item(w) # 0 /\ stage[w] = "call"
  /\ fulfilled' = fulfilled \cup {Item(w)}
  /\ To(w, "complete")
  /\ UNCHANGED <<vars, queueState, asked, carries, call, life>>

\* Takes the lock of the queue, which the owner may hold.
CompleteTask(w) ==
  /\ Item(w) # 0 /\ stage[w] = "complete"
  /\ call = "none"
  /\ IF queued = <<>>
     THEN /\ IsTaskInFlight' = FALSE
          /\ To(w, "return")
          /\ UNCHANGED <<queued, continuation>>
     ELSE /\ continuation' = [continuation EXCEPT ![w] = Head(queued)]
          /\ queued' = Tail(queued)
          /\ To(w, "continue")
          /\ UNCHANGED IsTaskInFlight
  /\ UNCHANGED <<vars, asked, fulfilled, carries, call, life>>

\* Without the lock.
Continue(w) ==
  /\ stage[w] = "continue"
  /\ AsyncFrom(w)
  /\ carries' = Append(carries, continuation[w])
  /\ continuation' = [continuation EXCEPT ![w] = 0]
  /\ To(w, "return")
  /\ UNCHANGED <<IsTaskInFlight, queued, asked, fulfilled, call, life>>

\* The task of the pool ends, an item's or a plain one.
Return(w) ==
  /\ Item(w) = 0 \/ stage[w] = "return"
  /\ RunTask(w)
  /\ To(w, "call")
  /\ UNCHANGED <<queueState, asked, fulfilled, carries, call, life>>

-----------------------------------------------------------------------------
(* The destructor, and the owner's other calls. *)

\* The destructor waits for the pool to be idle.
DestroyQueue ==
  /\ OwnerFree /\ life = "alive"
  /\ CallWait
  /\ life' = "destroying"
  /\ UNCHANGED <<queueState, itemVars, call>>

QueueDestroyed ==
  /\ life = "destroying" /\ owner = "free"
  /\ life' = "gone"
  /\ UNCHANGED <<vars, queueState, itemVars, call>>

\* Tasks of the pool that are no items: as many as leave room for the items.
PlainRoom == Cardinality({t \in DOMAIN carries : carries[t] = 0}) < MaxTasks - MaxItems

PlainAsync ==
  /\ OwnerFree /\ PlainRoom
  /\ Async
  /\ carries' = Append(carries, 0)
  /\ UNCHANGED <<queueState, asked, fulfilled, stage, call, life>>

\* A plain task submits another one, while the pool accepts it.
PlainAsyncFrom(w) ==
  /\ Item(w) = 0 /\ EnableFlag /\ PlainRoom
  /\ AsyncFrom(w)
  /\ carries' = Append(carries, 0)
  /\ UNCHANGED <<queueState, asked, fulfilled, stage, call, life>>

\* The queue refers to the pool, which is destroyed after it.
OwnerCall == OwnerFree /\ (CallWait \/ (life = "gone" /\ Disable)) /\ UNCHANGED tqVars

-----------------------------------------------------------------------------
InitQueue ==
  /\ Init
  /\ IsTaskInFlight = FALSE
  /\ queued = <<>>
  /\ asked = 0
  /\ fulfilled = {}
  /\ carries = <<>>
  /\ stage = [w \in Worker |-> "call"]
  /\ continuation = [w \in Worker |-> 0]
  /\ call = "none"
  /\ life = "alive"

\* What a worker and the owner must do by themselves.
WorkerGoesOn(w) ==
  \/ LoopStep(w) /\ UNCHANGED tqVars
  \/ SetPromise(w) \/ CompleteTask(w) \/ Continue(w) \/ Return(w)

OwnerGoesOn ==
  \/ OwnerStep /\ UNCHANGED tqVars
  \/ ScheduleItem \/ MarkInFlight \/ QueueDestroyed

NextQueue ==
  \/ \E w \in Worker : WorkerGoesOn(w) \/ PlainAsyncFrom(w)
  \/ OwnerGoesOn
  \/ AddItem \/ DestroyQueue \/ PlainAsync \/ OwnerCall
  \/ SpuriousWakeUp /\ UNCHANGED tqVars

FairQueue ==
  /\ \A w \in Worker : WF_allVars(WorkerGoesOn(w))
  /\ WF_allVars(OwnerGoesOn)

SpecQueue == InitQueue /\ [][NextQueue]_allVars /\ FairQueue

-----------------------------------------------------------------------------
(* Properties. *)

\* The items that a worker is inside the queue for.
InFlight == {Item(w) : w \in {v \in Worker : Item(v) # 0 /\ stage[v] # "return"}}

\* The queue executes its items like a pool of one thread, on a pool of many
\* and among other tasks: an item begins after the one before it is complete,
\* without overlap; every item runs; and the queue is gone when all have run
\* and left it, not before.  The comments on the class and on its destructor.
SerialExecutor == INSTANCE AsyncExecutor WITH
  Threads <- 1,
  MaxTasks <- MaxItems,
  submitted <- asked,
  running <- InFlight,
  finished <- fulfilled \ InFlight,
  owner <- CASE life = "alive" -> "free"
             [] life = "destroying" -> "closing"
             [] OTHER -> "closed"

ImplementsSerialExecutor == SerialExecutor!Spec

===============================================================================
