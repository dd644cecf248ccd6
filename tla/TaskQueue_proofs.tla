---------------------------- MODULE TaskQueue_proofs ----------------------------
(***************************************************************************)
(* The pool is safe for every number of workers, tasks and spurious        *)
(* wake-ups: its types, the unlocked read of wait(), no idle thread beside *)
(* a waiting task, and the safety part of what an executor promises.  The  *)
(* task queue is serial on every pool: it uses the pool as the pool        *)
(* allows, and its items run one after the other, each once.               *)
(***************************************************************************)
EXTENDS TaskQueue, FiniteSetTheorems, FunctionTheorems, SequenceTheorems, TLAPS

-----------------------------------------------------------------------------
(* Lemmas about the data: counting workers, and the numbers in the queue.  *)

Count(p, S) == Cardinality({w \in Worker : p[w] \in S})

\* A worker that comes to a place of S, one that leaves S.
LEMMA CountEnter ==
  ASSUME NEW p, NEW q, NEW w \in Worker, NEW S, p[w] \notin S, q[w] \in S,
         \A v \in Worker : v # w => (p[v] \in S <=> q[v] \in S)
  PROVE  Count(q, S) = Count(p, S) + 1
<1> DEFINE A == {v \in Worker : p[v] \in S}
           B == {v \in Worker : q[v] \in S}
<1>1. IsFiniteSet(A)
  BY WorkerAssumption, FS_Subset
<1>2. B = A \cup {w} /\ w \notin A
  OBVIOUS
<1> QED BY <1>1, <1>2, FS_AddElement DEF Count

LEMMA CountLeave ==
  ASSUME NEW p, NEW q, NEW w \in Worker, NEW S, p[w] \in S, q[w] \notin S,
         \A v \in Worker : v # w => (p[v] \in S <=> q[v] \in S)
  PROVE  Count(q, S) = Count(p, S) - 1
<1> DEFINE A == {v \in Worker : p[v] \in S}
           B == {v \in Worker : q[v] \in S}
<1>1. IsFiniteSet(A)
  BY WorkerAssumption, FS_Subset
<1>2. B = A \ {w} /\ w \in A
  OBVIOUS
<1> QED BY <1>1, <1>2, FS_RemoveElement DEF Count

\* A count is a number, and zero only when nobody is there.
LEMMA CountType ==
  ASSUME NEW p, NEW S
  PROVE  /\ Count(p, S) \in Nat
         /\ Count(p, S) = 0 <=> \A w \in Worker : p[w] \notin S
<1> DEFINE A == {v \in Worker : p[v] \in S}
<1>1. IsFiniteSet(A)
  BY WorkerAssumption, FS_Subset
<1> QED BY <1>1, FS_CardinalityType, FS_EmptySet DEF Count

LEMMA CountSame ==
  ASSUME NEW p, NEW q, NEW S, \A w \in Worker : p[w] \in S <=> q[w] \in S
  PROVE  Count(p, S) = Count(q, S)
<1>1. {w \in Worker : p[w] \in S} = {w \in Worker : q[w] \in S}
  OBVIOUS
<1> QED BY <1>1 DEF Count

\* The queue of the last tasks of 1..s.
Numbered(q, s) ==
  /\ q \in Seq(Nat)
  /\ Len(q) <= s
  /\ \A i \in 1..Len(q) : q[i] = (s - Len(q)) + i

LEMMA NumberedPush ==
  ASSUME NEW s \in Nat, NEW q, Numbered(q, s)
  PROVE  /\ Numbered(Append(q, s + 1), s + 1)
         /\ Len(Append(q, s + 1)) = Len(q) + 1
         /\ Append(q, s + 1) # <<>>
<1>0. PICK r : r = Append(q, s + 1)
  OBVIOUS
<1>1. Len(q) \in Nat /\ q \in Seq(Nat) /\ s + 1 \in Nat
  BY LenProperties DEF Numbered
<1>2. /\ r \in Seq(Nat) /\ r # <<>> /\ Len(r) = Len(q) + 1
      /\ \A i \in 1..Len(q) : r[i] = q[i]
      /\ r[Len(q) + 1] = s + 1
  BY <1>0, <1>1, AppendProperties
<1>3. ASSUME NEW i \in 1..Len(r) PROVE r[i] = ((s + 1) - Len(r)) + i
  <2>1. CASE i \in 1..Len(q)
    BY <1>1, <1>2, <2>1 DEF Numbered
  <2>2. CASE i = Len(q) + 1
    BY <1>1, <1>2, <2>2
  <2> QED BY <1>1, <1>2, <2>1, <2>2
<1>4. Len(r) <= s + 1
  BY <1>1, <1>2 DEF Numbered
<1>5. Numbered(r, s + 1)
  BY <1>2, <1>3, <1>4 DEF Numbered
<1> QED BY <1>0, <1>2, <1>5, Zenon

LEMMA NumberedPop ==
  ASSUME NEW s \in Nat, NEW q, Numbered(q, s), q # <<>>
  PROVE  /\ Numbered(Tail(q), s)
         /\ Len(Tail(q)) = Len(q) - 1
         /\ Head(q) = (s - Len(q)) + 1
         /\ Len(q) >= 1
<1>1. Len(q) \in Nat /\ Len(q) >= 1 /\ Head(q) = q[1]
  BY EmptySeq DEF Numbered
<1>2. /\ Tail(q) \in Seq(Nat)
      /\ Len(Tail(q)) = Len(q) - 1
      /\ \A i \in 1..Len(Tail(q)) : Tail(q)[i] = q[i + 1]
  BY HeadTailProperties DEF Numbered
<1> QED BY <1>1, <1>2 DEF Numbered

LEMMA NumberedEmpty == Len(<<>>) = 0 /\ Numbered(<<>>, 0)
<1>1. Len(<<>>) = 0 /\ <<>> \in Seq(Nat)
  BY EmptySeq
<1> QED BY <1>1 DEF Numbered

\* The first p tasks were taken: the workers have t, the others are done.
Taken(t, d, p) ==
  /\ \A w \in Worker : t[w] <= p /\ t[w] \notin d
  /\ \A v, w \in Worker : t[v] # 0 /\ t[v] = t[w] => v = w
  /\ d \subseteq 1..p
  /\ \A k \in 1..p : k \in d \/ \E w \in Worker : t[w] = k

LEMMA TakenPop ==
  ASSUME NEW t \in [Worker -> Nat], NEW u, NEW d, NEW p \in Nat, Taken(t, d, p),
         NEW w \in Worker, u[w] = p + 1, \A v \in Worker : v # w => u[v] = t[v]
  PROVE  t[w] = 0 => Taken(u, d, p + 1)
<1> SUFFICES ASSUME t[w] = 0 PROVE Taken(u, d, p + 1)
  OBVIOUS
<1>1. \A v \in Worker : u[v] <= p + 1 /\ u[v] \notin d
  BY DEF Taken
<1>2. \A v, x \in Worker : u[v] # 0 /\ u[v] = u[x] => v = x
  BY DEF Taken
<1>3. d \subseteq 1..(p + 1)
  BY DEF Taken
<1>4. ASSUME NEW k \in 1..(p + 1) PROVE k \in d \/ \E v \in Worker : u[v] = k
  <2>1. CASE k = p + 1
    BY <2>1
  <2>2. CASE k \in 1..p
    <3>1. CASE k \in d
      BY <3>1
    <3>2. CASE \E v \in Worker : t[v] = k
      <4>1. PICK v \in Worker : t[v] = k
        BY <3>2
      <4>2. v # w
        BY <2>2, <4>1
      <4> QED BY <4>1, <4>2
    <3> QED BY <2>2, <3>1, <3>2 DEF Taken
  <2> QED BY <2>1, <2>2
<1> QED BY <1>1, <1>2, <1>3, <1>4 DEF Taken

LEMMA TakenRun ==
  ASSUME NEW t \in [Worker -> Nat], NEW u, NEW d, NEW p \in Nat, Taken(t, d, p),
         NEW w \in Worker, u[w] = 0, \A v \in Worker : v # w => u[v] = t[v]
  PROVE  t[w] # 0 => Taken(u, d \cup {t[w]}, p)
<1> SUFFICES ASSUME t[w] # 0 PROVE Taken(u, d \cup {t[w]}, p)
  OBVIOUS
<1> DEFINE e == d \cup {t[w]}
<1>1. \A v \in Worker : u[v] <= p /\ u[v] \notin e
  <2>1. 0 \notin e
    BY DEF Taken
  <2> QED BY <2>1 DEF Taken
<1>2. \A v, x \in Worker : u[v] # 0 /\ u[v] = u[x] => v = x
  BY DEF Taken
<1>3. e \subseteq 1..p
  <2>1. t[w] \in 1..p
    <3>1. t[w] \in Nat /\ t[w] <= p
      BY DEF Taken
    <3> QED BY <3>1
  <2> QED BY <2>1 DEF Taken
<1>4. \A k \in 1..p : k \in e \/ \E v \in Worker : u[v] = k
  BY DEF Taken
<1> HIDE DEF e
<1>5. Taken(u, e, p)
  BY <1>1, <1>2, <1>3, <1>4 DEF Taken
<1> QED BY <1>5 DEF e

-----------------------------------------------------------------------------
(* The inductive invariant.                                                *)

Places == {"look", "asleep", "activate", "pop", "run", "run notify",
           "deactivate", "notify", "exited"}

OwnerPlaces == {"free", "async notify", "wait", "wait asleep", "wait queue",
                "close notify", "join", "destroyed"}

Active == {"pop", "run", "run notify", "deactivate"}

Running == {"run", "run notify"}

QueueNumbered == Numbered(Tasks, submitted)

Types ==
  /\ submitted \in 0..MaxTasks
  /\ QueueNumbered
  /\ EnableFlag \in BOOLEAN
  /\ pc \in [Worker -> Places]
  /\ task \in [Worker -> 0..MaxTasks]
  /\ owner \in OwnerPlaces
  /\ EnableFlag <=> owner \notin {"close notify", "join", "destroyed"}
  /\ CompletionLock \in BOOLEAN /\ (CompletionLock <=> owner = "wait queue")
  /\ spurious \in 0..MaxSpurious

\* Who holds QueueLock, with something in the queue.
LockInv ==
  /\ QueueLock \in Worker \cup {Nobody}
  /\ \A w \in Worker : QueueLock = w <=> pc[w] \in {"activate", "pop"}
  /\ QueueLock # Nobody => Tasks # <<>>

\* The counter counts, and wait() looks at the queue when it is zero.
ActiveInv ==
  /\ ActiveThreads = Count(pc, Active)
  /\ owner = "wait queue" => ActiveThreads = 0

\* A worker leaves a pool that is disabled, with nothing in the queue.
ExitInv == \A w \in Worker : pc[w] = "exited" => ~EnableFlag /\ Tasks = <<>>

\* A task that was taken is either with one worker or done.
TasksTaken == Taken(task, done, Popped)

TaskInv ==
  /\ \A w \in Worker : task[w] # 0 <=> pc[w] \in Running
  /\ TasksTaken

Inv == Types /\ LockInv /\ ActiveInv /\ ExitInv /\ TaskInv

\* Every conjunct but one only reads a few variables.
LEMMA PoppedType ==
  ASSUME Types
  PROVE  /\ Len(Tasks) \in Nat /\ submitted \in Nat /\ MaxTasks \in Nat
         /\ Popped \in 0..submitted
<1>1. Tasks \in Seq(Nat) /\ Len(Tasks) <= submitted
  BY DEF Types, QueueNumbered, Numbered
<1>2. Len(Tasks) \in Nat
  BY <1>1, LenProperties
<1>3. submitted \in Nat /\ MaxTasks \in Nat
  <2>1. submitted \in 0..MaxTasks
    BY DEF Types
  <2> QED BY <2>1, BoundsAssumption
<1> QED BY <1>1, <1>2, <1>3 DEF Popped

LEMMA InitInv == Init => Inv
<1> SUFFICES ASSUME Init PROVE Inv
  OBVIOUS
<1>1. Types
  <2>1. QueueNumbered
    BY NumberedEmpty DEF Init, QueueNumbered
  <2>2. /\ submitted \in 0..MaxTasks
        /\ spurious \in 0..MaxSpurious
        /\ task \in [Worker -> 0..MaxTasks]
    BY BoundsAssumption DEF Init
  <2>3. pc \in [Worker -> Places] /\ owner \in OwnerPlaces
    BY DEF Init, Places, OwnerPlaces
  <2>4. /\ EnableFlag \in BOOLEAN /\ CompletionLock \in BOOLEAN
        /\ EnableFlag <=> owner \notin {"close notify", "join", "destroyed"}
        /\ CompletionLock <=> owner = "wait queue"
    BY DEF Init
  <2> QED BY <2>1, <2>2, <2>3, <2>4 DEF Types
<1>2. LockInv
  BY WorkerAssumption DEF Init, LockInv
<1>3. ActiveInv
  BY CountType DEF Init, ActiveInv, Active
<1>4. ExitInv
  BY DEF Init, ExitInv
<1>5. Popped = 0
  <2>1. Len(Tasks) = 0 /\ submitted = 0
    BY NumberedEmpty DEF Init
  <2> QED BY <2>1 DEF Popped
<1>6. TaskInv
  <2>1. TasksTaken
    BY <1>5 DEF Init, TasksTaken, Taken
  <2> QED BY <2>1 DEF Init, TaskInv, Running
<1> QED BY <1>1, <1>2, <1>3, <1>4, <1>6 DEF Inv

-----------------------------------------------------------------------------
(* Every action keeps the invariant, part by part.                         *)

LEMMA PushQueue ==
  ASSUME Types, Push
  PROVE  /\ submitted' \in 0..MaxTasks /\ submitted' = submitted + 1
         /\ Numbered(Tasks', submitted')
         /\ Tasks' # <<>>
         /\ Popped' = Popped
         /\ EnableFlag' = EnableFlag /\ QueueLock' = QueueLock /\ QueueLock = Nobody
<1>1. submitted \in Nat /\ Numbered(Tasks, submitted) /\ Len(Tasks) \in Nat
  BY PoppedType DEF Types, QueueNumbered
<1>2. submitted' = submitted + 1 /\ Tasks' = Append(Tasks, submitted + 1) /\ submitted < MaxTasks
  BY DEF Push
<1>3. /\ Numbered(Tasks', submitted') /\ Tasks' # <<>>
      /\ Len(Tasks') = Len(Tasks) + 1
  BY <1>1, <1>2, NumberedPush
<1>4. submitted' \in 0..MaxTasks
  BY <1>1, <1>2, BoundsAssumption
<1>5. Popped' = Popped
  BY <1>1, <1>2, <1>3 DEF Popped
<1> QED BY <1>2, <1>3, <1>4, <1>5 DEF Push

LEMMA PushLen ==
  ASSUME Inv, Push
  PROVE  Len(Tasks') = Len(Tasks) + 1
<1>1. submitted \in Nat /\ Numbered(Tasks, submitted)
  BY PoppedType DEF Inv, Types, QueueNumbered
<1>2. Len(Append(Tasks, submitted + 1)) = Len(Tasks) + 1
  BY <1>1, NumberedPush
<1> QED BY <1>2 DEF Push

LEMMA PopQueue ==
  ASSUME Inv, NEW w \in Worker, PopTask(w)
  PROVE  /\ Numbered(Tasks', submitted)
         /\ Head(Tasks) = Popped + 1 /\ Popped' = Popped + 1
         /\ Popped + 1 \in 1..MaxTasks
<1>1. /\ submitted \in Nat /\ Numbered(Tasks, submitted) /\ Len(Tasks) \in Nat
      /\ Popped \in 0..submitted
  BY PoppedType DEF Inv, Types, QueueNumbered
<1>2. Tasks # <<>>
  BY WorkerAssumption DEF Inv, LockInv, PopTask
<1>3. Tasks' = Tail(Tasks) /\ submitted' = submitted
  BY DEF PopTask
<1>4. /\ Numbered(Tail(Tasks), submitted)
      /\ Len(Tail(Tasks)) = Len(Tasks) - 1
      /\ Head(Tasks) = (submitted - Len(Tasks)) + 1
      /\ Len(Tasks) >= 1
  BY <1>1, <1>2, NumberedPop
<1>5. submitted \in 0..MaxTasks /\ MaxTasks \in Nat
  BY BoundsAssumption DEF Inv, Types
<1>6. Popped = submitted - Len(Tasks) /\ Popped' = submitted - Len(Tail(Tasks))
  BY <1>3 DEF Popped
<1>7. Popped' = Popped + 1 /\ Head(Tasks) = Popped + 1 /\ Popped + 1 \in 1..MaxTasks
  <2>1. /\ submitted \in Nat /\ Len(Tasks) \in Nat
        /\ Len(Tail(Tasks)) = Len(Tasks) - 1 /\ Len(Tasks) >= 1
        /\ Head(Tasks) = (submitted - Len(Tasks)) + 1 /\ Len(Tasks) <= submitted
    BY <1>1, <1>4 DEF Numbered
  <2>2. /\ submitted - Len(Tail(Tasks)) = (submitted - Len(Tasks)) + 1
        /\ (submitted - Len(Tasks)) + 1 \in 1..MaxTasks
    <3>1. \A s, m, n, k \in Nat : s <= m /\ 1 <= n /\ n <= s /\ k = n - 1 =>
             s - k = (s - n) + 1 /\ (s - n) + 1 \in 1..m
      OBVIOUS
    <3>2. submitted <= MaxTasks
      BY <1>5
    <3>3. Len(Tail(Tasks)) \in Nat
      BY <2>1
    <3>4. 1 <= Len(Tasks)
      BY <2>1
    <3> QED BY <2>1, <1>5, <3>1, <3>2, <3>3, <3>4, Zenon
  <2> QED BY <2>1, <2>2, <1>6
<1> QED BY <1>3, <1>4, <1>7

LEMMA PushTypes ==
  ASSUME Inv, Push, NEW w \in Worker, Async \/ AsyncFrom(w)
  PROVE  Types'
<1>1. submitted' \in 0..MaxTasks /\ QueueNumbered' /\ EnableFlag' = EnableFlag
  BY PushQueue DEF Inv, QueueNumbered
<1>2. /\ pc' \in [Worker -> Places] /\ owner' \in OwnerPlaces
      /\ task' = task /\ spurious' = spurious /\ CompletionLock' = CompletionLock
      /\ owner' # owner => owner = "free" /\ owner' = "async notify"
  BY DEF Inv, Types, Async, AsyncFrom, Goto, Places, OwnerPlaces, completionVars
<1> QED BY <1>1, <1>2 DEF Inv, Types

LEMMA PushActive ==
  ASSUME Inv, Push, NEW w \in Worker, Async \/ AsyncFrom(w)
  PROVE  ActiveInv'
<1>1. \A v \in Worker : pc[v] \in Active <=> pc'[v] \in Active
  BY DEF Inv, Types, Async, AsyncFrom, Goto, Active
<1>2. Count(pc', Active) = Count(pc, Active)
  BY <1>1, CountSame
<1>3. ActiveThreads' = ActiveThreads /\ (owner' = "wait queue" => owner = "wait queue")
  BY DEF Async, AsyncFrom, completionVars
<1> QED BY <1>2, <1>3 DEF Inv, ActiveInv

LEMMA NextTypes == ASSUME Inv, Next PROVE Types'
<1>1. ASSUME NEW w \in Worker, Sleep(w) PROVE Types'
  BY <1>1 DEF Sleep, Goto, queueVars, completionVars, Inv, Types, QueueNumbered, Places
<1>2. ASSUME NEW w \in Worker, ExitLoop(w) PROVE Types'
  BY <1>2 DEF ExitLoop, Goto, queueVars, completionVars, Inv, Types, QueueNumbered, Places
<1>3. ASSUME NEW w \in Worker, FindTask(w) PROVE Types'
  BY <1>3 DEF FindTask, Goto, completionVars, Inv, Types, QueueNumbered, Places
<1>4. ASSUME NEW w \in Worker, Activate(w) PROVE Types'
  BY <1>4 DEF Activate, Goto, queueVars, Inv, Types, QueueNumbered, Places
<1>5. ASSUME NEW w \in Worker, PopTask(w) PROVE Types'
  <2>1. /\ QueueNumbered' /\ submitted' = submitted
        /\ Head(Tasks) \in 0..MaxTasks
    <3>1. Head(Tasks) = Popped + 1 /\ Popped + 1 \in 1..MaxTasks
      BY <1>5, PopQueue
    <3>2. Head(Tasks) \in 0..MaxTasks
      BY <3>1
    <3>3. submitted' = submitted
      BY <1>5 DEF PopTask
    <3> QED BY <1>5, <3>2, <3>3, PopQueue DEF QueueNumbered
  <2>2. task' \in [Worker -> 0..MaxTasks]
    BY <1>5, <2>1 DEF PopTask, Inv, Types
  <2> QED BY <1>5, <2>1, <2>2 DEF PopTask, Goto, completionVars, Inv, Types, Places
<1>6. ASSUME NEW w \in Worker, RunTask(w) PROVE Types'
  <2>1. task' \in [Worker -> 0..MaxTasks]
    <3>1. 0 \in 0..MaxTasks
      BY BoundsAssumption
    <3> QED BY <1>6, <3>1 DEF RunTask, Inv, Types
  <2> QED BY <1>6, <2>1 DEF RunTask, Goto, queueVars, completionVars, Inv, Types, QueueNumbered, Places
<1>7. ASSUME NEW w \in Worker, AsyncFrom(w) PROVE Types'
  BY <1>7, PushTypes DEF AsyncFrom
<1>8. ASSUME NEW w \in Worker, AsyncFromNotify(w) PROVE Types'
  BY <1>8 DEF AsyncFromNotify, NotifyOne, Wake, Sleeping, queueVars, completionVars, Inv, Types, QueueNumbered, Places
<1>9. ASSUME NEW w \in Worker, Deactivate(w) PROVE Types'
  BY <1>9 DEF Deactivate, Goto, queueVars, Inv, Types, QueueNumbered, Places
<1>10. ASSUME NEW w \in Worker, NotifyCompletion(w) PROVE Types'
  BY <1>10 DEF NotifyCompletion, Goto, Notified, queueVars, completionVars, Inv, Types, QueueNumbered, Places, OwnerPlaces
<1>11. CASE Async
  <2>1. PICK v \in Worker : TRUE
    BY WorkerAssumption
  <2> QED BY <1>11, <2>1, PushTypes DEF Async
<1>12. CASE AsyncNotify
  BY <1>12 DEF AsyncNotify, NotifyOne, Wake, Sleeping, queueVars, completionVars, Inv, Types, QueueNumbered, Places, OwnerPlaces
<1>13. CASE CallWait
  BY <1>13 DEF CallWait, queueVars, completionVars, Inv, Types, QueueNumbered, Places, OwnerPlaces
<1>14. CASE CheckActiveThreads
  BY <1>14 DEF CheckActiveThreads, Busy, queueVars, Inv, Types, QueueNumbered, Places, OwnerPlaces
<1>15. CASE CheckQueue
  BY <1>15 DEF CheckQueue, queueVars, Inv, Types, QueueNumbered, Places, OwnerPlaces
<1>16. CASE Disable
  BY <1>16 DEF Disable, completionVars, Inv, Types, QueueNumbered, Places, OwnerPlaces
<1>17. CASE DisableNotify
  BY <1>17 DEF DisableNotify, NotifyAll, Wake, Sleeping, queueVars, completionVars, Inv, Types, QueueNumbered, Places, OwnerPlaces
<1>18. CASE Join
  BY <1>18 DEF Join, queueVars, completionVars, Inv, Types, QueueNumbered, Places, OwnerPlaces
<1>19. CASE SpuriousWakeUp
  <2>1. spurious' \in 0..MaxSpurious
    <3>1. spurious \in 0..MaxSpurious /\ spurious < MaxSpurious /\ spurious' = spurious + 1
      BY <1>19 DEF SpuriousWakeUp, Inv, Types
    <3> QED BY <3>1, BoundsAssumption
  <2> QED BY <1>19, <2>1 DEF SpuriousWakeUp, Wake, Sleeping, queueVars, completionVars, Inv, Types, QueueNumbered, Places, OwnerPlaces
<1> QED BY <1>1, <1>2, <1>3, <1>4, <1>5, <1>6, <1>7, <1>8, <1>9, <1>10, <1>11, <1>12, <1>13, <1>14, <1>15, <1>16, <1>17, <1>18, <1>19 DEF Next, LoopStep, OwnerStep

LEMMA NextLock == ASSUME Inv, Next PROVE LockInv'
<1>1. ASSUME NEW w \in Worker, Sleep(w) PROVE LockInv'
  BY <1>1, WorkerAssumption DEF Sleep, Goto, HasWork, queueVars, completionVars, Inv, Types, LockInv
<1>2. ASSUME NEW w \in Worker, ExitLoop(w) PROVE LockInv'
  BY <1>2, WorkerAssumption DEF ExitLoop, Goto, HasWork, MayExit, queueVars, completionVars, Inv, Types, LockInv
<1>3. ASSUME NEW w \in Worker, FindTask(w) PROVE LockInv'
  BY <1>3, WorkerAssumption DEF FindTask, Goto, HasWork, MayExit, completionVars, Inv, Types, LockInv
<1>4. ASSUME NEW w \in Worker, Activate(w) PROVE LockInv'
  BY <1>4, WorkerAssumption DEF Activate, Goto, queueVars, Inv, Types, LockInv
<1>5. ASSUME NEW w \in Worker, PopTask(w) PROVE LockInv'
  BY <1>5, WorkerAssumption DEF PopTask, Goto, completionVars, Inv, Types, LockInv
<1>6. ASSUME NEW w \in Worker, RunTask(w) PROVE LockInv'
  BY <1>6, WorkerAssumption DEF RunTask, Goto, queueVars, completionVars, Inv, Types, LockInv
<1>7. ASSUME NEW w \in Worker, AsyncFrom(w) PROVE LockInv'
  BY <1>7, WorkerAssumption, PushQueue DEF AsyncFrom, Goto, Inv, Types, LockInv
<1>8. ASSUME NEW w \in Worker, AsyncFromNotify(w) PROVE LockInv'
  BY <1>8, WorkerAssumption DEF AsyncFromNotify, NotifyOne, Wake, Sleeping, queueVars, completionVars, Inv, Types, LockInv
<1>9. ASSUME NEW w \in Worker, Deactivate(w) PROVE LockInv'
  BY <1>9, WorkerAssumption DEF Deactivate, Goto, queueVars, Inv, Types, LockInv
<1>10. ASSUME NEW w \in Worker, NotifyCompletion(w) PROVE LockInv'
  BY <1>10, WorkerAssumption DEF NotifyCompletion, Goto, Notified, queueVars, completionVars, Inv, Types, LockInv
<1>11. CASE Async
  BY <1>11, WorkerAssumption, PushQueue DEF Async, Inv, Types, LockInv
<1>12. CASE AsyncNotify
  BY <1>12, WorkerAssumption DEF AsyncNotify, NotifyOne, Wake, Sleeping, queueVars, completionVars, Inv, Types, LockInv
<1>13. CASE CallWait
  BY <1>13, WorkerAssumption DEF CallWait, queueVars, completionVars, Inv, Types, LockInv
<1>14. CASE CheckActiveThreads
  BY <1>14, WorkerAssumption DEF CheckActiveThreads, Busy, queueVars, Inv, Types, LockInv
<1>15. CASE CheckQueue
  BY <1>15, WorkerAssumption DEF CheckQueue, queueVars, Inv, Types, LockInv
<1>16. CASE Disable
  BY <1>16, WorkerAssumption DEF Disable, completionVars, Inv, Types, LockInv
<1>17. CASE DisableNotify
  BY <1>17, WorkerAssumption DEF DisableNotify, NotifyAll, Wake, Sleeping, queueVars, completionVars, Inv, Types, LockInv
<1>18. CASE Join
  BY <1>18, WorkerAssumption DEF Join, queueVars, completionVars, Inv, Types, LockInv
<1>19. CASE SpuriousWakeUp
  BY <1>19, WorkerAssumption DEF SpuriousWakeUp, Wake, Sleeping, queueVars, completionVars, Inv, Types, LockInv
<1> QED BY <1>1, <1>2, <1>3, <1>4, <1>5, <1>6, <1>7, <1>8, <1>9, <1>10, <1>11, <1>12, <1>13, <1>14, <1>15, <1>16, <1>17, <1>18, <1>19 DEF Next, LoopStep, OwnerStep

LEMMA NextActive == ASSUME Inv, Next PROVE ActiveInv'
<1>1. ASSUME NEW w \in Worker, Sleep(w) PROVE ActiveInv'
  <2>1. \A v \in Worker : pc[v] \in Active <=> pc'[v] \in Active
    BY <1>1 DEF Sleep, Goto, queueVars, completionVars, Inv, Types, Active
  <2>2. Count(pc', Active) = Count(pc, Active)
    BY <2>1, CountSame
  <2> QED BY <1>1, <2>2 DEF Sleep, Goto, queueVars, completionVars, Inv, ActiveInv
<1>2. ASSUME NEW w \in Worker, ExitLoop(w) PROVE ActiveInv'
  <2>1. \A v \in Worker : pc[v] \in Active <=> pc'[v] \in Active
    BY <1>2 DEF ExitLoop, Goto, queueVars, completionVars, Inv, Types, Active
  <2>2. Count(pc', Active) = Count(pc, Active)
    BY <2>1, CountSame
  <2> QED BY <1>2, <2>2 DEF ExitLoop, Goto, queueVars, completionVars, Inv, ActiveInv
<1>3. ASSUME NEW w \in Worker, FindTask(w) PROVE ActiveInv'
  <2>1. \A v \in Worker : pc[v] \in Active <=> pc'[v] \in Active
    BY <1>3 DEF FindTask, Goto, completionVars, Inv, Types, Active
  <2>2. Count(pc', Active) = Count(pc, Active)
    BY <2>1, CountSame
  <2> QED BY <1>3, <2>2 DEF FindTask, Goto, completionVars, Inv, ActiveInv
<1>4. ASSUME NEW w \in Worker, Activate(w) PROVE ActiveInv'
  <2>1. /\ pc[w] = "activate" /\ DOMAIN pc = Worker /\ pc' = [pc EXCEPT ![w] = "pop"]
        /\ ActiveThreads' = ActiveThreads + 1
        /\ owner' = owner /\ owner # "wait queue"
    BY <1>4 DEF Activate, Goto, Inv, Types
  <2>2. Count(pc', Active) = Count(pc, Active) + 1
    <3>1. /\ pc[w] \notin Active /\ pc'[w] \in Active
          /\ \A v \in Worker : v # w => (pc[v] \in Active <=> pc'[v] \in Active)
      BY <2>1 DEF Active
    <3> QED BY <3>1, CountEnter
  <2> QED BY <2>1, <2>2 DEF Inv, ActiveInv
<1>5. ASSUME NEW w \in Worker, PopTask(w) PROVE ActiveInv'
  <2>1. \A v \in Worker : pc[v] \in Active <=> pc'[v] \in Active
    BY <1>5 DEF PopTask, Goto, completionVars, Inv, Types, Active
  <2>2. Count(pc', Active) = Count(pc, Active)
    BY <2>1, CountSame
  <2> QED BY <1>5, <2>2 DEF PopTask, Goto, completionVars, Inv, ActiveInv
<1>6. ASSUME NEW w \in Worker, RunTask(w) PROVE ActiveInv'
  <2>1. \A v \in Worker : pc[v] \in Active <=> pc'[v] \in Active
    BY <1>6 DEF RunTask, Goto, queueVars, completionVars, Inv, Types, Active
  <2>2. Count(pc', Active) = Count(pc, Active)
    BY <2>1, CountSame
  <2> QED BY <1>6, <2>2 DEF RunTask, Goto, queueVars, completionVars, Inv, ActiveInv
<1>7. ASSUME NEW w \in Worker, AsyncFrom(w) PROVE ActiveInv'
  BY <1>7, PushActive DEF AsyncFrom
<1>8. ASSUME NEW w \in Worker, AsyncFromNotify(w) PROVE ActiveInv'
  <2>1. \A v \in Worker : pc[v] \in Active <=> pc'[v] \in Active
    BY <1>8 DEF AsyncFromNotify, NotifyOne, Wake, Sleeping, queueVars, completionVars, Inv, Types, Active
  <2>2. Count(pc', Active) = Count(pc, Active)
    BY <2>1, CountSame
  <2> QED BY <1>8, <2>2 DEF AsyncFromNotify, NotifyOne, Wake, Sleeping, queueVars, completionVars, Inv, ActiveInv
<1>9. ASSUME NEW w \in Worker, Deactivate(w) PROVE ActiveInv'
  <2>1. /\ pc[w] = "deactivate" /\ DOMAIN pc = Worker /\ pc' = [pc EXCEPT ![w] = "notify"]
        /\ ActiveThreads' = ActiveThreads - 1
        /\ owner' = owner /\ owner # "wait queue"
    BY <1>9 DEF Deactivate, Goto, Inv, Types
  <2>2. Count(pc', Active) = Count(pc, Active) - 1
    <3>1. /\ pc[w] \in Active /\ pc'[w] \notin Active
          /\ \A v \in Worker : v # w => (pc[v] \in Active <=> pc'[v] \in Active)
      BY <2>1 DEF Active
    <3> QED BY <3>1, CountLeave
  <2> QED BY <2>1, <2>2 DEF Inv, ActiveInv
<1>10. ASSUME NEW w \in Worker, NotifyCompletion(w) PROVE ActiveInv'
  <2>1. \A v \in Worker : pc[v] \in Active <=> pc'[v] \in Active
    BY <1>10 DEF NotifyCompletion, Goto, Notified, queueVars, completionVars, Inv, Types, Active
  <2>2. Count(pc', Active) = Count(pc, Active)
    BY <2>1, CountSame
  <2> QED BY <1>10, <2>2 DEF NotifyCompletion, Goto, Notified, queueVars, completionVars, Inv, ActiveInv
<1>11. CASE Async
  <2>1. PICK v \in Worker : TRUE
    BY WorkerAssumption
  <2> QED BY <1>11, <2>1, PushActive DEF Async
<1>12. CASE AsyncNotify
  <2>1. \A v \in Worker : pc[v] \in Active <=> pc'[v] \in Active
    BY <1>12 DEF AsyncNotify, NotifyOne, Wake, Sleeping, queueVars, completionVars, Inv, Types, Active
  <2>2. Count(pc', Active) = Count(pc, Active)
    BY <2>1, CountSame
  <2> QED BY <1>12, <2>2 DEF AsyncNotify, NotifyOne, Wake, Sleeping, queueVars, completionVars, Inv, ActiveInv
<1>13. CASE CallWait
  <2>1. \A v \in Worker : pc[v] \in Active <=> pc'[v] \in Active
    BY <1>13 DEF CallWait, queueVars, completionVars, Inv, Types, Active
  <2>2. Count(pc', Active) = Count(pc, Active)
    BY <2>1, CountSame
  <2> QED BY <1>13, <2>2 DEF CallWait, queueVars, completionVars, Inv, ActiveInv
<1>14. CASE CheckActiveThreads
  <2>1. \A v \in Worker : pc[v] \in Active <=> pc'[v] \in Active
    BY <1>14 DEF CheckActiveThreads, Busy, queueVars, Inv, Types, Active
  <2>2. Count(pc', Active) = Count(pc, Active)
    BY <2>1, CountSame
  <2> QED BY <1>14, <2>2 DEF CheckActiveThreads, Busy, queueVars, Inv, ActiveInv
<1>15. CASE CheckQueue
  <2>1. \A v \in Worker : pc[v] \in Active <=> pc'[v] \in Active
    BY <1>15 DEF CheckQueue, queueVars, Inv, Types, Active
  <2>2. Count(pc', Active) = Count(pc, Active)
    BY <2>1, CountSame
  <2> QED BY <1>15, <2>2 DEF CheckQueue, queueVars, Inv, ActiveInv
<1>16. CASE Disable
  <2>1. \A v \in Worker : pc[v] \in Active <=> pc'[v] \in Active
    BY <1>16 DEF Disable, completionVars, Inv, Types, Active
  <2>2. Count(pc', Active) = Count(pc, Active)
    BY <2>1, CountSame
  <2> QED BY <1>16, <2>2 DEF Disable, completionVars, Inv, ActiveInv
<1>17. CASE DisableNotify
  <2>1. \A v \in Worker : pc[v] \in Active <=> pc'[v] \in Active
    BY <1>17 DEF DisableNotify, NotifyAll, Wake, Sleeping, queueVars, completionVars, Inv, Types, Active
  <2>2. Count(pc', Active) = Count(pc, Active)
    BY <2>1, CountSame
  <2> QED BY <1>17, <2>2 DEF DisableNotify, NotifyAll, Wake, Sleeping, queueVars, completionVars, Inv, ActiveInv
<1>18. CASE Join
  <2>1. \A v \in Worker : pc[v] \in Active <=> pc'[v] \in Active
    BY <1>18 DEF Join, queueVars, completionVars, Inv, Types, Active
  <2>2. Count(pc', Active) = Count(pc, Active)
    BY <2>1, CountSame
  <2> QED BY <1>18, <2>2 DEF Join, queueVars, completionVars, Inv, ActiveInv
<1>19. CASE SpuriousWakeUp
  <2>1. \A v \in Worker : pc[v] \in Active <=> pc'[v] \in Active
    BY <1>19 DEF SpuriousWakeUp, Wake, Sleeping, queueVars, completionVars, Inv, Types, Active
  <2>2. Count(pc', Active) = Count(pc, Active)
    BY <2>1, CountSame
  <2> QED BY <1>19, <2>2 DEF SpuriousWakeUp, Wake, Sleeping, queueVars, completionVars, Inv, ActiveInv
<1> QED BY <1>1, <1>2, <1>3, <1>4, <1>5, <1>6, <1>7, <1>8, <1>9, <1>10, <1>11, <1>12, <1>13, <1>14, <1>15, <1>16, <1>17, <1>18, <1>19 DEF Next, LoopStep, OwnerStep

LEMMA NextExit == ASSUME Inv, Next PROVE ExitInv'
<1>1. ASSUME NEW w \in Worker, Sleep(w) PROVE ExitInv'
  BY <1>1 DEF Sleep, Goto, HasWork, queueVars, completionVars, Inv, Types, ExitInv
<1>2. ASSUME NEW w \in Worker, ExitLoop(w) PROVE ExitInv'
  BY <1>2 DEF ExitLoop, Goto, HasWork, MayExit, queueVars, completionVars, Inv, Types, ExitInv
<1>3. ASSUME NEW w \in Worker, FindTask(w) PROVE ExitInv'
  BY <1>3 DEF FindTask, Goto, HasWork, MayExit, completionVars, Inv, Types, ExitInv
<1>4. ASSUME NEW w \in Worker, Activate(w) PROVE ExitInv'
  BY <1>4 DEF Activate, Goto, queueVars, Inv, Types, ExitInv
<1>5. ASSUME NEW w \in Worker, PopTask(w) PROVE ExitInv'
  <2>1. Tasks # <<>>
    BY <1>5, WorkerAssumption DEF PopTask, Inv, LockInv
  <2>2. \A v \in Worker : pc[v] # "exited"
    BY <2>1 DEF Inv, ExitInv
  <2> QED BY <1>5, <2>2 DEF PopTask, Goto, Inv, Types, ExitInv
<1>6. ASSUME NEW w \in Worker, RunTask(w) PROVE ExitInv'
  BY <1>6 DEF RunTask, Goto, queueVars, completionVars, Inv, Types, ExitInv
<1>7. ASSUME NEW w \in Worker, EnableFlag, AsyncFrom(w) PROVE ExitInv'
  BY <1>7 DEF AsyncFrom, Goto, Push, completionVars, Inv, Types, ExitInv
<1>8. ASSUME NEW w \in Worker, AsyncFromNotify(w) PROVE ExitInv'
  BY <1>8 DEF AsyncFromNotify, NotifyOne, Wake, Sleeping, queueVars, completionVars, Inv, Types, ExitInv
<1>9. ASSUME NEW w \in Worker, Deactivate(w) PROVE ExitInv'
  BY <1>9 DEF Deactivate, Goto, queueVars, Inv, Types, ExitInv
<1>10. ASSUME NEW w \in Worker, NotifyCompletion(w) PROVE ExitInv'
  BY <1>10 DEF NotifyCompletion, Goto, Notified, queueVars, completionVars, Inv, Types, ExitInv
<1>11. CASE Async
  <2>1. EnableFlag
    BY <1>11 DEF Async, Inv, Types
  <2> QED BY <1>11, <2>1 DEF Async, Inv, ExitInv
<1>12. CASE AsyncNotify
  BY <1>12 DEF AsyncNotify, NotifyOne, Wake, Sleeping, queueVars, completionVars, Inv, Types, ExitInv
<1>13. CASE CallWait
  BY <1>13 DEF CallWait, queueVars, completionVars, Inv, Types, ExitInv
<1>14. CASE CheckActiveThreads
  BY <1>14 DEF CheckActiveThreads, Busy, queueVars, Inv, Types, ExitInv
<1>15. CASE CheckQueue
  BY <1>15 DEF CheckQueue, queueVars, Inv, Types, ExitInv
<1>16. CASE Disable
  BY <1>16 DEF Disable, completionVars, Inv, Types, ExitInv
<1>17. CASE DisableNotify
  BY <1>17 DEF DisableNotify, NotifyAll, Wake, Sleeping, queueVars, completionVars, Inv, Types, ExitInv
<1>18. CASE Join
  BY <1>18 DEF Join, queueVars, completionVars, Inv, Types, ExitInv
<1>19. CASE SpuriousWakeUp
  BY <1>19 DEF SpuriousWakeUp, Wake, Sleeping, queueVars, completionVars, Inv, Types, ExitInv
<1> QED BY <1>1, <1>2, <1>3, <1>4, <1>5, <1>6, <1>7, <1>8, <1>9, <1>10, <1>11, <1>12, <1>13, <1>14, <1>15, <1>16, <1>17, <1>18, <1>19 DEF Next, LoopStep, OwnerStep

LEMMA NextTask == ASSUME Inv, Next PROVE TaskInv'
<1>1. ASSUME NEW w \in Worker, Sleep(w) PROVE TaskInv'
  <2>1. Popped' = Popped
    BY <1>1 DEF Sleep, queueVars, Popped
  <2>2. TasksTaken'
    BY <1>1, <2>1 DEF Sleep, Goto, queueVars, completionVars, Inv, TaskInv, TasksTaken
  <2>3. \A v \in Worker : task'[v] # 0 <=> pc'[v] \in Running
    BY <1>1 DEF Sleep, Goto, queueVars, completionVars, Inv, Types, TaskInv, Running
  <2> QED BY <2>2, <2>3 DEF TaskInv
<1>2. ASSUME NEW w \in Worker, ExitLoop(w) PROVE TaskInv'
  <2>1. Popped' = Popped
    BY <1>2 DEF ExitLoop, queueVars, Popped
  <2>2. TasksTaken'
    BY <1>2, <2>1 DEF ExitLoop, Goto, queueVars, completionVars, Inv, TaskInv, TasksTaken
  <2>3. \A v \in Worker : task'[v] # 0 <=> pc'[v] \in Running
    BY <1>2 DEF ExitLoop, Goto, queueVars, completionVars, Inv, Types, TaskInv, Running
  <2> QED BY <2>2, <2>3 DEF TaskInv
<1>3. ASSUME NEW w \in Worker, FindTask(w) PROVE TaskInv'
  <2>1. Popped' = Popped
    BY <1>3 DEF FindTask, Popped
  <2>2. TasksTaken'
    BY <1>3, <2>1 DEF FindTask, Goto, completionVars, Inv, TaskInv, TasksTaken
  <2>3. \A v \in Worker : task'[v] # 0 <=> pc'[v] \in Running
    BY <1>3 DEF FindTask, Goto, completionVars, Inv, Types, TaskInv, Running
  <2> QED BY <2>2, <2>3 DEF TaskInv
<1>4. ASSUME NEW w \in Worker, Activate(w) PROVE TaskInv'
  <2>1. Popped' = Popped
    BY <1>4 DEF Activate, queueVars, Popped
  <2>2. TasksTaken'
    BY <1>4, <2>1 DEF Activate, Goto, queueVars, Inv, TaskInv, TasksTaken
  <2>3. \A v \in Worker : task'[v] # 0 <=> pc'[v] \in Running
    BY <1>4 DEF Activate, Goto, queueVars, Inv, Types, TaskInv, Running
  <2> QED BY <2>2, <2>3 DEF TaskInv
<1>5. ASSUME NEW w \in Worker, PopTask(w) PROVE TaskInv'
  <2>1. Head(Tasks) = Popped + 1 /\ Popped' = Popped + 1
    BY <1>5, PopQueue
  <2>2. Popped \in Nat /\ task \in [Worker -> Nat]
    <3>1. Popped \in Nat
      BY PoppedType DEF Inv
    <3>2. task \in [Worker -> 0..MaxTasks]
      BY DEF Inv, Types
    <3> QED BY <3>1, <3>2, BoundsAssumption
  <2>3. /\ task' = [task EXCEPT ![w] = Popped + 1] /\ done' = done
        /\ pc' = [pc EXCEPT ![w] = "run"] /\ pc[w] = "pop"
        /\ DOMAIN pc = Worker /\ DOMAIN task = Worker
    BY <1>5, <2>1 DEF PopTask, Goto, Inv, Types
  <2>4. task[w] = 0
    BY <2>3 DEF Inv, TaskInv, Running
  <2>5. TasksTaken'
    <3>1. task'[w] = Popped + 1 /\ \A v \in Worker : v # w => task'[v] = task[v]
      BY <2>3
    <3>2. Taken(task, done, Popped)
      BY DEF Inv, TaskInv, TasksTaken
    <3>3. Taken(task', done, Popped + 1)
      BY <2>2, <2>4, <3>1, <3>2, TakenPop
    <3> QED BY <2>1, <2>3, <3>3 DEF TasksTaken
  <2>6. \A v \in Worker : task'[v] # 0 <=> pc'[v] \in Running
    <3>1. Popped + 1 # 0
      BY <2>2
    <3> QED BY <2>3, <3>1 DEF Inv, TaskInv, Running
  <2> QED BY <2>5, <2>6 DEF TaskInv
<1>6. ASSUME NEW w \in Worker, RunTask(w) PROVE TaskInv'
  <2>1. /\ task' = [task EXCEPT ![w] = 0] /\ done' = done \cup {task[w]}
        /\ pc' = [pc EXCEPT ![w] = "deactivate"] /\ pc[w] = "run"
        /\ DOMAIN pc = Worker /\ DOMAIN task = Worker
    BY <1>6 DEF RunTask, Goto, Inv, Types
  <2>2. Popped \in Nat /\ task \in [Worker -> Nat]
    <3>1. Popped \in Nat
      BY PoppedType DEF Inv
    <3>2. task \in [Worker -> 0..MaxTasks]
      BY DEF Inv, Types
    <3> QED BY <3>1, <3>2, BoundsAssumption
  <2>3. task[w] # 0
    BY <2>1 DEF Inv, TaskInv, Running
  <2>4. TasksTaken'
    <3>1. task'[w] = 0 /\ \A v \in Worker : v # w => task'[v] = task[v]
      BY <2>1
    <3>2. Taken(task, done, Popped)
      BY DEF Inv, TaskInv, TasksTaken
    <3>3. Taken(task', done \cup {task[w]}, Popped)
      BY <2>2, <2>3, <3>1, <3>2, TakenRun
    <3>4. Popped' = Popped
      BY <1>6 DEF RunTask, queueVars, Popped
    <3> QED BY <2>1, <3>3, <3>4 DEF TasksTaken
  <2>5. \A v \in Worker : task'[v] # 0 <=> pc'[v] \in Running
    BY <2>1 DEF Inv, TaskInv, Running
  <2> QED BY <2>4, <2>5 DEF TaskInv
<1>7. ASSUME NEW w \in Worker, AsyncFrom(w) PROVE TaskInv'
  <2>1. Popped' = Popped
    BY <1>7, PushQueue DEF AsyncFrom, Inv
  <2>2. TasksTaken'
    BY <1>7, <2>1 DEF AsyncFrom, Goto, Inv, TaskInv, TasksTaken
  <2>3. \A v \in Worker : task'[v] # 0 <=> pc'[v] \in Running
    BY <1>7 DEF AsyncFrom, Goto, Inv, Types, TaskInv, Running
  <2> QED BY <2>2, <2>3 DEF TaskInv
<1>8. ASSUME NEW w \in Worker, AsyncFromNotify(w) PROVE TaskInv'
  <2>1. Popped' = Popped
    BY <1>8 DEF AsyncFromNotify, queueVars, Popped
  <2>2. TasksTaken'
    BY <1>8, <2>1 DEF AsyncFromNotify, NotifyOne, Wake, Sleeping, queueVars, completionVars, Inv, TaskInv, TasksTaken
  <2>3. \A v \in Worker : task'[v] # 0 <=> pc'[v] \in Running
    BY <1>8 DEF AsyncFromNotify, NotifyOne, Wake, Sleeping, queueVars, completionVars, Inv, Types, TaskInv, Running
  <2> QED BY <2>2, <2>3 DEF TaskInv
<1>9. ASSUME NEW w \in Worker, Deactivate(w) PROVE TaskInv'
  <2>1. Popped' = Popped
    BY <1>9 DEF Deactivate, queueVars, Popped
  <2>2. TasksTaken'
    BY <1>9, <2>1 DEF Deactivate, Goto, queueVars, Inv, TaskInv, TasksTaken
  <2>3. \A v \in Worker : task'[v] # 0 <=> pc'[v] \in Running
    BY <1>9 DEF Deactivate, Goto, queueVars, Inv, Types, TaskInv, Running
  <2> QED BY <2>2, <2>3 DEF TaskInv
<1>10. ASSUME NEW w \in Worker, NotifyCompletion(w) PROVE TaskInv'
  <2>1. Popped' = Popped
    BY <1>10 DEF NotifyCompletion, queueVars, Popped
  <2>2. TasksTaken'
    BY <1>10, <2>1 DEF NotifyCompletion, Goto, Notified, queueVars, completionVars, Inv, TaskInv, TasksTaken
  <2>3. \A v \in Worker : task'[v] # 0 <=> pc'[v] \in Running
    BY <1>10 DEF NotifyCompletion, Goto, Notified, queueVars, completionVars, Inv, Types, TaskInv, Running
  <2> QED BY <2>2, <2>3 DEF TaskInv
<1>11. CASE Async
  <2>1. Popped' = Popped
    BY <1>11, PushQueue DEF Async, Inv
  <2>2. TasksTaken'
    BY <1>11, <2>1 DEF Async, Inv, TaskInv, TasksTaken
  <2>3. \A v \in Worker : task'[v] # 0 <=> pc'[v] \in Running
    BY <1>11 DEF Async, Inv, Types, TaskInv, Running
  <2> QED BY <2>2, <2>3 DEF TaskInv
<1>12. CASE AsyncNotify
  <2>1. Popped' = Popped
    BY <1>12 DEF AsyncNotify, queueVars, Popped
  <2>2. TasksTaken'
    BY <1>12, <2>1 DEF AsyncNotify, NotifyOne, Wake, Sleeping, queueVars, completionVars, Inv, TaskInv, TasksTaken
  <2>3. \A v \in Worker : task'[v] # 0 <=> pc'[v] \in Running
    BY <1>12 DEF AsyncNotify, NotifyOne, Wake, Sleeping, queueVars, completionVars, Inv, Types, TaskInv, Running
  <2> QED BY <2>2, <2>3 DEF TaskInv
<1>13. CASE CallWait
  <2>1. Popped' = Popped
    BY <1>13 DEF CallWait, queueVars, Popped
  <2>2. TasksTaken'
    BY <1>13, <2>1 DEF CallWait, queueVars, completionVars, Inv, TaskInv, TasksTaken
  <2>3. \A v \in Worker : task'[v] # 0 <=> pc'[v] \in Running
    BY <1>13 DEF CallWait, queueVars, completionVars, Inv, Types, TaskInv, Running
  <2> QED BY <2>2, <2>3 DEF TaskInv
<1>14. CASE CheckActiveThreads
  <2>1. Popped' = Popped
    BY <1>14 DEF CheckActiveThreads, queueVars, Popped
  <2>2. TasksTaken'
    BY <1>14, <2>1 DEF CheckActiveThreads, Busy, queueVars, Inv, TaskInv, TasksTaken
  <2>3. \A v \in Worker : task'[v] # 0 <=> pc'[v] \in Running
    BY <1>14 DEF CheckActiveThreads, Busy, queueVars, Inv, Types, TaskInv, Running
  <2> QED BY <2>2, <2>3 DEF TaskInv
<1>15. CASE CheckQueue
  <2>1. Popped' = Popped
    BY <1>15 DEF CheckQueue, queueVars, Popped
  <2>2. TasksTaken'
    BY <1>15, <2>1 DEF CheckQueue, queueVars, Inv, TaskInv, TasksTaken
  <2>3. \A v \in Worker : task'[v] # 0 <=> pc'[v] \in Running
    BY <1>15 DEF CheckQueue, queueVars, Inv, Types, TaskInv, Running
  <2> QED BY <2>2, <2>3 DEF TaskInv
<1>16. CASE Disable
  <2>1. Popped' = Popped
    BY <1>16 DEF Disable, Popped
  <2>2. TasksTaken'
    BY <1>16, <2>1 DEF Disable, completionVars, Inv, TaskInv, TasksTaken
  <2>3. \A v \in Worker : task'[v] # 0 <=> pc'[v] \in Running
    BY <1>16 DEF Disable, completionVars, Inv, Types, TaskInv, Running
  <2> QED BY <2>2, <2>3 DEF TaskInv
<1>17. CASE DisableNotify
  <2>1. Popped' = Popped
    BY <1>17 DEF DisableNotify, queueVars, Popped
  <2>2. TasksTaken'
    BY <1>17, <2>1 DEF DisableNotify, NotifyAll, Wake, Sleeping, queueVars, completionVars, Inv, TaskInv, TasksTaken
  <2>3. \A v \in Worker : task'[v] # 0 <=> pc'[v] \in Running
    BY <1>17 DEF DisableNotify, NotifyAll, Wake, Sleeping, queueVars, completionVars, Inv, Types, TaskInv, Running
  <2> QED BY <2>2, <2>3 DEF TaskInv
<1>18. CASE Join
  <2>1. Popped' = Popped
    BY <1>18 DEF Join, queueVars, Popped
  <2>2. TasksTaken'
    BY <1>18, <2>1 DEF Join, queueVars, completionVars, Inv, TaskInv, TasksTaken
  <2>3. \A v \in Worker : task'[v] # 0 <=> pc'[v] \in Running
    BY <1>18 DEF Join, queueVars, completionVars, Inv, Types, TaskInv, Running
  <2> QED BY <2>2, <2>3 DEF TaskInv
<1>19. CASE SpuriousWakeUp
  <2>1. Popped' = Popped
    BY <1>19 DEF SpuriousWakeUp, queueVars, Popped
  <2>2. TasksTaken'
    BY <1>19, <2>1 DEF SpuriousWakeUp, Wake, Sleeping, queueVars, completionVars, Inv, TaskInv, TasksTaken
  <2>3. \A v \in Worker : task'[v] # 0 <=> pc'[v] \in Running
    BY <1>19 DEF SpuriousWakeUp, Wake, Sleeping, queueVars, completionVars, Inv, Types, TaskInv, Running
  <2> QED BY <2>2, <2>3 DEF TaskInv
<1> QED BY <1>1, <1>2, <1>3, <1>4, <1>5, <1>6, <1>7, <1>8, <1>9, <1>10, <1>11, <1>12, <1>13, <1>14, <1>15, <1>16, <1>17, <1>18, <1>19 DEF Next, LoopStep, OwnerStep

LEMMA NextInv == Inv /\ [Next]_vars => Inv'
<1> SUFFICES ASSUME Inv, [Next]_vars PROVE Inv'
  OBVIOUS
<1>1. CASE Next
  BY <1>1, NextTypes, NextLock, NextActive, NextExit, NextTask DEF Inv
<1>2. CASE UNCHANGED vars
  BY <1>2 DEF vars, queueVars, completionVars, Inv, Types, QueueNumbered, LockInv, ActiveInv, Count, ExitInv, TaskInv, TasksTaken, Popped
<1> QED BY <1>1, <1>2

LEMMA InvCorrect == Spec => []Inv
BY InitInv, NextInv, PTL DEF Spec

-----------------------------------------------------------------------------
(* What the run ThreadPool checks of the states follows.                   *)

\* Every reachable state of the pool has the types and the agreements of
\* TypeOK: the lock has its holder, the counter counts, the queue is in order.
THEOREM TypeCorrect == Spec => []TypeOK
<1>1. Inv => TypeOK
  <2> SUFFICES ASSUME Inv PROVE TypeOK
    OBVIOUS
  <2>1. /\ submitted \in 0..MaxTasks /\ Len(Tasks) <= submitted
        /\ Tasks = [i \in 1..Len(Tasks) |-> Popped + i]
    <3>1. /\ Tasks \in Seq(Nat) /\ Len(Tasks) <= submitted
          /\ \A i \in 1..Len(Tasks) : Tasks[i] = (submitted - Len(Tasks)) + i
      BY DEF Inv, Types, QueueNumbered, Numbered
    <3>2. Tasks = [i \in 1..Len(Tasks) |-> Tasks[i]]
      BY <3>1, LenProperties
    <3> QED BY <3>1, <3>2 DEF Popped, Inv, Types
  <2>2. CompletionLock = (owner = "wait queue")
    BY Zenon DEF Inv, Types
  <2>3. /\ EnableFlag \in BOOLEAN /\ spurious \in 0..MaxSpurious
        /\ EnableFlag <=> owner \notin {"close notify", "join", "destroyed"}
        /\ pc \in [Worker -> Places] /\ task \in [Worker -> 0..MaxTasks]
        /\ owner \in OwnerPlaces
    BY DEF Inv, Types
  <2>4. ActiveThreads = Cardinality(At({"pop", "run", "run notify", "deactivate"}))
    BY DEF Inv, ActiveInv, Count, Active, At
  <2>5. /\ \A w \in Worker : task[w] # 0 <=> pc[w] \in {"run", "run notify"}
        /\ done \subseteq 1..Popped
    BY DEF Inv, TaskInv, TasksTaken, Taken, Running
  <2> QED BY <2>1, <2>2, <2>3, <2>4, <2>5 DEF TypeOK, Inv, LockInv, Places, OwnerPlaces
<1> QED BY <1>1, InvCorrect, PTL

\* wait() reads the queue without the queue's lock, and no worker can be about
\* to change it: none is active, and the lock it would need is held.
THEOREM NoTasksRaceCorrect == Spec => []NoTasksRace
<1>1. Inv => NoTasksRace
  <2> SUFFICES ASSUME Inv, owner = "wait queue" PROVE At({"pop"}) = {}
    BY DEF NoTasksRace
  <2>1. Count(pc, Active) = 0
    BY DEF Inv, ActiveInv
  <2>2. \A w \in Worker : pc[w] \notin Active
    BY <2>1, CountType
  <2> QED BY <2>2 DEF At, Active
<1> QED BY <1>1, InvCorrect, PTL

Ready == {"look", "activate", "pop", "run notify"}

Announced == IF owner = "async notify" THEN 1 ELSE 0

LEMMA ReadyType ==
  ASSUME Inv
  PROVE  Len(Tasks) \in Nat /\ Count(pc, Ready) \in Nat /\ Announced \in Nat
BY PoppedType, CountType DEF Inv, Announced

\* No step makes room smaller than the queue: what it adds to the queue it
\* adds to the threads on their way, unless nobody sleeps after it.
LEMMA NextIdle ==
  ASSUME Inv, Inv', NoIdleThread, Next
  PROVE  NoIdleThread'
<1> DEFINE Room == Sleeping # {} => Len(Tasks) <= Count(pc, Ready) + Announced
<1>1. Room
  BY DEF NoIdleThread, Count, Ready, At, Announced
<1>2. /\ Len(Tasks) \in Nat /\ Count(pc, Ready) \in Nat /\ Announced \in Nat
      /\ Len(Tasks') \in Nat /\ Count(pc', Ready) \in Nat /\ Announced' \in Nat
  <2>1. Len(Tasks) \in Nat /\ Count(pc, Ready) \in Nat /\ Announced \in Nat
    BY ReadyType
  <2>2. Len(Tasks') \in Nat
    <3>1. Tasks' \in Seq(Nat)
      BY DEF Inv, Types, QueueNumbered, Numbered
    <3> QED BY <3>1, LenProperties
  <2>3. Count(pc', Ready) \in Nat
    BY CountType
  <2> QED BY <2>1, <2>2, <2>3 DEF Announced
<1>3. SUFFICES Room'
  BY DEF NoIdleThread, Count, Ready, At, Announced
<1>4. ASSUME Sleeping' # {} => Sleeping # {}, Len(Tasks') = Len(Tasks), Announced' = Announced,
             \A w \in Worker : pc[w] \in Ready <=> pc'[w] \in Ready
      PROVE  Room'
  BY <1>1, <1>4, CountSame
<1>5. ASSUME Sleeping' # {} => Sleeping # {}, Len(Tasks') = Len(Tasks), Announced' = Announced,
             Count(pc', Ready) = Count(pc, Ready) + 1
      PROVE  Room'
  <2>1. \A n, c, a \in Nat : n <= c + a => n <= (c + 1) + a
    OBVIOUS
  <2> QED BY <1>1, <1>2, <1>5, <2>1, Zenon
<1>6. ASSUME Tasks' = <<>> PROVE Room'
  <2>1. Len(Tasks') = 0
    BY <1>6, NumberedEmpty
  <2>2. \A c, a \in Nat : 0 <= c + a
    OBVIOUS
  <2> QED BY <1>2, <2>1, <2>2, Zenon
<1>7. ASSUME NEW w \in Worker, Sleep(w) PROVE Room'
  BY <1>7, <1>6 DEF Sleep, HasWork, queueVars
<1>8. ASSUME NEW w \in Worker, ExitLoop(w) PROVE Room'
  BY <1>8, <1>6 DEF ExitLoop, MayExit, queueVars
<1>9. ASSUME NEW w \in Worker, FindTask(w) PROVE Room'
  BY <1>9, <1>4 DEF FindTask, Goto, completionVars, Inv, Types, Sleeping, Announced, Ready
<1>10. ASSUME NEW w \in Worker, Activate(w) PROVE Room'
  BY <1>10, <1>4 DEF Activate, Goto, queueVars, Inv, Types, Sleeping, Announced, Ready
<1>11. ASSUME NEW w \in Worker, PopTask(w) PROVE Room'
  <2>1. /\ pc[w] \in Ready /\ pc'[w] \notin Ready
        /\ \A v \in Worker : v # w => (pc[v] \in Ready <=> pc'[v] \in Ready)
        /\ Sleeping' = Sleeping /\ Announced' = Announced
    BY <1>11 DEF PopTask, Goto, Inv, Types, Ready, Sleeping, Announced
  <2>2. Count(pc', Ready) = Count(pc, Ready) - 1
    BY <2>1, CountLeave
  <2>3. Len(Tasks') = Len(Tasks) - 1
    <3>1. Numbered(Tasks, submitted) /\ Tasks # <<>> /\ submitted \in Nat
      BY <1>11, PoppedType, WorkerAssumption DEF Inv, Types, QueueNumbered, LockInv, PopTask
    <3>2. Len(Tail(Tasks)) = Len(Tasks) - 1
      BY <3>1, NumberedPop
    <3> QED BY <1>11, <3>2 DEF PopTask
  <2>4. \A n, c, a \in Nat : n <= c + a => n - 1 <= (c - 1) + a
    OBVIOUS
  <2> QED BY <1>1, <1>2, <2>1, <2>2, <2>3, <2>4, Zenon
<1>12. ASSUME NEW w \in Worker, RunTask(w) PROVE Room'
  BY <1>12, <1>4 DEF RunTask, Goto, queueVars, completionVars, Inv, Types, Sleeping, Announced, Ready
<1>13. ASSUME NEW w \in Worker, AsyncFrom(w) PROVE Room'
  <2>1. /\ pc[w] \notin Ready /\ pc'[w] \in Ready
        /\ \A v \in Worker : v # w => (pc[v] \in Ready <=> pc'[v] \in Ready)
        /\ Sleeping' = Sleeping /\ Announced' = Announced
    BY <1>13 DEF AsyncFrom, Goto, Inv, Types, Ready, Sleeping, Announced
  <2>2. Count(pc', Ready) = Count(pc, Ready) + 1
    BY <2>1, CountEnter
  <2>3. Len(Tasks') = Len(Tasks) + 1
    BY <1>13, PushLen DEF AsyncFrom
  <2>4. \A n, c, a \in Nat : n <= c + a => n + 1 <= (c + 1) + a
    OBVIOUS
  <2> QED BY <1>1, <1>2, <2>1, <2>2, <2>3, <2>4, Zenon
<1>14. ASSUME NEW w \in Worker, AsyncFromNotify(w) PROVE Room'
  <2> DEFINE p == [pc EXCEPT ![w] = "run"]
  <2>1. /\ pc[w] = "run notify" /\ NotifyOne(p)
        /\ Tasks' = Tasks /\ Announced' = Announced
    BY <1>14 DEF AsyncFromNotify, queueVars, Announced
  <2>2. p \in [Worker -> Places] /\ p[w] = "run" /\ \A v \in Worker : v # w => p[v] = pc[v]
    BY DEF Inv, Types, Places
  <2>3. CASE Sleeping = {}
    <3>1. pc' = p
      BY <2>1, <2>3 DEF NotifyOne
    <3>2. Sleeping' = {}
      BY <2>2, <2>3, <3>1 DEF Sleeping
    <3> QED BY <3>2
  <2>4. CASE Sleeping # {}
    <3>1. PICK v \in Sleeping : Wake({v}, p)
      BY <2>1, <2>4 DEF NotifyOne
    <3>2. /\ v \in Worker /\ v # w /\ pc[v] = "asleep"
          /\ pc'[v] = "look" /\ \A x \in Worker : x # v => pc'[x] = p[x]
      BY <2>1, <3>1 DEF Sleeping, Wake
    <3>3. Count(p, Ready) = Count(pc, Ready) - 1
      <4>1. /\ pc[w] \in Ready /\ p[w] \notin Ready
            /\ \A x \in Worker : x # w => (pc[x] \in Ready <=> p[x] \in Ready)
        BY <2>1, <2>2 DEF Ready
      <4> HIDE DEF p
      <4> QED BY <4>1, CountLeave
    <3>4. Count(pc', Ready) = Count(p, Ready) + 1
      <4>1. /\ p[v] \notin Ready /\ pc'[v] \in Ready
            /\ \A x \in Worker : x # v => (p[x] \in Ready <=> pc'[x] \in Ready)
        BY <2>2, <3>2 DEF Ready
      <4> HIDE DEF p
      <4> QED BY <3>2, <4>1, CountEnter
    <3> HIDE DEF p
    <3>5. \A n, c, a, d, e \in Nat : n <= c + a /\ d = c - 1 /\ e = d + 1 => n <= e + a
      OBVIOUS
    <3>6. Count(p, Ready) \in Nat
      BY CountType
    <3> QED BY <1>1, <1>2, <2>1, <2>4, <3>3, <3>4, <3>5, <3>6, Zenon
  <2> QED BY <2>3, <2>4
<1>15. ASSUME NEW w \in Worker, Deactivate(w) PROVE Room'
  BY <1>15, <1>4 DEF Deactivate, Goto, queueVars, Inv, Types, Sleeping, Announced, Ready
<1>16. ASSUME NEW w \in Worker, NotifyCompletion(w) PROVE Room'
  <2>1. /\ pc[w] \notin Ready /\ pc'[w] \in Ready
        /\ \A v \in Worker : v # w => (pc[v] \in Ready <=> pc'[v] \in Ready)
        /\ Sleeping' = Sleeping /\ Announced' = Announced /\ Tasks' = Tasks
    BY <1>16 DEF NotifyCompletion, Notified, queueVars, Goto, Inv, Types, Ready, Sleeping, Announced
  <2>2. Count(pc', Ready) = Count(pc, Ready) + 1
    BY <2>1, CountEnter
  <2> QED BY <1>5, <2>1, <2>2
<1>17. CASE Async
  <2>1. pc' = pc /\ Announced = 0 /\ Announced' = 1
    BY <1>17 DEF Async, Announced
  <2>2. Len(Tasks') = Len(Tasks) + 1
    BY <1>17, PushLen DEF Async
  <2>3. \A n, c \in Nat : n <= c + 0 => n + 1 <= c + 1
    OBVIOUS
  <2> QED BY <1>1, <1>2, <2>1, <2>2, <2>3 DEF Sleeping
<1>18. CASE AsyncNotify
  <2>1. NotifyOne(pc) /\ Tasks' = Tasks /\ Announced = 1 /\ Announced' = 0
    BY <1>18 DEF AsyncNotify, queueVars, Announced
  <2>2. CASE Sleeping = {}
    BY <2>1, <2>2 DEF NotifyOne, Sleeping
  <2>3. CASE Sleeping # {}
    <3>1. PICK v \in Sleeping : Wake({v}, pc)
      BY <2>1, <2>3 DEF NotifyOne
    <3>2. /\ v \in Worker /\ pc[v] \notin Ready /\ pc'[v] \in Ready
          /\ \A x \in Worker : x # v => (pc[x] \in Ready <=> pc'[x] \in Ready)
      BY <3>1 DEF Sleeping, Wake, Ready
    <3>3. Count(pc', Ready) = Count(pc, Ready) + 1
      BY <3>2, CountEnter
    <3>4. \A n, c \in Nat : n <= c + 1 => n <= (c + 1) + 0
      OBVIOUS
    <3> QED BY <1>1, <1>2, <2>1, <2>3, <3>3, <3>4, Zenon
  <2> QED BY <2>2, <2>3
<1>19. CASE CallWait
  BY <1>19, <1>4 DEF CallWait, queueVars, completionVars, Inv, Types, Sleeping, Announced, Ready
<1>20. CASE CheckActiveThreads
  BY <1>20, <1>4 DEF CheckActiveThreads, queueVars, Inv, Types, Sleeping, Announced, Ready
<1>21. CASE CheckQueue
  BY <1>21, <1>4 DEF CheckQueue, queueVars, Inv, Types, Sleeping, Announced, Ready
<1>22. CASE Disable
  BY <1>22, <1>4 DEF Disable, completionVars, Inv, Types, Sleeping, Announced, Ready
<1>23. CASE DisableNotify
  BY <1>23 DEF DisableNotify, NotifyAll, Wake, Sleeping
<1>24. CASE Join
  BY <1>24, <1>4 DEF Join, queueVars, completionVars, Inv, Types, Sleeping, Announced, Ready
<1>25. CASE SpuriousWakeUp
  <2>1. CASE UNCHANGED pc
    BY <1>25, <2>1, <1>4 DEF SpuriousWakeUp, queueVars, Sleeping, Announced
  <2>2. CASE \E w \in Sleeping : Wake({w}, pc) /\ UNCHANGED owner
    <3>1. PICK v \in Sleeping : Wake({v}, pc) /\ UNCHANGED owner
      BY <2>2
    <3>2. /\ v \in Worker /\ pc[v] \notin Ready /\ pc'[v] \in Ready
          /\ \A x \in Worker : x # v => (pc[x] \in Ready <=> pc'[x] \in Ready)
      BY <3>1 DEF Sleeping, Wake, Ready
    <3>3. Count(pc', Ready) = Count(pc, Ready) + 1
      BY <3>2, CountEnter
    <3>4. Sleeping # {} /\ Tasks' = Tasks /\ Announced' = Announced
      BY <1>25, <3>1 DEF SpuriousWakeUp, queueVars, Announced
    <3> QED BY <1>5, <3>3, <3>4
  <2> QED BY <1>25, <2>1, <2>2 DEF SpuriousWakeUp
<1> QED BY <1>7, <1>8, <1>9, <1>10, <1>11, <1>12, <1>13, <1>14, <1>15, <1>16, <1>17, <1>18, <1>19, <1>20, <1>21, <1>22, <1>23, <1>24, <1>25 DEF Next, LoopStep, OwnerStep

\* No task waits for a busy thread while an idle one sleeps, however many
\* threads wake, sleep and submit at the same time: one signal per task.
THEOREM NoIdleThreadCorrect == Spec => []NoIdleThread
<1>1. Init => NoIdleThread
  BY DEF Init, NoIdleThread, Sleeping
<1>2. Inv /\ Inv' /\ NoIdleThread /\ [Next]_vars => NoIdleThread'
  <2> SUFFICES ASSUME Inv, Inv', NoIdleThread, [Next]_vars PROVE NoIdleThread'
    OBVIOUS
  <2>1. CASE Next
    BY <2>1, NextIdle
  <2>2. CASE UNCHANGED vars
    BY <2>2 DEF vars, queueVars, NoIdleThread, Sleeping, At
  <2> QED BY <2>1, <2>2
<1> QED BY <1>1, <1>2, InvCorrect, PTL DEF Spec

-----------------------------------------------------------------------------
(* The refinement of the executor, step by step.                           *)

RunningTasks == {task[w] : w \in At({"run", "run notify"})}

OwnerView == CASE owner \in {"free", "async notify"} -> "free"
               [] owner \in {"wait", "wait asleep", "wait queue"} -> "waiting"
               [] owner \in {"close notify", "join"} -> "closing"
               [] OTHER -> "closed"

LEMMA ViewType ==
  ASSUME owner \in OwnerPlaces
  PROVE  /\ owner \in {"free", "async notify"} => OwnerView = "free"
         /\ owner \in {"wait", "wait asleep", "wait queue"} => OwnerView = "waiting"
         /\ owner \in {"close notify", "join"} => OwnerView = "closing"
         /\ owner = "destroyed" => OwnerView = "closed"
BY DEF OwnerPlaces, OwnerView

\* The tasks that run are those the workers have; with the finished ones
\* they are the tasks taken from the queue.
LEMMA RunningType ==
  ASSUME Inv
  PROVE  /\ \A t : t \in RunningTasks <=> \E w \in Worker : task[w] = t /\ t # 0
         /\ RunningTasks \cup done = 1..Popped
<1>1. ASSUME NEW t PROVE t \in RunningTasks <=> \E w \in Worker : task[w] = t /\ t # 0
  BY DEF RunningTasks, At, Inv, TaskInv, Running
<1>2. Popped \in Nat /\ task \in [Worker -> Nat]
  <2>1. Popped \in Nat
    BY PoppedType DEF Inv
  <2>2. task \in [Worker -> 0..MaxTasks]
    BY DEF Inv, Types
  <2> QED BY <2>1, <2>2, BoundsAssumption
<1>3. /\ \A w \in Worker : task[w] # 0 => task[w] \in 1..Popped
      /\ done \subseteq 1..Popped
      /\ \A t \in 1..Popped : t \in done \/ \E w \in Worker : task[w] = t
  <2>1. Taken(task, done, Popped)
    BY DEF Inv, TaskInv, TasksTaken
  <2>2. ASSUME NEW w \in Worker, task[w] # 0 PROVE task[w] \in 1..Popped
    <3>1. task[w] \in Nat /\ task[w] <= Popped
      BY <1>2, <2>1 DEF Taken
    <3>2. \A t, n \in Nat : t <= n /\ t # 0 => t \in 1..n
      OBVIOUS
    <3> QED BY <1>2, <2>2, <3>1, <3>2, Zenon
  <2> QED BY <2>1, <2>2 DEF Taken
<1>4. 0 \notin 1..Popped
  <2>1. \A n \in Nat : 0 \notin 1..n
    OBVIOUS
  <2> QED BY <1>2, <2>1, Zenon
<1> QED BY <1>1, <1>3, <1>4, Zenon

\* The same tasks run when no worker comes to a task or leaves one.
LEMMA RunningSame ==
  ASSUME Inv, task' = task, \A w \in Worker : pc'[w] \in Running <=> pc[w] \in Running
  PROVE  RunningTasks' = RunningTasks
BY DEF RunningTasks, At, Running

\* With no worker running and an empty queue, every submitted task is done.
LEMMA AllDoneWhenIdle ==
  ASSUME Inv, Tasks = <<>>, \A w \in Worker : pc[w] \notin Running
  PROVE  done = 1..submitted
<1>1. RunningTasks = {}
  BY DEF RunningTasks, At, Running
<1>2. Popped = submitted
  <2>1. Len(Tasks) = 0 /\ submitted \in Nat
    BY NumberedEmpty, PoppedType DEF Inv
  <2> QED BY <2>1 DEF Popped
<1> QED BY <1>1, <1>2, RunningType

LEMMA ExecutorInit == Init => Executor!Init
BY DEF Init, Executor!Init, At

LEMMA SameCardinality == \A S : Executor!Cardinality(S) = Cardinality(S)
BY DEF Executor!Cardinality, Cardinality

LEMMA PopIsStart ==
  ASSUME Inv, NEW w \in Worker, PopTask(w)
  PROVE  Executor!Start
<1>1. /\ task' = [task EXCEPT ![w] = Popped + 1] /\ done' = done /\ owner' = owner
      /\ pc' = [pc EXCEPT ![w] = "run"] /\ pc[w] = "pop" /\ submitted' = submitted
      /\ pc \in [Worker -> Places] /\ DOMAIN task = Worker
  BY PopQueue DEF PopTask, Goto, Inv, Types
<1>2. Popped \in Nat /\ Len(Tasks) \in Nat /\ submitted \in Nat
  BY PoppedType DEF Inv
<1>3. Cardinality(RunningTasks \cup done) = Popped
  <2>1. \A n \in Nat : Cardinality(1..n) = n
    <3> TAKE n \in Nat
    <3>1. Cardinality(1..n) = IF 1 > n THEN 0 ELSE n - 1 + 1
      BY FS_Interval
    <3> QED BY <3>1
  <2> QED BY <1>2, <2>1, RunningType, Zenon
<1>4. Popped + 1 <= submitted
  <2>1. Tasks # <<>> /\ Numbered(Tasks, submitted)
    BY WorkerAssumption DEF Inv, Types, QueueNumbered, LockInv, PopTask
  <2>2. Len(Tasks) >= 1
    BY <1>2, <2>1, NumberedPop
  <2> QED BY <1>2, <2>2 DEF Popped
<1>5. Cardinality(RunningTasks) < Cardinality(Worker)
  <2> DEFINE R == At({"run", "run notify"})
             f == [v \in R |-> task[v]]
  <2>1. IsFiniteSet(R) /\ R \subseteq Worker \ {w} /\ IsFiniteSet(Worker \ {w})
    BY <1>1, WorkerAssumption, FS_Subset, FS_RemoveElement DEF At
  <2>2. f \in Surjection(R, RunningTasks)
    <3>1. f \in [R -> RunningTasks] /\ \A t \in RunningTasks : \E v \in R : f[v] = t
      BY DEF RunningTasks
    <3> HIDE DEF f, R
    <3> QED BY <3>1, Fun_IsSurj
  <2>3. IsFiniteSet(RunningTasks) /\ Cardinality(RunningTasks) <= Cardinality(R)
    <3> HIDE DEF f, R
    <3> QED BY <2>1, <2>2, FS_Surjection
  <2>4. Cardinality(R) <= Cardinality(Worker \ {w})
    BY <2>1, FS_Subset
  <2>5. Cardinality(Worker \ {w}) = Cardinality(Worker) - 1
    BY WorkerAssumption, FS_RemoveElement
  <2>6. /\ Cardinality(Worker) \in Nat /\ Cardinality(R) \in Nat
        /\ Cardinality(RunningTasks) \in Nat
    BY <2>1, <2>3, WorkerAssumption, FS_CardinalityType
  <2>7. \A a, b, c \in Nat : a <= b /\ b <= c - 1 => a < c
    OBVIOUS
  <2> QED BY <2>2, <2>3, <2>4, <2>5, <2>6, <2>7
<1>6. RunningTasks' = RunningTasks \cup {Popped + 1}
  <2>1. task[w] = 0 /\ pc[w] \notin Running
    BY <1>1 DEF Inv, TaskInv, Running
  <2>2. \A v \in Worker : v # w => (pc'[v] \in Running <=> pc[v] \in Running)
    BY <1>1
  <2>3. pc'[w] \in Running /\ task'[w] = Popped + 1 /\ \A v \in Worker : v # w => task'[v] = task[v]
    BY <1>1 DEF Running
  <2> QED BY <2>1, <2>2, <2>3 DEF RunningTasks, At, Running
<1>7. Executor!Cardinality(RunningTasks \cup done) = Popped
      /\ Executor!Cardinality(RunningTasks) < Cardinality(Worker)
  BY <1>3, <1>5, SameCardinality
<1> QED BY <1>1, <1>4, <1>6, <1>7 DEF Executor!Start, RunningTasks


LEMMA RunIsFinish ==
  ASSUME Inv, NEW w \in Worker, RunTask(w)
  PROVE  \E t \in 1..MaxTasks : Executor!Finish(t)
<1>1. /\ task' = [task EXCEPT ![w] = 0] /\ done' = done \cup {task[w]} /\ owner' = owner
      /\ pc' = [pc EXCEPT ![w] = "deactivate"] /\ pc[w] = "run" /\ submitted' = submitted
      /\ DOMAIN pc = Worker /\ DOMAIN task = Worker
  BY DEF RunTask, Goto, queueVars, Inv, Types
<1>2. task[w] # 0 /\ \A v \in Worker : v # w /\ task[v] # 0 => task[v] # task[w]
  BY <1>1 DEF Inv, TaskInv, Running, TasksTaken, Taken
<1>3. task[w] \in 1..MaxTasks
  <2>1. task[w] \in 0..MaxTasks
    BY DEF Inv, Types
  <2> QED BY <1>2, <2>1, BoundsAssumption
<1>4. RunningTasks' = RunningTasks \ {task[w]} /\ task[w] \in RunningTasks
  <2>1. \A v \in Worker : v # w => task'[v] = task[v] /\ pc'[v] = pc[v]
    BY <1>1
  <2>2. pc'[w] \notin Running /\ pc[w] \in Running
    BY <1>1 DEF Running
  <2>3. \A v \in Worker : pc[v] \in Running => task[v] # 0
    BY DEF Inv, TaskInv
  <2>4. \A v \in Worker : v # w /\ pc[v] \in Running => task[v] # task[w]
    BY <1>2, <2>3
  <2> QED BY <2>1, <2>2, <2>4 DEF RunningTasks, At, Running
<1>5. PICK t \in 1..MaxTasks : t = task[w]
  BY <1>3
<1>6. Executor!Finish(t)
  BY <1>1, <1>4, <1>5 DEF Executor!Finish, RunningTasks
<1> QED BY <1>6

LEMMA PushIsSubmit ==
  ASSUME Inv, Async \/ \E w \in Worker : EnableFlag /\ AsyncFrom(w)
  PROVE  Executor!Submit
<1>1. submitted' = submitted + 1 /\ submitted < MaxTasks /\ task' = task /\ done' = done
  BY DEF Async, AsyncFrom, Push
<1>2. RunningTasks' = RunningTasks
  <2>1. \A w \in Worker : pc'[w] \in Running <=> pc[w] \in Running
    BY DEF Async, AsyncFrom, Goto, Running, Inv, Types
  <2> QED BY <1>1, <2>1, RunningSame
<1>3. OwnerView' = OwnerView
  BY DEF Async, AsyncFrom, OwnerView
<1>4. OwnerView = "free" \/ (OwnerView = "waiting" /\ RunningTasks # {})
  <2>1. CASE Async
    BY <2>1 DEF Async, OwnerView
  <2>2. CASE \E w \in Worker : EnableFlag /\ AsyncFrom(w)
    <3>1. PICK w \in Worker : EnableFlag /\ AsyncFrom(w)
      BY <2>2
    <3>2. task[w] \in RunningTasks
      BY <3>1 DEF AsyncFrom, RunningTasks, At
    <3>3. OwnerView \in {"free", "waiting"}
      <4>1. /\ owner \in {"free", "async notify", "wait", "wait asleep", "wait queue"}
            /\ owner \in OwnerPlaces
        BY <3>1 DEF Inv, Types, OwnerPlaces
      <4> QED BY <4>1, ViewType
    <3> QED BY <3>2, <3>3
  <2> QED BY <2>1, <2>2
<1> QED BY <1>1, <1>2, <1>3, <1>4 DEF Executor!Submit, RunningTasks, OwnerView

\* What the executor sees stays when the owner goes from view to view.
LEMMA OwnerFrame ==
  ASSUME Inv, pc' = pc, task' = task, done' = done, submitted' = submitted
  PROVE  RunningTasks' = RunningTasks
BY DEF RunningTasks, At

LEMMA CallIsBegin ==
  ASSUME Inv, CallWait \/ Disable
  PROVE  \E what \in {"waiting", "closing"} : Executor!Begin(what)
<1>1. /\ submitted' = submitted /\ done' = done /\ RunningTasks' = RunningTasks
      /\ OwnerView = "free"
  BY OwnerFrame DEF CallWait, Disable, queueVars, OwnerView
<1>2. CASE CallWait
  <2>1. OwnerView' = "waiting"
    BY <1>2 DEF CallWait, OwnerView
  <2> QED BY <1>1, <2>1 DEF Executor!Begin, RunningTasks, OwnerView
<1>3. CASE Disable
  <2>1. OwnerView' = "closing"
    BY <1>3 DEF Disable, OwnerView
  <2> QED BY <1>1, <2>1 DEF Executor!Begin, RunningTasks, OwnerView
<1> QED BY <1>2, <1>3

\* wait() returns, and the destructor, when every submitted task has run.
LEMMA ReturnIsEnd ==
  ASSUME Inv, (CheckQueue /\ Tasks = <<>>) \/ Join
  PROVE  Executor!End
<1>1. submitted' = submitted /\ done' = done /\ RunningTasks' = RunningTasks
  BY OwnerFrame DEF CheckQueue, Join, queueVars
<1>2. CASE CheckQueue /\ Tasks = <<>>
  <2>1. Count(pc, Active) = 0
    BY <1>2 DEF CheckQueue, Inv, ActiveInv
  <2>2. \A w \in Worker : pc[w] \notin Running
    <3>1. \A w \in Worker : pc[w] \notin Active
      BY <2>1, CountType
    <3> QED BY <3>1 DEF Active, Running
  <2>3. done = 1..submitted
    BY <1>2, <2>2, AllDoneWhenIdle
  <2>4. OwnerView = "waiting" /\ OwnerView' = "free"
    BY <1>2 DEF CheckQueue, OwnerView
  <2> QED BY <1>1, <2>3, <2>4 DEF Executor!End, Executor!AllDone, RunningTasks, OwnerView
<1>3. CASE Join
  <2>1. \A w \in Worker : pc[w] \notin Running
    BY <1>3 DEF Join, Running
  <2>2. Tasks = <<>>
    BY <1>3, WorkerAssumption DEF Join, Inv, ExitInv
  <2>3. done = 1..submitted
    BY <2>1, <2>2, AllDoneWhenIdle
  <2>4. OwnerView = "closing" /\ OwnerView' = "closed"
    BY <1>3 DEF Join, OwnerView
  <2> QED BY <1>1, <2>3, <2>4 DEF Executor!End, Executor!AllDone, RunningTasks, OwnerView
<1> QED BY <1>2, <1>3

View == <<submitted, RunningTasks, done, OwnerView>>

LEMMA SameView ==
  ASSUME Inv, submitted' = submitted, task' = task, done' = done, OwnerView' = OwnerView,
         \A w \in Worker : pc'[w] \in Running <=> pc[w] \in Running
  PROVE  UNCHANGED View
BY RunningSame DEF View

\* Every step of the pool is a step of the executor, or one it does not see.
LEMMA NextExecutor ==
  ASSUME Inv, Next
  PROVE  Executor!Next \/ UNCHANGED View
<1>1. ASSUME NEW w \in Worker, Sleep(w) PROVE Executor!Next \/ UNCHANGED View
  <2>1. /\ submitted' = submitted /\ task' = task /\ done' = done
        /\ \A v \in Worker : pc'[v] \in Running <=> pc[v] \in Running
    BY <1>1 DEF Sleep, Goto, queueVars, Running, Inv, Types
  <2>2. OwnerView' = OwnerView
    BY <1>1 DEF Sleep, OwnerView
  <2> QED BY <2>1, <2>2, SameView
<1>2. ASSUME NEW w \in Worker, ExitLoop(w) PROVE Executor!Next \/ UNCHANGED View
  <2>1. /\ submitted' = submitted /\ task' = task /\ done' = done
        /\ \A v \in Worker : pc'[v] \in Running <=> pc[v] \in Running
    BY <1>2 DEF ExitLoop, Goto, queueVars, Running, Inv, Types
  <2>2. OwnerView' = OwnerView
    BY <1>2 DEF ExitLoop, OwnerView
  <2> QED BY <2>1, <2>2, SameView
<1>3. ASSUME NEW w \in Worker, FindTask(w) PROVE Executor!Next \/ UNCHANGED View
  <2>1. /\ submitted' = submitted /\ task' = task /\ done' = done
        /\ \A v \in Worker : pc'[v] \in Running <=> pc[v] \in Running
    BY <1>3 DEF FindTask, Goto, Running, Inv, Types
  <2>2. OwnerView' = OwnerView
    BY <1>3 DEF FindTask, OwnerView
  <2> QED BY <2>1, <2>2, SameView
<1>4. ASSUME NEW w \in Worker, Activate(w) PROVE Executor!Next \/ UNCHANGED View
  <2>1. /\ submitted' = submitted /\ task' = task /\ done' = done
        /\ \A v \in Worker : pc'[v] \in Running <=> pc[v] \in Running
    BY <1>4 DEF Activate, Goto, queueVars, Running, Inv, Types
  <2>2. OwnerView' = OwnerView
    BY <1>4 DEF Activate, OwnerView
  <2> QED BY <2>1, <2>2, SameView
<1>5. ASSUME NEW w \in Worker, PopTask(w) PROVE Executor!Next \/ UNCHANGED View
  BY <1>5, PopIsStart DEF Executor!Next
<1>6. ASSUME NEW w \in Worker, RunTask(w) PROVE Executor!Next \/ UNCHANGED View
  BY <1>6, RunIsFinish DEF Executor!Next
<1>7. ASSUME NEW w \in Worker, EnableFlag, AsyncFrom(w) PROVE Executor!Next \/ UNCHANGED View
  BY <1>7, PushIsSubmit DEF Executor!Next
<1>8. ASSUME NEW w \in Worker, AsyncFromNotify(w) PROVE Executor!Next \/ UNCHANGED View
  <2>1. /\ submitted' = submitted /\ task' = task /\ done' = done
        /\ \A v \in Worker : pc'[v] \in Running <=> pc[v] \in Running
    BY <1>8 DEF AsyncFromNotify, NotifyOne, Wake, Sleeping, queueVars, Running, Inv, Types
  <2>2. OwnerView' = OwnerView
    BY <1>8 DEF AsyncFromNotify, OwnerView
  <2> QED BY <2>1, <2>2, SameView
<1>9. ASSUME NEW w \in Worker, Deactivate(w) PROVE Executor!Next \/ UNCHANGED View
  <2>1. /\ submitted' = submitted /\ task' = task /\ done' = done
        /\ \A v \in Worker : pc'[v] \in Running <=> pc[v] \in Running
    BY <1>9 DEF Deactivate, Goto, queueVars, Running, Inv, Types
  <2>2. OwnerView' = OwnerView
    BY <1>9 DEF Deactivate, OwnerView
  <2> QED BY <2>1, <2>2, SameView
<1>10. ASSUME NEW w \in Worker, NotifyCompletion(w) PROVE Executor!Next \/ UNCHANGED View
  <2>1. /\ submitted' = submitted /\ task' = task /\ done' = done
        /\ \A v \in Worker : pc'[v] \in Running <=> pc[v] \in Running
    BY <1>10 DEF NotifyCompletion, Notified, Goto, queueVars, Running, Inv, Types
  <2>2. OwnerView' = OwnerView
    BY <1>10 DEF NotifyCompletion, OwnerView, Notified
  <2> QED BY <2>1, <2>2, SameView
<1>11. CASE Async
  BY <1>11, PushIsSubmit DEF Executor!Next
<1>12. CASE AsyncNotify
  <2>1. /\ submitted' = submitted /\ task' = task /\ done' = done
        /\ \A v \in Worker : pc'[v] \in Running <=> pc[v] \in Running
    BY <1>12 DEF AsyncNotify, NotifyOne, Wake, Sleeping, queueVars, Running, Inv, Types
  <2>2. OwnerView' = OwnerView
    BY <1>12 DEF AsyncNotify, OwnerView
  <2> QED BY <2>1, <2>2, SameView
<1>13. CASE CallWait
  BY <1>13, CallIsBegin DEF Executor!Next
<1>14. CASE CheckActiveThreads
  <2>1. /\ submitted' = submitted /\ task' = task /\ done' = done
        /\ \A v \in Worker : pc'[v] \in Running <=> pc[v] \in Running
    BY <1>14 DEF CheckActiveThreads, queueVars, Running, Inv, Types
  <2>2. OwnerView' = OwnerView
    BY <1>14 DEF CheckActiveThreads, OwnerView
  <2> QED BY <2>1, <2>2, SameView
<1>15. CASE CheckQueue
  <2>1. CASE Tasks = <<>>
    BY <1>15, <2>1, ReturnIsEnd DEF Executor!Next
  <2>2. CASE Tasks # <<>>
    BY <1>15, <2>2, SameView DEF CheckQueue, queueVars, OwnerView
  <2> QED BY <2>1, <2>2
<1>16. CASE Disable
  BY <1>16, CallIsBegin DEF Executor!Next
<1>17. CASE DisableNotify
  <2>1. /\ submitted' = submitted /\ task' = task /\ done' = done
        /\ \A v \in Worker : pc'[v] \in Running <=> pc[v] \in Running
    BY <1>17 DEF DisableNotify, NotifyAll, Wake, Sleeping, queueVars, Running, Inv, Types
  <2>2. OwnerView' = OwnerView
    BY <1>17 DEF DisableNotify, OwnerView
  <2> QED BY <2>1, <2>2, SameView
<1>18. CASE Join
  BY <1>18, ReturnIsEnd DEF Executor!Next
<1>19. CASE SpuriousWakeUp
  <2>1. /\ submitted' = submitted /\ task' = task /\ done' = done
        /\ \A v \in Worker : pc'[v] \in Running <=> pc[v] \in Running
    BY <1>19 DEF SpuriousWakeUp, Wake, Sleeping, queueVars, Running, Inv, Types
  <2>2. OwnerView' = OwnerView
    BY <1>19 DEF SpuriousWakeUp, OwnerView
  <2> QED BY <2>1, <2>2, SameView
<1> QED BY <1>1, <1>2, <1>3, <1>4, <1>5, <1>6, <1>7, <1>8, <1>9, <1>10, <1>11, <1>12, <1>13, <1>14, <1>15, <1>16, <1>17, <1>18, <1>19 DEF Next, LoopStep, OwnerStep

\* The pool is an executor, as far as safety goes: it starts each task once
\* and in its turn, runs no more of them than it has threads, and neither
\* wait() nor the destructor returns before all submitted tasks have run.
THEOREM ExecutorCorrect == Spec => Executor!Init /\ [][Executor!Next]_(Executor!vars)
<1>1. Init => Executor!Init
  BY ExecutorInit
<1>2. Inv /\ [Next]_vars => [Executor!Next]_(Executor!vars)
  <2> SUFFICES ASSUME Inv, [Next]_vars PROVE Executor!Next \/ UNCHANGED Executor!vars
    OBVIOUS
  <2>1. UNCHANGED View => UNCHANGED Executor!vars
    BY DEF View, Executor!vars, RunningTasks, OwnerView
  <2>2. CASE Next
    BY <2>1, <2>2, NextExecutor
  <2>3. CASE UNCHANGED vars
    BY <2>1, <2>3 DEF vars, queueVars, View, RunningTasks, At, OwnerView
  <2> QED BY <2>2, <2>3
<1> QED BY <1>1, <1>2, InvCorrect, PTL DEF Spec


-----------------------------------------------------------------------------
(* From here on the task queue that uses the pool. *)

-----------------------------------------------------------------------------
(* The inductive invariant: one token goes round while an item is in       *)
(* flight, with the owner, a task of the pool or a worker in between.      *)

\* The items that left the queue; the last of them is the current one.
Scheduled == asked - Len(queued)

\* The tasks of the pool that are items.
Items == {t \in DOMAIN carries : carries[t] # 0}

\* Those that are not complete, and those whose promise is set by then.
Pending == {t \in Items \ done : \A w \in Worker : task[w] = t => stage[w] \in {"call", "complete"}}

Answered == {t \in Pending : \E w \in Worker : task[w] = t /\ stage[w] = "complete"}

\* The workers between the end of an item and the next one.
Continuing == {w \in Worker : stage[w] = "continue"}

Stages == {"call", "complete", "continue", "return"}

ItemsNumbered == Numbered(queued, asked)

QTypes ==
  /\ IsTaskInFlight \in BOOLEAN
  /\ asked \in 0..MaxItems
  /\ ItemsNumbered
  /\ DOMAIN carries = 1..submitted /\ carries \in Seq(Nat)
  /\ stage \in [Worker -> Stages]
  /\ continuation \in [Worker -> Nat]
  /\ call \in {"none", "schedule", "mark"}
  /\ life \in {"alive", "destroying", "gone"}

\* What a worker is doing agrees with the task it has.
StageInv ==
  \A w \in Worker :
    /\ stage[w] # "call" => task[w] \in Items
    /\ stage[w] \in {"complete", "continue"} => pc[w] = "run"
    /\ task[w] \in Items /\ pc[w] = "run notify" => stage[w] = "return"

\* What the owner is doing agrees with the flag and the pool.
CallInv ==
  /\ call # "none" => ~IsTaskInFlight /\ life = "alive"
  /\ call = "schedule" => owner = "free" /\ Scheduled # 0
  /\ call = "mark" => owner \in {"free", "async notify"} /\ Continuing = {}
  /\ ~IsTaskInFlight => queued = <<>>

\* There is one token, and it is the current item's.
TokenInv ==
  /\ \A t, u \in Pending : t = u
  /\ \A v, w \in Continuing : v = w
  /\ Pending = {} \/ Continuing = {}
  /\ \A t \in Pending : carries[t] = Scheduled
  /\ \A w \in Continuing : continuation[w] = Scheduled /\ carries[task[w]] = Scheduled - 1
  /\ IsTaskInFlight \/ call = "mark" <=> Pending # {} \/ Continuing # {}

\* The current item's promise is not set yet.
Open == call = "schedule" \/ Continuing # {} \/ Pending # Answered

FulfilledInv == fulfilled = {k \in 1..Scheduled : k = Scheduled => ~Open}

\* The queue is gone when its items have left the pool, and the pool later.
LifeInv ==
  /\ life = "destroying" => owner \in {"free", "wait", "wait asleep", "wait queue"}
  /\ life = "gone" \/ (life = "destroying" /\ owner = "free") => Items \subseteq done
  /\ ~EnableFlag => life = "gone"

QInv == QTypes /\ StageInv /\ CallInv /\ TokenInv /\ FulfilledInv /\ LifeInv

LEMMA QueueTypes ==
  ASSUME Inv, QTypes
  PROVE  /\ submitted \in Nat /\ asked \in Nat /\ MaxItems \in Nat
         /\ Len(queued) \in Nat /\ Scheduled \in 0..asked
<1>1. queued \in Seq(Nat) /\ Len(queued) <= asked
  BY DEF QTypes, ItemsNumbered, Numbered
<1>2. Len(queued) \in Nat
  BY <1>1, LenProperties
<1>3. asked \in Nat /\ MaxItems \in Nat
  <2>1. asked \in 0..MaxItems /\ MaxTasks \in Nat
    BY BoundsAssumption DEF QTypes
  <2> QED BY <2>1, ItemsAssumption
<1>4. submitted \in Nat
  BY PoppedType DEF Inv
<1> QED BY <1>1, <1>2, <1>3, <1>4 DEF Scheduled

\* A task is added to those submitted.
LEMMA AppendCarried ==
  ASSUME NEW c \in Seq(Nat), NEW n \in Nat, DOMAIN c = 1..n, NEW x \in Nat, NEW d,
         d = Append(c, x)
  PROVE  /\ d \in Seq(Nat) /\ DOMAIN d = 1..(n + 1)
         /\ d[n + 1] = x /\ \A t \in DOMAIN c : d[t] = c[t]
         /\ DOMAIN d = DOMAIN c \cup {n + 1} /\ n + 1 \notin DOMAIN c
<1>1. Len(c) = n
  BY LenProperties
<1>2. /\ d \in Seq(Nat) /\ Len(d) = Len(c) + 1
      /\ \A i \in 1..Len(c) : d[i] = c[i]
      /\ d[Len(c) + 1] = x
  BY AppendProperties
<1>3. DOMAIN d = 1..(n + 1)
  BY <1>1, <1>2, LenProperties
<1> QED BY <1>1, <1>2, <1>3

LEMMA InitQInv == InitQueue => QInv
<1> SUFFICES ASSUME InitQueue PROVE QInv
  OBVIOUS
<1>1. ItemsNumbered /\ Scheduled = 0 /\ Items = {}
  <2>1. Len(<<>>) = 0 /\ Numbered(<<>>, 0) /\ DOMAIN <<>> = {}
    BY NumberedEmpty
  <2>2. asked = 0 /\ queued = <<>> /\ carries = <<>>
    BY DEF InitQueue
  <2>3. ItemsNumbered
    BY <2>1, <2>2 DEF ItemsNumbered
  <2>4. Scheduled = 0
    <3>1. Scheduled = 0 - 0
      BY <2>1, <2>2, Zenon DEF Scheduled
    <3> QED BY <3>1
  <2> QED BY <2>1, <2>2, <2>3, <2>4 DEF Items
<1>2. QTypes
  <2>1. asked \in 0..MaxItems /\ DOMAIN carries = 1..submitted /\ carries \in Seq(Nat)
    BY ItemsAssumption, BoundsAssumption DEF InitQueue, Init
  <2> QED BY <1>1, <2>1 DEF InitQueue, QTypes, Stages
<1>3. Pending = {} /\ Answered = {} /\ Continuing = {}
  BY <1>1 DEF Pending, Answered, Continuing, InitQueue
<1>4. StageInv /\ CallInv /\ TokenInv /\ LifeInv
  BY <1>1, <1>3 DEF InitQueue, Init, StageInv, CallInv, TokenInv, LifeInv
<1>5. FulfilledInv
  BY <1>1 DEF InitQueue, FulfilledInv
<1> QED BY <1>2, <1>4, <1>5 DEF QInv

-----------------------------------------------------------------------------
(* Steps of the pool alone: what the queue can notice of them.             *)

Quiet ==
  /\ UNCHANGED tqVars /\ submitted' = submitted /\ done' = done
  /\ \A w \in Worker : task'[w] = task[w] \/ task[w] = 0
  /\ \A w \in Worker : /\ pc[w] = "run" => pc'[w] = "run"
                       /\ pc'[w] = "run notify" => pc[w] = "run notify"

\* What the owner does to the pool while it is or is not in the queue.
OwnerQuiet ==
  /\ call # "none" => owner' = owner \/ (owner = "async notify" /\ owner' = "free")
  /\ life = "destroying" => owner' \in {owner, "free", "wait", "wait asleep", "wait queue"}
  /\ owner' = "free" => owner \in {"free", "async notify"} \/ done = 1..submitted
  /\ (EnableFlag' <=> EnableFlag) \/ life = "gone"

PoolStep ==
  \/ \E w \in Worker : LoopStep(w) /\ UNCHANGED tqVars
  \/ OwnerStep /\ UNCHANGED tqVars
  \/ OwnerCall
  \/ SpuriousWakeUp /\ UNCHANGED tqVars

LEMMA PoolStepQuiet ==
  ASSUME Inv, QInv, PoolStep
  PROVE  Quiet /\ OwnerQuiet
<1>0. call # "none" => owner \in {"free", "async notify"}
  BY DEF QInv, QTypes, CallInv
<1>1. ASSUME NEW w \in Worker, Sleep(w), UNCHANGED tqVars PROVE Quiet /\ OwnerQuiet
  BY <1>1 DEF Quiet, OwnerQuiet, Sleep, Goto, queueVars, completionVars, Inv, Types
<1>2. ASSUME NEW w \in Worker, ExitLoop(w), UNCHANGED tqVars PROVE Quiet /\ OwnerQuiet
  BY <1>2 DEF Quiet, OwnerQuiet, ExitLoop, Goto, queueVars, completionVars, Inv, Types
<1>3. ASSUME NEW w \in Worker, FindTask(w), UNCHANGED tqVars PROVE Quiet /\ OwnerQuiet
  BY <1>3 DEF Quiet, OwnerQuiet, FindTask, Goto, completionVars, Inv, Types
<1>4. ASSUME NEW w \in Worker, Activate(w), UNCHANGED tqVars PROVE Quiet /\ OwnerQuiet
  BY <1>4 DEF Quiet, OwnerQuiet, Activate, Goto, queueVars, Inv, Types
<1>5. ASSUME NEW w \in Worker, PopTask(w), UNCHANGED tqVars PROVE Quiet /\ OwnerQuiet
  <2>1. task[w] = 0
    BY <1>5 DEF PopTask, Inv, TaskInv, Running
  <2> QED BY <1>5, <2>1 DEF Quiet, OwnerQuiet, PopTask, Goto, completionVars, Inv, Types
<1>6. ASSUME NEW w \in Worker, AsyncFromNotify(w), UNCHANGED tqVars PROVE Quiet /\ OwnerQuiet
  BY <1>6 DEF Quiet, OwnerQuiet, AsyncFromNotify, NotifyOne, Wake, Sleeping, queueVars, Inv, Types
<1>7. ASSUME NEW w \in Worker, Deactivate(w), UNCHANGED tqVars PROVE Quiet /\ OwnerQuiet
  BY <1>7 DEF Quiet, OwnerQuiet, Deactivate, Goto, queueVars, Inv, Types
<1>8. ASSUME NEW w \in Worker, NotifyCompletion(w), UNCHANGED tqVars PROVE Quiet /\ OwnerQuiet
  <2>1. Quiet
    BY <1>8 DEF Quiet, NotifyCompletion, Goto, queueVars, Inv, Types
  <2>2. OwnerQuiet
    BY <1>0, <1>8 DEF OwnerQuiet, NotifyCompletion, Notified, queueVars
  <2> QED BY <2>1, <2>2
<1>9. ASSUME AsyncNotify, UNCHANGED tqVars PROVE Quiet /\ OwnerQuiet
  BY <1>9 DEF Quiet, OwnerQuiet, AsyncNotify, NotifyOne, Wake, Sleeping, queueVars, Inv, Types, QInv, CallInv, LifeInv
<1>10. ASSUME CheckActiveThreads, UNCHANGED tqVars PROVE Quiet /\ OwnerQuiet
  <2>1. Quiet
    BY <1>10 DEF Quiet, CheckActiveThreads, queueVars
  <2>2. OwnerQuiet
    BY <1>0, <1>10 DEF OwnerQuiet, CheckActiveThreads, queueVars
  <2> QED BY <2>1, <2>2
<1>11. ASSUME CheckQueue, UNCHANGED tqVars PROVE Quiet /\ OwnerQuiet
  <2>1. Tasks = <<>> => done = 1..submitted
    <3>1. Count(pc, Active) = 0
      BY <1>11 DEF CheckQueue, Inv, ActiveInv
    <3>2. \A w \in Worker : pc[w] \notin Active
      BY <3>1, CountType
    <3>3. \A w \in Worker : pc[w] \notin Running
      BY <3>2 DEF Active, Running
    <3> QED BY <3>3, AllDoneWhenIdle
  <2>2. Quiet
    BY <1>11 DEF Quiet, CheckQueue, queueVars
  <2>3. OwnerQuiet
    BY <1>0, <1>11, <2>1 DEF OwnerQuiet, CheckQueue, queueVars
  <2> QED BY <2>2, <2>3
<1>12. ASSUME DisableNotify, UNCHANGED tqVars PROVE Quiet /\ OwnerQuiet
  BY <1>12 DEF Quiet, OwnerQuiet, DisableNotify, NotifyAll, Wake, Sleeping, queueVars, Inv, Types, QInv, CallInv, LifeInv
<1>13. ASSUME Join, UNCHANGED tqVars PROVE Quiet /\ OwnerQuiet
  BY <1>13 DEF Quiet, OwnerQuiet, Join, queueVars, Inv, Types, QInv, CallInv, LifeInv
<1>14. ASSUME SpuriousWakeUp, UNCHANGED tqVars PROVE Quiet /\ OwnerQuiet
  <2>1. Quiet
    BY <1>14 DEF Quiet, SpuriousWakeUp, Wake, Sleeping, queueVars, Inv, Types
  <2>2. OwnerQuiet
    BY <1>0, <1>14 DEF OwnerQuiet, SpuriousWakeUp, Wake, Sleeping, queueVars
  <2> QED BY <2>1, <2>2
<1>15. CASE OwnerCall
  <2>1. OwnerFree /\ UNCHANGED tqVars
    BY <1>15 DEF OwnerCall
  <2>2. CASE CallWait
    BY <2>1, <2>2 DEF Quiet, OwnerQuiet, OwnerFree, CallWait, queueVars
  <2>3. CASE life = "gone" /\ Disable
    BY <2>1, <2>3 DEF Quiet, OwnerQuiet, OwnerFree, Disable
  <2> QED BY <1>15, <2>2, <2>3 DEF OwnerCall
<1> QED BY <1>1, <1>2, <1>3, <1>4, <1>5, <1>6, <1>7, <1>8, <1>9, <1>10, <1>11, <1>12, <1>13, <1>14, <1>15 DEF PoolStep, LoopStep, OwnerStep

LEMMA QuietSets ==
  ASSUME Inv, QInv, Quiet
  PROVE  /\ Items' = Items /\ Pending' = Pending /\ Answered' = Answered
         /\ Continuing' = Continuing /\ Scheduled' = Scheduled
<1>1. UNCHANGED <<carries, stage, asked, queued>>
  BY DEF Quiet, tqVars, queueState, itemVars
<1>2. Items' = Items /\ Continuing' = Continuing /\ Scheduled' = Scheduled
  BY <1>1 DEF Items, Continuing, Scheduled
<1>3. 0 \notin Items
  <2>1. submitted \in Nat /\ DOMAIN carries = 1..submitted
    BY QueueTypes DEF QInv, QTypes
  <2> QED BY <2>1 DEF Items
<1>4. ASSUME NEW w \in Worker PROVE task'[w] = task[w] \/ (task[w] = 0 /\ stage[w] = "call")
  <2>1. task[w] = 0 => stage[w] = "call"
    BY <1>3 DEF QInv, StageInv
  <2> QED BY <2>1 DEF Quiet
<1>5. Pending' = Pending
  BY <1>1, <1>2, <1>3, <1>4 DEF Pending, Quiet
<1>6. Answered' = Answered
  BY <1>1, <1>4, <1>5 DEF Answered
<1> QED BY <1>2, <1>5, <1>6

LEMMA QuietInv ==
  ASSUME Inv, QInv, Quiet, OwnerQuiet, Inv'
  PROVE  QInv'
<1>1. /\ UNCHANGED <<IsTaskInFlight, queued, continuation, asked, fulfilled, carries, stage, call, life>>
      /\ submitted' = submitted /\ done' = done
  BY DEF Quiet, tqVars, queueState, itemVars
<1>2. QTypes'
  BY <1>1 DEF QInv, QTypes, ItemsNumbered
<1>3. StageInv'
  <2>1. Items' = Items /\ 0 \notin Items
    <3>1. submitted \in Nat /\ DOMAIN carries = 1..submitted
      BY QueueTypes DEF QInv, QTypes
    <3> QED BY <3>1, QuietSets DEF Items
  <2>2. SUFFICES ASSUME NEW w \in Worker
                 PROVE  /\ stage[w] # "call" => task'[w] \in Items
                        /\ stage[w] \in {"complete", "continue"} => pc'[w] = "run"
                        /\ task'[w] \in Items /\ pc'[w] = "run notify" => stage[w] = "return"
    BY <1>1, <2>1 DEF StageInv
  <2>3. /\ stage[w] # "call" => task[w] \in Items
        /\ stage[w] \in {"complete", "continue"} => pc[w] = "run"
        /\ task[w] \in Items /\ pc[w] = "run notify" => stage[w] = "return"
    BY DEF QInv, StageInv
  <2>4. /\ task'[w] = task[w] \/ task[w] = 0
        /\ pc[w] = "run" => pc'[w] = "run"
        /\ pc'[w] = "run notify" => pc[w] = "run notify"
    BY DEF Quiet
  <2>5. task[w] = 0 => pc[w] # "run notify"
    BY DEF Inv, TaskInv, Running
  <2> QED BY <2>1, <2>3, <2>4, <2>5
<1>4. CallInv'
  BY <1>1, QuietSets DEF QInv, CallInv, OwnerQuiet
<1>5. TokenInv'
  <2>1. ASSUME NEW w \in Continuing PROVE task'[w] = task[w]
    <3>1. w \in Worker /\ pc[w] = "run"
      BY <2>1 DEF Continuing, QInv, StageInv
    <3>2. task[w] # 0
      BY <3>1 DEF Inv, TaskInv, Running
    <3> QED BY <3>1, <3>2 DEF Quiet
  <2> QED BY <1>1, <2>1, QuietSets DEF QInv, TokenInv
<1>6. FulfilledInv'
  BY <1>1, QuietSets DEF QInv, FulfilledInv, Open
<1>7. LifeInv'
  <2>1. done = 1..submitted => Items \subseteq done
    BY DEF Items, QInv, QTypes
  <2>2. owner' = "free" => owner \in {"free", "async notify"} \/ Items \subseteq done
    BY <2>1 DEF OwnerQuiet
  <2>3. /\ life = "destroying" => owner' \in {owner, "free", "wait", "wait asleep", "wait queue"}
        /\ (EnableFlag' <=> EnableFlag) \/ life = "gone"
    BY DEF OwnerQuiet
  <2>4. LifeInv /\ Items' = Items
    BY QuietSets DEF QInv
  <2> QED BY <1>1, <2>2, <2>3, <2>4 DEF LifeInv
<1> QED BY <1>2, <1>3, <1>4, <1>5, <1>6, <1>7 DEF QInv


-----------------------------------------------------------------------------
(* Steps of the queue.                                                     *)

LEMMA SameSets ==
  ASSUME UNCHANGED <<carries, stage, task, done>>
  PROVE  /\ Items' = Items /\ Pending' = Pending /\ Answered' = Answered
         /\ Continuing' = Continuing
<1>1. Items' = Items /\ Continuing' = Continuing
  BY DEF Items, Continuing
<1>2. Pending' = Pending
  BY <1>1 DEF Pending
<1>3. Answered' = Answered
  BY <1>2 DEF Answered
<1> QED BY <1>1, <1>2, <1>3

\* With no item in flight there is no token, and every item is done.
LEMMA NoToken ==
  ASSUME Inv, QInv, ~IsTaskInFlight, call # "mark"
  PROVE  /\ queued = <<>> /\ Scheduled = asked /\ Len(queued) = 0
         /\ Pending = {} /\ Answered = {} /\ Continuing = {}
         /\ call # "schedule" => fulfilled = 1..asked
         /\ call = "schedule" => fulfilled = 1..(asked - 1)
<1>1. queued = <<>> /\ Len(queued) = 0
  BY NumberedEmpty DEF QInv, CallInv
<1>2. Scheduled = asked
  <2>1. \A n \in Nat : n - 0 = n
    OBVIOUS
  <2> QED BY <1>1, <2>1, QueueTypes, Zenon DEF Scheduled, QInv
<1>3. Pending = {} /\ Continuing = {}
  BY DEF QInv, TokenInv
<1>4. Answered = {}
  BY <1>3 DEF Answered
<1>5. fulfilled = {k \in 1..asked : k = asked => call # "schedule"}
  BY <1>2, <1>3, <1>4 DEF QInv, FulfilledInv, Open
<1>6. asked \in Nat
  BY QueueTypes DEF QInv
<1>7. call # "schedule" => fulfilled = 1..asked
  BY <1>5
<1>8. call = "schedule" => fulfilled = 1..(asked - 1)
  <2>1. \A n \in Nat : {k \in 1..n : k # n} = 1..(n - 1)
    OBVIOUS
  <2> QED BY <1>5, <1>6, <2>1
<1> QED BY <1>1, <1>2, <1>3, <1>4, <1>7, <1>8

LEMMA AddItemInv ==
  ASSUME Inv, QInv, AddItem
  PROVE  QInv'
<1>1. /\ call = "none" /\ owner = "free" /\ life = "alive" /\ asked < MaxItems /\ asked' = asked + 1
      /\ UNCHANGED <<IsTaskInFlight, continuation, fulfilled, carries, stage, life>>
      /\ UNCHANGED <<carries, stage, task, done>> /\ UNCHANGED <<submitted, owner, pc, EnableFlag>>
  BY DEF AddItem, OwnerFree, vars, queueVars
<1>2. asked \in Nat /\ MaxItems \in Nat /\ asked' \in 0..MaxItems /\ Scheduled \in Nat
  <2>1. asked \in Nat /\ MaxItems \in Nat /\ Scheduled \in 0..asked
    BY QueueTypes DEF QInv
  <2> QED BY <1>1, <2>1
<1>3. StageInv' /\ LifeInv'
  BY <1>1, SameSets DEF QInv, StageInv, LifeInv
<1>4. CASE IsTaskInFlight
  <2>1. queued' = Append(queued, asked + 1) /\ call' = "none"
    BY <1>1, <1>4 DEF AddItem
  <2>2. ItemsNumbered' /\ Len(queued') = Len(queued) + 1
    <3>1. Numbered(queued, asked)
      BY DEF QInv, QTypes, ItemsNumbered
    <3>2. /\ Numbered(Append(queued, asked + 1), asked + 1)
          /\ Len(Append(queued, asked + 1)) = Len(queued) + 1
      BY <1>2, <3>1, NumberedPush
    <3> QED BY <1>1, <2>1, <3>2 DEF ItemsNumbered
  <2>3. Scheduled' = Scheduled
    <3>1. \A m, n \in Nat : (m + 1) - (n + 1) = m - n
      OBVIOUS
    <3>2. Len(queued) \in Nat
      BY QueueTypes DEF QInv
    <3>3. Scheduled' = asked' - Len(queued') /\ Scheduled = asked - Len(queued)
      BY DEF Scheduled
    <3>4. Scheduled' = (asked + 1) - (Len(queued) + 1)
      BY <1>1, <2>2, <3>3
    <3>5. (asked + 1) - (Len(queued) + 1) = asked - Len(queued)
      BY <1>2, <3>1, <3>2
    <3> QED BY <3>3, <3>4, <3>5
  <2>4. QTypes'
    BY <1>1, <1>2, <2>1, <2>2 DEF QInv, QTypes
  <2>5. CallInv'
    BY <1>1, <1>4, <2>1 DEF CallInv
  <2>6. TokenInv'
    BY <1>1, <2>1, <2>3, SameSets DEF QInv, TokenInv
  <2>7. FulfilledInv'
    BY <1>1, <2>1, <2>3, SameSets DEF QInv, FulfilledInv, Open
  <2> QED BY <1>3, <2>4, <2>5, <2>6, <2>7 DEF QInv
<1>5. CASE ~IsTaskInFlight
  <2>1. queued' = queued /\ call' = "schedule"
    BY <1>1, <1>5 DEF AddItem
  <2>2. /\ queued = <<>> /\ Scheduled = asked /\ Pending = {} /\ Answered = {} /\ Continuing = {}
        /\ Len(queued) = 0 /\ fulfilled = 1..asked
    BY <1>1, <1>5, NoToken
  <2>3. Scheduled' = asked + 1
    <3>1. \A n \in Nat : (n + 1) - 0 = n + 1
      OBVIOUS
    <3> QED BY <1>1, <1>2, <2>1, <2>2, <3>1, Zenon DEF Scheduled
  <2>4. ItemsNumbered'
    <3>1. \A n \in Nat : Numbered(<<>>, n)
      BY NumberedEmpty DEF Numbered
    <3>2. asked' \in Nat
      BY <1>1, <1>2
    <3> QED BY <2>1, <2>2, <3>1, <3>2, Zenon DEF ItemsNumbered
  <2>5. QTypes'
    BY <1>1, <1>2, <2>1, <2>4 DEF QInv, QTypes
  <2>6. CallInv'
    <3>1. asked + 1 # 0
      BY <1>2
    <3> QED BY <1>1, <1>5, <2>1, <2>2, <2>3, <3>1 DEF CallInv
  <2>7. TokenInv'
    BY <1>1, <1>5, <2>1, <2>2, SameSets DEF TokenInv
  <2>8. FulfilledInv'
    <3>1. \A n \in Nat : 1..n = {k \in 1..(n + 1) : k # n + 1}
      OBVIOUS
    <3>2. Open'
      BY <2>1 DEF Open
    <3> QED BY <1>1, <1>2, <2>2, <2>3, <3>1, <3>2 DEF FulfilledInv
  <2> QED BY <1>3, <2>5, <2>6, <2>7, <2>8 DEF QInv
<1> QED BY <1>4, <1>5

\* A task of the pool is submitted, by the owner or a worker.
Submits(x) ==
  /\ submitted' = submitted + 1 /\ carries' = Append(carries, x)
  /\ UNCHANGED <<task, done, asked, queued>>

LEMMA SubmitItems ==
  ASSUME Inv, QInv, NEW x \in Nat, Submits(x)
  PROVE  /\ DOMAIN carries' = 1..submitted' /\ carries' \in Seq(Nat)
         /\ submitted + 1 \notin DOMAIN carries /\ submitted + 1 \notin done
         /\ \A w \in Worker : task[w] # submitted + 1
         /\ carries'[submitted + 1] = x /\ \A t \in DOMAIN carries : carries'[t] = carries[t]
         /\ DOMAIN carries' = DOMAIN carries \cup {submitted + 1}
         /\ x = 0 => Items' = Items
         /\ x # 0 => Items' = Items \cup {submitted + 1}
<1>1. submitted \in Nat /\ carries \in Seq(Nat) /\ DOMAIN carries = 1..submitted
  BY QueueTypes DEF QInv, QTypes
<1>2. submitted' = submitted + 1 /\ carries' = Append(carries, x)
  BY DEF Submits
<1>3. /\ carries' \in Seq(Nat) /\ DOMAIN carries' = 1..(submitted + 1)
      /\ carries'[submitted + 1] = x /\ \A t \in DOMAIN carries : carries'[t] = carries[t]
      /\ DOMAIN carries' = DOMAIN carries \cup {submitted + 1}
      /\ submitted + 1 \notin DOMAIN carries
  BY <1>1, <1>2, AppendCarried
<1>4. submitted + 1 \notin done /\ \A w \in Worker : task[w] # submitted + 1
  <2>1. RunningTasks \cup done = 1..Popped /\ Popped \in 0..submitted
    BY RunningType, PoppedType DEF Inv
  <2>2. submitted + 1 \notin 1..Popped /\ submitted + 1 # 0
    BY <1>1, <2>1
  <2> QED BY <2>1, <2>2, RunningType
<1>5. x = 0 => Items' = Items
  BY <1>3 DEF Items
<1>6. x # 0 => Items' = Items \cup {submitted + 1}
  BY <1>3 DEF Items
<1> QED BY <1>2, <1>3, <1>4, <1>5, <1>6


LEMMA ScheduleItemInv ==
  ASSUME Inv, QInv, ScheduleItem
  PROVE  QInv'
<1>1. /\ call = "schedule" /\ call' = "mark" /\ owner = "free" /\ owner' = "async notify"
      /\ UNCHANGED <<IsTaskInFlight, continuation, fulfilled, stage, life, asked, queued>>
      /\ UNCHANGED <<task, done, pc, EnableFlag>>
      /\ Submits(asked)
  BY DEF ScheduleItem, Async, Push, Submits, queueState
<1>2. ~IsTaskInFlight /\ life = "alive" /\ Scheduled # 0
  BY <1>1 DEF QInv, CallInv
<1>3. /\ queued = <<>> /\ Scheduled = asked /\ Pending = {} /\ Answered = {} /\ Continuing = {}
  BY <1>1, <1>2, NoToken
<1>4. asked \in Nat /\ asked # 0
  BY <1>2, <1>3, QueueTypes DEF QInv
<1>5. /\ DOMAIN carries' = 1..submitted' /\ carries' \in Seq(Nat)
      /\ submitted + 1 \notin DOMAIN carries /\ submitted + 1 \notin done
      /\ \A w \in Worker : task[w] # submitted + 1
      /\ carries'[submitted + 1] = asked
      /\ Items' = Items \cup {submitted + 1}
  BY <1>1, <1>4, SubmitItems
<1>6. Pending' = {submitted + 1}
  <2>1. submitted + 1 \in Pending'
    BY <1>1, <1>5 DEF Pending
  <2>2. \A t \in Pending' : t \in Items => t \in Pending
    BY <1>1 DEF Pending
  <2>3. \A t \in Pending' : t \in Items \cup {submitted + 1}
    BY <1>5 DEF Pending
  <2> QED BY <1>3, <2>1, <2>2, <2>3
<1>7. Continuing' = {} /\ Answered' = {} /\ Scheduled' = asked
  <2>1. Continuing' = {} /\ Scheduled' = asked
    BY <1>1, <1>3 DEF Continuing, Scheduled
  <2>2. Answered' = {}
    BY <1>1, <1>5, <1>6 DEF Answered
  <2> QED BY <2>1, <2>2
<1>8. QTypes'
  BY <1>1, <1>5 DEF QInv, QTypes, ItemsNumbered
<1>9. StageInv'
  BY <1>1, <1>5 DEF QInv, StageInv
<1>10. CallInv'
  BY <1>1, <1>2, <1>3, <1>7 DEF CallInv
<1>11. TokenInv'
  BY <1>1, <1>5, <1>6, <1>7 DEF TokenInv
<1>12. FulfilledInv'
  <2>1. Open /\ Open'
    BY <1>1, <1>6, <1>7 DEF Open
  <2> QED BY <1>1, <1>3, <1>7, <2>1 DEF QInv, FulfilledInv
<1>13. LifeInv'
  BY <1>1, <1>2 DEF QInv, LifeInv
<1> QED BY <1>8, <1>9, <1>10, <1>11, <1>12, <1>13 DEF QInv

LEMMA MarkInFlightInv ==
  ASSUME Inv, QInv, MarkInFlight
  PROVE  QInv'
<1>1. /\ call = "mark" /\ call' = "none" /\ IsTaskInFlight' = TRUE
      /\ UNCHANGED <<continuation, fulfilled, stage, life, asked, queued, owner, carries, submitted>>
      /\ UNCHANGED <<carries, stage, task, done>> /\ UNCHANGED <<pc, EnableFlag>>
  BY DEF MarkInFlight, vars, queueVars, itemVars
<1>2. Scheduled' = Scheduled
  BY <1>1 DEF Scheduled
<1>3. QTypes' /\ StageInv' /\ CallInv' /\ LifeInv'
  BY <1>1, SameSets DEF QInv, QTypes, ItemsNumbered, StageInv, CallInv, LifeInv
<1>4. TokenInv'
  BY <1>1, <1>2, SameSets DEF QInv, TokenInv
<1>5. FulfilledInv'
  BY <1>1, <1>2, SameSets DEF QInv, FulfilledInv, Open
<1> QED BY <1>3, <1>4, <1>5 DEF QInv

\* The token is with the worker that runs the item, until it is complete.
LEMMA HoldsToken ==
  ASSUME Inv, QInv, NEW w \in Worker, pc[w] = "run", carries[task[w]] # 0
  PROVE  /\ task[w] \in Items /\ task[w] \notin done
         /\ stage[w] \in {"call", "complete"} =>
              Pending = {task[w]} /\ Continuing = {} /\ carries[task[w]] = Scheduled
         /\ stage[w] = "complete" => Answered = {task[w]}
         /\ stage[w] = "call" => Answered = {}
         /\ stage[w] = "continue" => Continuing = {w} /\ Pending = {} /\ Answered = {}
<1>1. /\ task[w] # 0 /\ task[w] \notin done
      /\ \A v \in Worker : task[v] = task[w] => v = w
  BY DEF Inv, TaskInv, TasksTaken, Taken, Running
<1>2. task[w] \in Items
  <2>1. RunningTasks \cup done = 1..Popped /\ Popped \in 0..submitted /\ submitted \in Nat
    BY RunningType, PoppedType DEF Inv
  <2>2. task[w] \in 1..submitted
    <3>1. task[w] \in 1..Popped
      BY <1>1, <2>1, RunningType
    <3>2. \A m, n \in Nat : m \in 0..n => 1..m \subseteq 1..n
      OBVIOUS
    <3> QED BY <2>1, <3>1, <3>2
  <2> QED BY <2>2 DEF Items, QInv, QTypes
<1>3. ASSUME stage[w] \in {"call", "complete"} PROVE task[w] \in Pending
  BY <1>1, <1>2, <1>3 DEF Pending
<1>4. ASSUME stage[w] = "continue" PROVE w \in Continuing
  BY <1>4 DEF Continuing
<1>5. /\ \A t, u \in Pending : t = u
      /\ \A u, v \in Continuing : u = v
      /\ Pending = {} \/ Continuing = {}
      /\ \A t \in Pending : carries[t] = Scheduled
  BY DEF QInv, TokenInv
<1>6. /\ stage[w] = "complete" => task[w] \in Answered
      /\ stage[w] = "call" => task[w] \notin Answered
      /\ Answered \subseteq Pending
  BY <1>1, <1>3 DEF Answered
<1> QED BY <1>1, <1>2, <1>3, <1>4, <1>5, <1>6

\* Neither the queue nor the pool is closed while it runs.
LEMMA NotGone ==
  ASSUME Inv, QInv, NEW w \in Worker, pc[w] = "run", carries[task[w]] # 0
  PROVE  life # "gone" /\ EnableFlag /\ (life = "destroying" => owner # "free")
BY HoldsToken DEF QInv, LifeInv

LEMMA SetPromiseInv ==
  ASSUME Inv, QInv, NEW w \in Worker, SetPromise(w)
  PROVE  QInv'
<1>1. /\ pc[w] = "run" /\ carries[task[w]] # 0 /\ stage[w] = "call"
      /\ fulfilled' = fulfilled \cup {carries[task[w]]}
      /\ stage' = [stage EXCEPT ![w] = "complete"] /\ stage \in [Worker -> Stages]
      /\ UNCHANGED <<IsTaskInFlight, continuation, life, asked, queued, owner, carries, submitted>>
      /\ UNCHANGED <<task, done, pc, EnableFlag, call>>
  BY DEF SetPromise, Item, To, vars, queueVars, queueState, QInv, QTypes
<1>2. /\ task[w] \in Items /\ Pending = {task[w]} /\ Answered = {} /\ Continuing = {}
      /\ carries[task[w]] = Scheduled
  BY <1>1, HoldsToken
<1>3. /\ stage'[w] = "complete" /\ \A v \in Worker : v # w => stage'[v] = stage[v]
      /\ stage' \in [Worker -> Stages]
  BY <1>1 DEF Stages
<1>4. Items' = Items /\ Scheduled' = Scheduled /\ Continuing' = {}
  BY <1>1, <1>2, <1>3 DEF Items, Scheduled, Continuing
<1>5. Pending' = {task[w]}
  <2>1. \A v \in Worker : stage[v] \in {"call", "complete"} <=> stage'[v] \in {"call", "complete"}
    BY <1>1, <1>3
  <2>2. Pending' = Pending
    BY <1>1, <1>4, <2>1 DEF Pending
  <2> QED BY <1>2, <2>2
<1>6. Answered' = {task[w]}
  BY <1>1, <1>3, <1>5 DEF Answered
<1>7. QTypes'
  BY <1>1, <1>3 DEF QInv, QTypes, ItemsNumbered
<1>8. StageInv'
  BY <1>1, <1>2, <1>3, <1>4 DEF QInv, StageInv
<1>9. CallInv' /\ LifeInv'
  BY <1>1, <1>2, <1>4 DEF QInv, CallInv, LifeInv
<1>10. TokenInv'
  BY <1>1, <1>2, <1>4, <1>5 DEF QInv, TokenInv
<1>11. FulfilledInv'
  <2>1. Open /\ fulfilled = {k \in 1..Scheduled : k # Scheduled}
    BY <1>2 DEF QInv, FulfilledInv, Open
  <2>2. call # "schedule"
    BY <1>2 DEF QInv, CallInv, TokenInv
  <2>3. ~Open'
    BY <1>1, <1>4, <1>5, <1>6, <2>2 DEF Open
  <2>4. Scheduled \in 1..Scheduled
    <3>1. Scheduled \in Nat /\ Scheduled # 0
      BY <1>1, <1>2, QueueTypes DEF QInv
    <3>2. \A n \in Nat : n # 0 => n \in 1..n
      OBVIOUS
    <3> QED BY <3>1, <3>2
  <2>5. fulfilled' = 1..Scheduled
    BY <1>1, <1>2, <2>1, <2>4
  <2> QED BY <1>4, <2>3, <2>5 DEF FulfilledInv
<1> QED BY <1>7, <1>8, <1>9, <1>10, <1>11 DEF QInv


LEMMA CompleteTaskInv ==
  ASSUME Inv, QInv, NEW w \in Worker, CompleteTask(w)
  PROVE  QInv'
<1>1. /\ pc[w] = "run" /\ carries[task[w]] # 0 /\ stage[w] = "complete" /\ call = "none"
      /\ stage \in [Worker -> Stages]
      /\ UNCHANGED <<fulfilled, life, asked, owner, carries, submitted>>
      /\ UNCHANGED <<task, done, pc, EnableFlag, call>>
  BY DEF CompleteTask, Item, vars, queueVars, QInv, QTypes
<1>2. /\ task[w] \in Items /\ Pending = {task[w]} /\ Answered = {task[w]} /\ Continuing = {}
      /\ carries[task[w]] = Scheduled
      /\ \A v \in Worker : task[v] = task[w] => v = w
  <2>1. task[w] # 0
    BY <1>1 DEF Inv, TaskInv, Running
  <2> QED BY <1>1, <2>1, HoldsToken DEF Inv, TaskInv, TasksTaken, Taken
<1>3. IsTaskInFlight /\ fulfilled = 1..Scheduled
  BY <1>1, <1>2 DEF QInv, TokenInv, FulfilledInv, Open
<1>4. Items' = Items
  BY <1>1 DEF Items
<1>5. asked \in Nat /\ Scheduled \in Nat /\ Len(queued) \in Nat
  BY QueueTypes DEF QInv
<1>6. ASSUME NEW s \in {"continue", "return"}, stage' = [stage EXCEPT ![w] = s]
      PROVE  /\ stage'[w] = s /\ \A v \in Worker : v # w => stage'[v] = stage[v]
             /\ stage' \in [Worker -> Stages] /\ StageInv'
             /\ Pending' = {} /\ Answered' = {}
             /\ Continuing' = IF s = "continue" THEN {w} ELSE {}
  <2>1. /\ stage'[w] = s /\ \A v \in Worker : v # w => stage'[v] = stage[v]
        /\ stage' \in [Worker -> Stages]
    BY <1>1, <1>6 DEF Stages
  <2>2. StageInv'
    BY <1>1, <1>2, <1>4, <2>1 DEF QInv, StageInv
  <2>3. Pending' = {}
    <3>1. ASSUME NEW t \in Pending' PROVE FALSE
      <4>1. t \in Items \ done /\ \A v \in Worker : task[v] = t => stage'[v] \in {"call", "complete"}
        BY <1>1, <1>4 DEF Pending
      <4>2. t # task[w]
        BY <2>1, <4>1
      <4>3. t \in Pending
        BY <1>1, <2>1, <4>1, <4>2 DEF Pending
      <4> QED BY <1>2, <4>2, <4>3
    <3> QED BY <3>1
  <2>4. Answered' = {}
    BY <2>3 DEF Answered
  <2>5. Continuing' = IF s = "continue" THEN {w} ELSE {}
    BY <1>2, <2>1 DEF Continuing
  <2> QED BY <2>1, <2>2, <2>3, <2>4, <2>5
<1>7. LifeInv'
  BY <1>1, <1>4 DEF QInv, LifeInv
<1>8. CASE queued = <<>>
  <2>1. /\ IsTaskInFlight' = FALSE /\ queued' = queued /\ continuation' = continuation
        /\ stage' = [stage EXCEPT ![w] = "return"]
    BY <1>8 DEF CompleteTask, To
  <2>2. /\ stage' \in [Worker -> Stages] /\ StageInv'
        /\ Pending' = {} /\ Answered' = {} /\ Continuing' = {}
    BY <1>6, <2>1
  <2>3. Scheduled' = Scheduled
    BY <1>1, <2>1 DEF Scheduled
  <2>4. QTypes'
    BY <1>1, <2>1, <2>2 DEF QInv, QTypes, ItemsNumbered
  <2>5. CallInv' /\ TokenInv'
    BY <1>1, <1>8, <2>1, <2>2 DEF CallInv, TokenInv
  <2>6. FulfilledInv'
    BY <1>1, <1>3, <2>2, <2>3 DEF FulfilledInv, Open
  <2> QED BY <1>7, <2>2, <2>4, <2>5, <2>6 DEF QInv
<1>9. CASE queued # <<>>
  <2>1. /\ IsTaskInFlight' = IsTaskInFlight /\ queued' = Tail(queued)
        /\ continuation' = [continuation EXCEPT ![w] = Head(queued)]
        /\ stage' = [stage EXCEPT ![w] = "continue"]
    BY <1>9 DEF CompleteTask, To
  <2>2. /\ stage' \in [Worker -> Stages] /\ StageInv'
        /\ Pending' = {} /\ Answered' = {} /\ Continuing' = {w}
    BY <1>6, <2>1
  <2>3. /\ Numbered(Tail(queued), asked) /\ Len(Tail(queued)) = Len(queued) - 1
        /\ Head(queued) = (asked - Len(queued)) + 1 /\ Len(queued) >= 1
    <3>1. Numbered(queued, asked)
      BY DEF QInv, QTypes, ItemsNumbered
    <3> QED BY <1>5, <1>9, <3>1, NumberedPop
  <2>4. Head(queued) = Scheduled + 1
    BY <2>3 DEF Scheduled
  <2>5. Scheduled' = Scheduled + 1
    <3>1. Scheduled' = asked - Len(Tail(queued)) /\ Scheduled = asked - Len(queued)
      BY <1>1, <2>1 DEF Scheduled
    <3>2. \A m, n, k \in Nat : k = n - 1 => m - k = (m - n) + 1
      OBVIOUS
    <3>3. Len(Tail(queued)) \in Nat
      <4>1. Tail(queued) \in Seq(Nat)
        BY <2>3 DEF Numbered
      <4> QED BY <4>1, LenProperties
    <3>4. asked - Len(Tail(queued)) = (asked - Len(queued)) + 1
      BY <1>5, <2>3, <3>2, <3>3, Zenon
    <3> QED BY <3>1, <3>4
  <2>6. continuation' \in [Worker -> Nat] /\ continuation'[w] = Scheduled + 1
    <3>1. continuation \in [Worker -> Nat]
      BY DEF QInv, QTypes
    <3>2. Scheduled + 1 \in Nat
      BY <1>5
    <3> QED BY <2>1, <2>4, <3>1, <3>2
  <2>7. QTypes'
    <3>1. ItemsNumbered'
      BY <1>1, <2>1, <2>3 DEF ItemsNumbered
    <3> QED BY <1>1, <2>1, <2>2, <2>6, <3>1 DEF QInv, QTypes
  <2>8. CallInv'
    BY <1>1, <1>3, <2>1 DEF CallInv
  <2>9. TokenInv'
    <3>1. (Scheduled + 1) - 1 = Scheduled
      BY <1>5
    <3> QED BY <1>1, <1>2, <1>3, <2>1, <2>2, <2>5, <2>6, <3>1 DEF TokenInv
  <2>10. FulfilledInv'
    <3>1. \A n \in Nat : 1..n = {k \in 1..(n + 1) : k # n + 1}
      OBVIOUS
    <3>2. Open'
      BY <2>2 DEF Open
    <3> QED BY <1>1, <1>3, <1>5, <2>5, <3>1, <3>2 DEF FulfilledInv
  <2> QED BY <1>7, <2>2, <2>7, <2>8, <2>9, <2>10 DEF QInv
<1> QED BY <1>8, <1>9

LEMMA ContinueInv ==
  ASSUME Inv, QInv, NEW w \in Worker, Continue(w)
  PROVE  QInv'
<1>1. /\ pc[w] = "run" /\ stage[w] = "continue"
      /\ continuation' = [continuation EXCEPT ![w] = 0] /\ continuation \in [Worker -> Nat]
      /\ stage' = [stage EXCEPT ![w] = "return"] /\ stage \in [Worker -> Stages]
      /\ pc' = [pc EXCEPT ![w] = "run notify"] /\ DOMAIN pc = Worker
      /\ UNCHANGED <<IsTaskInFlight, fulfilled, life, asked, queued, owner>>
      /\ UNCHANGED <<task, done, EnableFlag, call>>
      /\ Submits(continuation[w])
  BY DEF Continue, To, AsyncFrom, Push, Goto, Submits, queueVars, Inv, Types, QInv, QTypes
<1>2. task[w] \in Items /\ w \in Continuing
  BY <1>1 DEF QInv, StageInv, Continuing
<1>3. carries[task[w]] # 0 /\ carries[task[w]] \in Nat
  <2>1. carries \in Seq(Nat) /\ task[w] \in DOMAIN carries /\ carries[task[w]] # 0
    BY <1>2 DEF Items, QInv, QTypes
  <2>2. \A i \in DOMAIN carries : carries[i] \in Nat
    BY <2>1, LenProperties, ElementOfSeq
  <2> QED BY <2>1, <2>2
<1>4. /\ Continuing = {w} /\ Pending = {} /\ Answered = {} /\ task[w] \notin done
      /\ life # "gone" /\ EnableFlag /\ (life = "destroying" => owner # "free")
  BY <1>1, <1>3, HoldsToken, NotGone
<1>5. /\ continuation[w] = Scheduled /\ carries[task[w]] = Scheduled - 1
      /\ IsTaskInFlight \/ call = "mark"
  BY <1>2 DEF QInv, TokenInv
<1>6. Scheduled # 0 /\ Scheduled \in Nat
  <2>1. Scheduled \in Nat
    BY QueueTypes DEF QInv
  <2> QED BY <1>3, <1>5, <2>1
<1>7. /\ DOMAIN carries' = 1..submitted' /\ carries' \in Seq(Nat)
      /\ submitted + 1 \notin DOMAIN carries /\ submitted + 1 \notin done
      /\ \A v \in Worker : task[v] # submitted + 1
      /\ carries'[submitted + 1] = Scheduled
      /\ Items' = Items \cup {submitted + 1}
  BY <1>1, <1>5, <1>6, SubmitItems
<1>8. /\ stage'[w] = "return" /\ \A v \in Worker : v # w => stage'[v] = stage[v]
      /\ stage' \in [Worker -> Stages]
      /\ pc'[w] = "run notify" /\ \A v \in Worker : v # w => pc'[v] = pc[v]
      /\ continuation' \in [Worker -> Nat]
  BY <1>1 DEF Stages
<1>9. Pending' = {submitted + 1}
  <2>1. submitted + 1 \in Pending'
    BY <1>1, <1>7 DEF Pending
  <2>2. ASSUME NEW t \in Pending', t \in Items PROVE FALSE
    <3>1. t \in Items \ done /\ \A v \in Worker : task[v] = t => stage'[v] \in {"call", "complete"}
      BY <1>1, <2>2 DEF Pending
    <3>2. \A v \in Worker : task[v] = t => stage[v] \in {"call", "complete"}
      BY <1>8, <3>1
    <3> QED BY <1>4, <3>1, <3>2 DEF Pending
  <2>3. \A t \in Pending' : t \in Items \cup {submitted + 1}
    BY <1>7 DEF Pending
  <2> QED BY <2>1, <2>2, <2>3
<1>10. Continuing' = {} /\ Answered' = {} /\ Scheduled' = Scheduled
  <2>1. Continuing' = {}
    BY <1>4, <1>8 DEF Continuing
  <2>2. Scheduled' = Scheduled
    BY <1>1 DEF Scheduled
  <2>3. Answered' = {}
    BY <1>1, <1>7, <1>9 DEF Answered
  <2> QED BY <2>1, <2>2, <2>3
<1>11. QTypes'
  BY <1>1, <1>7, <1>8 DEF QInv, QTypes, ItemsNumbered
<1>12. StageInv'
  BY <1>1, <1>2, <1>7, <1>8 DEF QInv, StageInv
<1>13. CallInv'
  BY <1>1, <1>10 DEF QInv, CallInv
<1>14. TokenInv'
  BY <1>1, <1>5, <1>7, <1>9, <1>10 DEF TokenInv
<1>15. FulfilledInv'
  <2>1. Open /\ Open'
    BY <1>4, <1>9, <1>10 DEF Open
  <2> QED BY <1>1, <1>10, <2>1 DEF QInv, FulfilledInv
<1>16. LifeInv'
  BY <1>1, <1>4 DEF QInv, LifeInv
<1> QED BY <1>11, <1>12, <1>13, <1>14, <1>15, <1>16 DEF QInv


LEMMA ReturnInv ==
  ASSUME Inv, QInv, NEW w \in Worker, Return(w)
  PROVE  QInv'
<1>1. /\ pc[w] = "run" /\ (carries[task[w]] = 0 \/ stage[w] = "return")
      /\ done' = done \cup {task[w]} /\ task' = [task EXCEPT ![w] = 0]
      /\ DOMAIN task = Worker /\ DOMAIN pc = Worker
      /\ stage' = [stage EXCEPT ![w] = "call"] /\ stage \in [Worker -> Stages]
      /\ pc' = [pc EXCEPT ![w] = "deactivate"]
      /\ UNCHANGED <<IsTaskInFlight, fulfilled, life, asked, queued, owner>>
      /\ UNCHANGED <<carries, continuation, submitted, EnableFlag, call>>
  BY DEF Return, Item, To, RunTask, Goto, queueVars, queueState, Inv, Types, QInv, QTypes
<1>2. /\ stage'[w] = "call" /\ task'[w] = 0 /\ pc'[w] = "deactivate"
      /\ \A v \in Worker : v # w => stage'[v] = stage[v] /\ task'[v] = task[v] /\ pc'[v] = pc[v]
      /\ stage' \in [Worker -> Stages]
  BY <1>1 DEF Stages
<1>3. Items' = Items /\ Scheduled' = Scheduled /\ 0 \notin Items
  <2>1. submitted \in Nat /\ DOMAIN carries = 1..submitted
    BY QueueTypes DEF QInv, QTypes
  <2> QED BY <1>1, <2>1 DEF Items, Scheduled
<1>4. stage[w] \in {"call", "return"} /\ task[w] \notin Pending
  <2>1. CASE stage[w] = "return"
    BY <2>1 DEF Pending
  <2>2. CASE carries[task[w]] = 0
    <3>1. task[w] \notin Items
      BY <2>2 DEF Items
    <3>2. stage[w] = "call"
      BY <3>1 DEF QInv, StageInv
    <3> QED BY <3>1, <3>2 DEF Pending
  <2> QED BY <1>1, <2>1, <2>2
<1>5. Continuing' = Continuing
  BY <1>2, <1>4 DEF Continuing
<1>6. Pending' = Pending
  <2>1. ASSUME NEW t \in Pending PROVE t \in Pending'
    <3>1. t # task[w] /\ t # 0
      BY <1>3, <1>4 DEF Pending
    <3>2. \A v \in Worker : task'[v] = t => v # w
      BY <1>2, <3>1
    <3> QED BY <1>1, <1>2, <1>3, <3>1, <3>2 DEF Pending
  <2>2. ASSUME NEW t \in Pending' PROVE t \in Pending
    <3>1. t # task[w] /\ t \in Items \ done
      BY <1>1, <1>3, <2>2 DEF Pending
    <3>2. \A v \in Worker : task[v] = t => v # w /\ task'[v] = t /\ stage'[v] = stage[v]
      BY <1>2, <3>1
    <3> QED BY <2>2, <3>1, <3>2 DEF Pending
  <2> QED BY <2>1, <2>2
<1>7. Answered' = Answered
  BY <1>2, <1>4, <1>6 DEF Answered
<1>8. QTypes'
  BY <1>1, <1>2 DEF QInv, QTypes, ItemsNumbered
<1>9. StageInv'
  BY <1>2, <1>3 DEF QInv, StageInv
<1>10. CallInv'
  BY <1>1, <1>3, <1>5 DEF QInv, CallInv
<1>11. TokenInv'
  <2>1. \A v \in Continuing : v \in Worker /\ v # w
    BY <1>4 DEF Continuing
  <2> QED BY <1>1, <1>2, <1>3, <1>5, <1>6, <2>1 DEF QInv, TokenInv
<1>12. FulfilledInv'
  BY <1>1, <1>3, <1>5, <1>6, <1>7 DEF QInv, FulfilledInv, Open
<1>13. LifeInv'
  BY <1>1, <1>3 DEF QInv, LifeInv
<1> QED BY <1>8, <1>9, <1>10, <1>11, <1>12, <1>13 DEF QInv

\* A plain task is none of the queue's business.
LEMMA PlainInv ==
  ASSUME Inv, QInv, PlainAsync \/ \E w \in Worker : PlainAsyncFrom(w)
  PROVE  QInv'
<1>1. /\ UNCHANGED <<IsTaskInFlight, continuation, fulfilled, stage, life, asked, queued>>
      /\ UNCHANGED <<task, done, EnableFlag, call>>
      /\ Submits(0)
  BY DEF PlainAsync, PlainAsyncFrom, Async, AsyncFrom, Push, Submits, queueState
<1>2. /\ owner' = owner \/ (call = "none" /\ owner = "free" /\ owner' = "async notify" /\ life # "destroying")
      /\ \A v \in Worker : /\ pc[v] = "run" /\ carries[task[v]] # 0 => pc'[v] = "run"
                           /\ pc'[v] = "run notify" => pc[v] = "run notify" \/ carries[task[v]] = 0
  <2>1. CASE PlainAsync
    BY <2>1 DEF PlainAsync, Async, OwnerFree
  <2>2. CASE \E w \in Worker : PlainAsyncFrom(w)
    BY <2>2 DEF PlainAsyncFrom, Item, AsyncFrom, Goto, Inv, Types
  <2> QED BY <2>1, <2>2
<1>3. /\ DOMAIN carries' = 1..submitted' /\ carries' \in Seq(Nat)
      /\ \A t \in DOMAIN carries : carries'[t] = carries[t]
      /\ Items' = Items
  <2>1. 0 \in Nat
    OBVIOUS
  <2> QED BY <1>1, <2>1, SubmitItems
<1>4. Continuing' = Continuing /\ Scheduled' = Scheduled /\ Pending' = Pending /\ Answered' = Answered
  <2>1. Continuing' = Continuing /\ Scheduled' = Scheduled /\ Pending' = Pending
    BY <1>1, <1>3 DEF Continuing, Scheduled, Pending
  <2>2. Answered' = Answered
    BY <1>1, <2>1 DEF Answered
  <2> QED BY <2>1, <2>2
<1>5. QTypes'
  BY <1>1, <1>3 DEF QInv, QTypes, ItemsNumbered
<1>6. StageInv'
  <2>1. ASSUME NEW v \in Worker
        PROVE  /\ stage[v] # "call" => task[v] \in Items
               /\ stage[v] \in {"complete", "continue"} => pc'[v] = "run"
               /\ task[v] \in Items /\ pc'[v] = "run notify" => stage[v] = "return"
    <3>1. /\ stage[v] # "call" => task[v] \in Items
          /\ stage[v] \in {"complete", "continue"} => pc[v] = "run"
          /\ task[v] \in Items /\ pc[v] = "run notify" => stage[v] = "return"
      BY DEF QInv, StageInv
    <3>2. task[v] \in Items => carries[task[v]] # 0
      BY DEF Items
    <3> QED BY <1>2, <3>1, <3>2
  <2> QED BY <1>1, <1>3, <2>1 DEF StageInv
<1>7. CallInv'
  BY <1>1, <1>2, <1>4 DEF QInv, CallInv
<1>8. TokenInv'
  <2>1. \A t \in Pending : t \in DOMAIN carries
    BY DEF Pending, Items
  <2>2. \A v \in Continuing : v \in Worker /\ task[v] \in DOMAIN carries
    BY DEF Continuing, Items, QInv, StageInv
  <2> QED BY <1>1, <1>3, <1>4, <2>1, <2>2 DEF QInv, TokenInv
<1>9. FulfilledInv'
  BY <1>1, <1>4 DEF QInv, FulfilledInv, Open
<1>10. LifeInv'
  BY <1>1, <1>2, <1>3 DEF QInv, LifeInv
<1> QED BY <1>5, <1>6, <1>7, <1>8, <1>9, <1>10 DEF QInv

LEMMA DestroyInv ==
  ASSUME Inv, QInv, DestroyQueue \/ QueueDestroyed
  PROVE  QInv'
<1>1. /\ UNCHANGED <<IsTaskInFlight, queued, continuation, asked, fulfilled, carries, stage, call>>
      /\ UNCHANGED <<carries, stage, task, done>> /\ UNCHANGED <<submitted, pc, EnableFlag>>
  BY DEF DestroyQueue, QueueDestroyed, CallWait, vars, queueVars, queueState, itemVars
<1>2. Scheduled' = Scheduled
  BY <1>1 DEF Scheduled
<1>3. StageInv' /\ TokenInv' /\ FulfilledInv'
  <2>1. StageInv'
    BY <1>1, SameSets DEF QInv, StageInv
  <2>2. TokenInv'
    BY <1>1, <1>2, SameSets DEF QInv, TokenInv
  <2>3. FulfilledInv'
    BY <1>1, <1>2, SameSets DEF QInv, FulfilledInv, Open
  <2> QED BY <2>1, <2>2, <2>3
<1>4. CASE DestroyQueue
  <2>1. life = "alive" /\ life' = "destroying" /\ call = "none" /\ owner' = "wait"
    BY <1>4 DEF DestroyQueue, OwnerFree, CallWait
  <2>2. QTypes' /\ CallInv' /\ LifeInv'
    BY <1>1, <2>1 DEF QInv, QTypes, ItemsNumbered, CallInv, LifeInv
  <2> QED BY <1>3, <2>2 DEF QInv
<1>5. CASE QueueDestroyed
  <2>1. life = "destroying" /\ life' = "gone" /\ owner = "free" /\ owner' = "free"
    BY <1>5 DEF QueueDestroyed, vars
  <2>2. call = "none"
    BY <2>1 DEF QInv, QTypes, CallInv
  <2>3. QTypes' /\ CallInv'
    BY <1>1, <2>1, <2>2 DEF QInv, QTypes, ItemsNumbered, CallInv
  <2>4. LifeInv'
    BY <1>1, <2>1, SameSets DEF QInv, LifeInv
  <2> QED BY <1>3, <2>3, <2>4 DEF QInv
<1> QED BY <1>4, <1>5

-----------------------------------------------------------------------------
(* The queue uses the pool as the pool allows.                             *)

\* Every step of the queue is one of the pool or none.  What needs the
\* invariant: a worker that schedules the next item finds the pool enabled.
LEMMA QueueUsesPool ==
  ASSUME Inv, QInv, NextQueue
  PROVE  Next \/ UNCHANGED vars
<1>1. ASSUME NEW w \in Worker, Continue(w) PROVE EnableFlag /\ AsyncFrom(w)
  <2>1. pc[w] = "run" /\ stage[w] = "continue"
    BY <1>1 DEF Continue, AsyncFrom
  <2>2. carries[task[w]] # 0
    BY <2>1 DEF QInv, StageInv, Items
  <2> QED BY <1>1, <2>1, <2>2, NotGone DEF Continue
<1>2. ASSUME NEW w \in Worker, WorkerGoesOn(w) \/ PlainAsyncFrom(w) PROVE Next \/ UNCHANGED vars
  BY <1>1, <1>2 DEF WorkerGoesOn, SetPromise, CompleteTask, Return, PlainAsyncFrom, Next
<1>3. CASE OwnerGoesOn
  BY <1>3 DEF OwnerGoesOn, ScheduleItem, MarkInFlight, QueueDestroyed, Next
<1>4. CASE AddItem \/ DestroyQueue \/ PlainAsync \/ OwnerCall
  BY <1>4 DEF AddItem, DestroyQueue, PlainAsync, OwnerCall, Next
<1>5. CASE SpuriousWakeUp /\ UNCHANGED tqVars
  BY <1>5 DEF Next
<1> QED BY <1>2, <1>3, <1>4, <1>5 DEF NextQueue

LEMMA NextQInv == Inv /\ QInv /\ [NextQueue]_allVars => Inv' /\ QInv' /\ [Next]_vars
<1> SUFFICES ASSUME Inv, QInv, [NextQueue]_allVars PROVE Inv' /\ QInv' /\ [Next]_vars
  OBVIOUS
<1>1. [Next]_vars
  BY QueueUsesPool DEF allVars
<1>2. Inv'
  BY <1>1, NextInv
<1>3. CASE NextQueue
  <2>1. ASSUME PoolStep PROVE QInv'
    BY <1>2, <2>1, PoolStepQuiet, QuietInv
  <2>2. ASSUME \E w \in Worker : \/ SetPromise(w) \/ CompleteTask(w) \/ Continue(w)
                                 \/ Return(w) \/ PlainAsyncFrom(w)
        PROVE  QInv'
    BY <2>2, SetPromiseInv, CompleteTaskInv, ContinueInv, ReturnInv, PlainInv
  <2>3. ASSUME \/ ScheduleItem \/ MarkInFlight \/ QueueDestroyed
               \/ AddItem \/ DestroyQueue \/ PlainAsync
        PROVE  QInv'
    BY <2>3, ScheduleItemInv, MarkInFlightInv, DestroyInv, AddItemInv, PlainInv
  <2>4. QInv'
    BY <1>3, <2>1, <2>2, <2>3 DEF NextQueue, WorkerGoesOn, OwnerGoesOn, PoolStep
  <2> QED BY <1>1, <1>2, <2>4
<1>4. CASE UNCHANGED allVars
  <2>1. QInv'
    <3>1. Quiet /\ OwnerQuiet
      BY <1>4 DEF allVars, vars, queueVars, Quiet, OwnerQuiet
    <3> QED BY <1>2, <3>1, QuietInv
  <2> QED BY <1>1, <1>2, <2>1
<1> QED BY <1>3, <1>4

\* The task queue runs the pool only as the pool's own specification says,
\* among it that no task is submitted to a pool being destroyed: what holds
\* of the pool holds of a pool with a queue.
THEOREM QueueRespectsPool == SpecQueue => Spec
<1>1. InitQueue => Init /\ Inv /\ QInv
  BY InitInv, InitQInv DEF InitQueue
<1> QED BY <1>1, NextQInv, PTL DEF SpecQueue, Spec


\* So a pool with a queue on it has the invariants of the pool: what the run
\* ThreadPool checks, for any numbers of workers, tasks and items.
THEOREM PoolWithQueueCorrect == SpecQueue => [](TypeOK /\ NoTasksRace /\ NoIdleThread)
BY QueueRespectsPool, TypeCorrect, NoTasksRaceCorrect, NoIdleThreadCorrect, PTL

-----------------------------------------------------------------------------
(* The refinement of the serial executor, step by step.                    *)

\* The workers inside the queue: there is one at most, so one item is in
\* flight at most.
Serving == {w \in Worker : Item(w) # 0 /\ stage[w] # "return"}

SerialView == CASE life = "alive" -> "free"
                [] life = "destroying" -> "closing"
                [] OTHER -> "closed"

LEMMA ServingOne ==
  ASSUME Inv, QInv
  PROVE  /\ \A w \in Serving : /\ w \in Worker /\ pc[w] = "run" /\ task[w] \in Items
                               /\ InFlight = {carries[task[w]]} /\ Serving = {w}
         /\ Serving = {} => InFlight = {}
<1>1. ASSUME NEW w \in Serving
      PROVE  /\ w \in Worker /\ pc[w] = "run" /\ carries[task[w]] # 0
             /\ stage[w] \in {"call", "complete", "continue"} /\ Item(w) = carries[task[w]]
  BY DEF Serving, Item, QInv, QTypes, Stages
<1>2. ASSUME NEW v \in Serving, NEW w \in Serving PROVE v = w
  <2>1. \/ Pending = {task[w]} /\ Continuing = {}
        \/ Continuing = {w} /\ Pending = {}
    BY <1>1, HoldsToken
  <2>2. \/ Pending = {task[v]} /\ Continuing = {}
        \/ Continuing = {v} /\ Pending = {}
    BY <1>1, HoldsToken
  <2>3. CASE Pending = {}
    BY <2>1, <2>2, <2>3
  <2>4. CASE Pending = {task[w]} /\ Pending = {task[v]}
    <3>1. task[v] = task[w] /\ task[v] # 0
      BY <1>1, <2>4 DEF Inv, TaskInv, Running
    <3> QED BY <1>1, <3>1 DEF Inv, TaskInv, TasksTaken, Taken
  <2> QED BY <2>1, <2>2, <2>3, <2>4
<1>3. InFlight = {Item(w) : w \in Serving}
  BY DEF InFlight, Serving
<1>4. ASSUME NEW w \in Serving
      PROVE  InFlight = {carries[task[w]]} /\ Serving = {w} /\ task[w] \in Items
  <2>1. Serving = {w}
    BY <1>2
  <2>2. task[w] \in Items
    BY <1>1, HoldsToken
  <2> QED BY <1>1, <1>3, <2>1, <2>2
<1> QED BY <1>1, <1>3, <1>4

\* With the same workers at the same items the same item is in flight.
LEMMA InFlightSame ==
  ASSUME Inv, QInv, Serving' = Serving,
         \A w \in Serving : pc'[w] = "run" /\ carries'[task'[w]] = carries[task[w]]
  PROVE  InFlight' = InFlight
<1>1. \A w \in Serving : Item(w)' = carries'[task'[w]] /\ Item(w) = carries[task[w]]
  BY DEF Item, Serving
<1>2. InFlight = {Item(w) : w \in Serving} /\ InFlight' = {Item(w)' : w \in Serving'}
  BY DEF InFlight, Serving
<1> QED BY <1>1, <1>2

LEMMA SerialInit == InitQueue => SerialExecutor!Init
BY DEF InitQueue, Init, SerialExecutor!Init, InFlight, Item

SerialSees == <<asked, InFlight, fulfilled \ InFlight, SerialView>>

LEMMA SerialCardinality == \A S : SerialExecutor!Cardinality(S) = Cardinality(S)
BY DEF SerialExecutor!Cardinality, Cardinality

\* A worker has a task that was submitted, before and after a step.
LEMMA TaskRange == Inv => \A w \in Worker : task[w] # 0 => task[w] \in 1..submitted
<1> SUFFICES ASSUME Inv, NEW w \in Worker, task[w] # 0 PROVE task[w] \in 1..submitted
  OBVIOUS
<1>1. RunningTasks \cup done = 1..Popped /\ Popped \in 0..submitted /\ submitted \in Nat
  BY RunningType, PoppedType DEF Inv
<1>2. task[w] \in 1..Popped
  BY <1>1, RunningType
<1>3. \A m, n \in Nat : m \in 0..n => 1..m \subseteq 1..n
  OBVIOUS
<1> QED BY <1>1, <1>2, <1>3

LEMMA TaskRangeNext == Inv' => (\A w \in Worker : task[w] # 0 => task[w] \in 1..submitted)'
BY TaskRange, PTL

\* A worker that takes an item from the pool starts the next one.
LEMMA TakingIsStart ==
  ASSUME Inv, QInv, Inv', Quiet, NEW v \in Serving', v \notin Serving
  PROVE  SerialExecutor!Start
<1>1. /\ UNCHANGED <<asked, queued, fulfilled, carries, stage, call, life>>
      /\ submitted' = submitted /\ done' = done
      /\ \A w \in Worker : task'[w] = task[w] \/ task[w] = 0
      /\ \A w \in Worker : /\ pc[w] = "run" => pc'[w] = "run"
                           /\ pc'[w] = "run notify" => pc[w] = "run notify"
  BY DEF Quiet, tqVars, queueState, itemVars
<1>2. /\ Items' = Items /\ Pending' = Pending /\ Answered' = Answered
      /\ Continuing' = Continuing /\ Scheduled' = Scheduled
  BY QuietSets
<1>3. ASSUME NEW w \in Serving', w \notin Serving
      PROVE  /\ w \in Worker /\ task[w] = 0 /\ stage[w] = "call"
             /\ pc'[w] = "run" /\ task'[w] \in Pending
             /\ \A u \in Worker : task'[u] = task'[w] => u = w
  <2>1. w \in Worker /\ pc'[w] = "run" /\ carries[task'[w]] # 0 /\ stage[w] # "return"
    BY <1>1 DEF Serving, Item
  <2>2. task'[w] # 0 /\ task'[w] \notin done /\ \A u \in Worker : task'[u] = task'[w] => u = w
    <3>1. TaskInv'
      BY DEF Inv
    <3>2. pc'[w] \in Running
      BY <2>1 DEF Running
    <3>3. task'[w] # 0
      BY <2>1, <3>1, <3>2 DEF TaskInv
    <3>4. task'[w] \notin done /\ \A u \in Worker : task'[u] = task'[w] => u = w
      BY <1>1, <2>1, <3>1, <3>3 DEF TaskInv, TasksTaken, Taken
    <3> QED BY <3>3, <3>4
  <2>3. task'[w] \in Items
    <3>1. task'[w] \in 1..submitted
      BY <1>1, <2>1, <2>2, TaskRangeNext
    <3> QED BY <2>1, <3>1, <1>1 DEF Items, QInv, QTypes
  <2>4. task[w] = 0
    <3>1. CASE pc[w] = "run"
      BY <1>1, <1>3, <2>1, <3>1 DEF Serving, Item
    <3>2. CASE pc[w] = "run notify"
      <4>1. task[w] # 0 => task[w] \in Items
        BY <1>1, <2>1, <2>3
      <4> QED BY <2>1, <3>2, <4>1 DEF QInv, StageInv
    <3>3. CASE pc[w] \notin Running
      BY <2>1, <3>3 DEF Inv, TaskInv
    <3> QED BY <3>1, <3>2, <3>3 DEF Running
  <2>5. stage[w] = "call"
    <3>1. 0 \notin Items
      <4>1. submitted \in Nat /\ DOMAIN carries = 1..submitted
        BY QueueTypes DEF QInv, QTypes
      <4> QED BY <4>1 DEF Items
    <3> QED BY <2>1, <2>4, <3>1 DEF QInv, StageInv
  <2>6. task'[w] \in Pending'
    BY <1>1, <1>2, <2>2, <2>3, <2>5 DEF Pending
  <2> QED BY <1>2, <2>1, <2>2, <2>4, <2>5, <2>6
<1>4. Pending = {task'[v]} /\ Continuing = {} /\ carries[task'[v]] = Scheduled
  BY <1>3 DEF QInv, TokenInv
<1>5. Serving = {}
  <2>1. ASSUME NEW w \in Serving PROVE FALSE
    <3>1. w \in Worker /\ pc[w] = "run" /\ carries[task[w]] # 0 /\ stage[w] \in {"call", "complete", "continue"}
      BY <2>1 DEF Serving, Item, QInv, QTypes, Stages
    <3>2. Pending = {task[w]}
      BY <1>4, <3>1, HoldsToken
    <3>3. task[w] # 0
      BY <3>1 DEF Inv, TaskInv, Running
    <3>4. task'[w] = task'[v]
      BY <1>1, <1>4, <3>1, <3>2, <3>3
    <3> QED BY <1>3, <3>1, <3>3, <3>4
  <2> QED BY <2>1
<1>6. Serving' = {v}
  <2>1. ASSUME NEW w \in Serving' PROVE w = v
    <3>1. task'[w] \in Pending /\ w \in Worker
      BY <1>3, <1>5, <2>1
    <3> QED BY <1>3, <1>4, <3>1
  <2> QED BY <2>1
<1>7. InFlight = {} /\ InFlight' = {Scheduled}
  <2>1. InFlight = {}
    BY <1>5 DEF InFlight, Serving
  <2>2. Item(v)' = Scheduled
    BY <1>1, <1>3, <1>4 DEF Item
  <2>3. InFlight' = {Item(w)' : w \in Serving'}
    BY DEF InFlight, Serving
  <2> QED BY <1>6, <2>1, <2>2, <2>3
<1>8. fulfilled = 1..(Scheduled - 1) /\ Scheduled \in Nat /\ Scheduled # 0 /\ Scheduled <= asked
  <2>1. Answered' = {}
    <3>1. /\ stage'[v] = "call" /\ Pending' = {task'[v]}
          /\ \A u \in Worker : task'[u] = task'[v] => u = v
      BY <1>1, <1>2, <1>3, <1>4
    <3> QED BY <3>1 DEF Answered
  <2>2. fulfilled = {k \in 1..Scheduled : k # Scheduled}
    BY <1>2, <1>4, <2>1 DEF QInv, FulfilledInv, Open
  <2>3. Scheduled \in 0..asked /\ asked \in Nat
    BY QueueTypes DEF QInv
  <2>4. Scheduled # 0
    BY <1>3, <1>4 DEF Pending, Items
  <2>5. \A n \in Nat : {k \in 1..n : k # n} = 1..(n - 1)
    OBVIOUS
  <2> QED BY <2>2, <2>3, <2>4, <2>5
<1>9. Cardinality(fulfilled) + 1 = Scheduled
  <2>1. \A n \in Nat : n # 0 => Cardinality(1..(n - 1)) + 1 = n
    <3> TAKE n \in Nat
    <3>1. Cardinality(1..(n - 1)) = IF 1 > n - 1 THEN 0 ELSE (n - 1) - 1 + 1
      BY FS_Interval
    <3> QED BY <3>1
  <2> QED BY <1>8, <2>1, Zenon
<1>10. /\ SerialExecutor!Cardinality(InFlight \cup (fulfilled \ InFlight)) + 1 = Scheduled
       /\ SerialExecutor!Cardinality(InFlight) = 0
       /\ fulfilled \ InFlight' = fulfilled \ InFlight
  <2>1. InFlight \cup (fulfilled \ InFlight) = fulfilled
    BY <1>7
  <2>2. fulfilled \ InFlight' = fulfilled \ InFlight
    BY <1>7, <1>8
  <2>3. Cardinality(InFlight) = 0
    BY <1>7, FS_EmptySet
  <2> QED BY <1>9, <2>1, <2>2, <2>3, SerialCardinality
<1>11. SerialView' = SerialView
  BY <1>1 DEF SerialView
<1> DEFINE next == SerialExecutor!Cardinality(InFlight \cup (fulfilled \ InFlight)) + 1
<1>12. /\ next <= asked /\ SerialExecutor!Cardinality(InFlight) < 1
       /\ InFlight' = InFlight \cup {next}
  BY <1>7, <1>8, <1>10
<1>13. UNCHANGED <<asked, fulfilled \ InFlight, SerialView>>
  BY <1>1, <1>10, <1>11
<1> QED BY <1>12, <1>13, Zenon DEF SerialExecutor!Start, SerialView

\* Steps the serial executor does not see.
LEMMA Unseen ==
  ASSUME Inv, QInv, UNCHANGED <<asked, life, fulfilled>>, Serving' = Serving,
         \A w \in Serving : pc'[w] = "run" /\ carries'[task'[w]] = carries[task[w]]
  PROVE  UNCHANGED SerialSees
<1>1. InFlight' = InFlight
  BY InFlightSame
<1> QED BY <1>1 DEF SerialSees, SerialView

LEMMA PoolStepSerial ==
  ASSUME Inv, QInv, Inv', PoolStep
  PROVE  SerialExecutor!Next \/ UNCHANGED SerialSees
<1>1. Quiet
  BY PoolStepQuiet
<1>2. ASSUME NEW w \in Serving
      PROVE  w \in Serving' /\ pc'[w] = "run" /\ carries'[task'[w]] = carries[task[w]]
  <2>1. w \in Worker /\ pc[w] = "run" /\ carries[task[w]] # 0 /\ stage[w] # "return"
    BY <1>2 DEF Serving, Item
  <2>2. task[w] # 0
    BY <2>1 DEF Inv, TaskInv, Running
  <2>3. task'[w] = task[w] /\ pc'[w] = "run" /\ UNCHANGED <<carries, stage>>
    BY <1>1, <2>1, <2>2 DEF Quiet, tqVars, itemVars
  <2> QED BY <2>1, <2>3 DEF Serving, Item
<1>3. CASE Serving' = Serving
  <2>1. UNCHANGED <<asked, life, fulfilled>>
    BY <1>1 DEF Quiet, tqVars, itemVars
  <2> QED BY <1>2, <1>3, <2>1, Unseen
<1>4. CASE Serving' # Serving
  <2>1. PICK v \in Serving' : v \notin Serving
    BY <1>2, <1>4
  <2> QED BY <1>1, <2>1, TakingIsStart DEF SerialExecutor!Next
<1> QED BY <1>3, <1>4

\* The promise of an item is set while the item is still in flight.
LEMMA PromiseUnseen ==
  ASSUME Inv, QInv, NEW w \in Worker, SetPromise(w)
  PROVE  UNCHANGED SerialSees
<1>1. /\ pc[w] = "run" /\ carries[task[w]] # 0 /\ stage[w] = "call"
      /\ stage' = [stage EXCEPT ![w] = "complete"] /\ DOMAIN stage = Worker
      /\ fulfilled' = fulfilled \cup {carries[task[w]]}
      /\ UNCHANGED <<pc, task, carries, asked, life>>
  BY DEF SetPromise, Item, To, vars, QInv, QTypes
<1>2. w \in Serving
  BY <1>1 DEF Serving, Item
<1>3. Serving' = Serving
  BY <1>1 DEF Serving, Item
<1>4. InFlight = {carries[task[w]]} /\ pc[w] = "run"
  BY <1>2, ServingOne
<1>5. InFlight' = InFlight
  BY <1>1, <1>3, InFlightSame, ServingOne
<1> QED BY <1>1, <1>4, <1>5 DEF SerialSees, SerialView

\* A worker that leaves the queue finishes its item.
LEMMA LeavingIsFinish ==
  ASSUME Inv, QInv, NEW w \in Worker, pc[w] = "run", carries[task[w]] # 0,
         stage[w] \in {"complete", "continue"}, Serving' = Serving \ {w},
         UNCHANGED <<asked, life, fulfilled>>
  PROVE  SerialExecutor!Next
<1>1. w \in Serving
  BY DEF Serving, Item
<1>2. Serving = {w} /\ InFlight = {carries[task[w]]}
  BY <1>1, ServingOne
<1>3. InFlight' = {}
  <2>1. InFlight' = {Item(v)' : v \in Serving'}
    BY DEF InFlight, Serving
  <2> QED BY <1>2, <2>1
<1>4. Scheduled \in 0..asked /\ asked \in 0..MaxItems /\ MaxItems \in Nat
  BY QueueTypes DEF QInv, QTypes
<1>5. carries[task[w]] \in 1..MaxItems /\ carries[task[w]] \in fulfilled
  <2>1. task[w] \in Items
    BY <1>1, ServingOne
  <2>2. carries[task[w]] \in Nat
    <3>1. carries \in Seq(Nat) /\ task[w] \in DOMAIN carries
      BY <2>1 DEF Items, QInv, QTypes
    <3> QED BY <3>1, LenProperties, ElementOfSeq
  <2>3. CASE stage[w] = "complete"
    <3>1. carries[task[w]] = Scheduled /\ Pending = Answered /\ Continuing = {} /\ Pending # {}
      BY <2>3, HoldsToken
    <3>2. ~Open
      BY <3>1 DEF Open, QInv, CallInv, TokenInv
    <3>3. fulfilled = 1..Scheduled
      BY <3>2 DEF QInv, FulfilledInv
    <3>4. \A n, m \in Nat : n # 0 /\ n <= m => n \in 1..n /\ n \in 1..m
      OBVIOUS
    <3>5. Scheduled \in Nat /\ Scheduled # 0 /\ Scheduled <= MaxItems
      BY <1>4, <2>2, <3>1
    <3> QED BY <1>4, <3>1, <3>3, <3>4, <3>5
  <2>4. CASE stage[w] = "continue"
    <3>1. w \in Continuing
      BY <2>4 DEF Continuing
    <3>2. carries[task[w]] = Scheduled - 1
      BY <3>1 DEF QInv, TokenInv
    <3>3. fulfilled = {k \in 1..Scheduled : k # Scheduled}
      BY <3>1 DEF QInv, FulfilledInv, Open
    <3>4. \A c, n, m \in Nat : c # 0 /\ c = n - 1 /\ n <= m =>
            c \in 1..m /\ c \in 1..n /\ c # n
      OBVIOUS
    <3>5. Scheduled \in Nat /\ Scheduled <= MaxItems
      BY <1>4
    <3> QED BY <1>4, <2>2, <3>2, <3>3, <3>4, <3>5
  <2> QED BY <2>3, <2>4
<1>6. PICK t \in 1..MaxItems : t = carries[task[w]]
  BY <1>5
<1>7. /\ t \in InFlight /\ InFlight' = InFlight \ {t}
      /\ (fulfilled \ InFlight)' = (fulfilled \ InFlight) \cup {t}
  BY <1>2, <1>3, <1>5, <1>6
<1>8. UNCHANGED <<asked, SerialView>>
  BY DEF SerialView
<1>9. SerialExecutor!Finish(t)
  BY <1>7, <1>8 DEF SerialExecutor!Finish, SerialView
<1> QED BY <1>6, <1>9 DEF SerialExecutor!Next

LEMMA CompleteTaskSerial ==
  ASSUME Inv, QInv, NEW w \in Worker, CompleteTask(w)
  PROVE  SerialExecutor!Next \/ UNCHANGED SerialSees
<1>1. /\ pc[w] = "run" /\ carries[task[w]] # 0 /\ stage[w] = "complete" /\ DOMAIN stage = Worker
      /\ UNCHANGED <<asked, life, fulfilled>> /\ UNCHANGED <<pc, task, carries>>
  BY DEF CompleteTask, Item, vars, QInv, QTypes
<1>2. CASE queued = <<>>
  <2>1. stage' = [stage EXCEPT ![w] = "return"]
    BY <1>2 DEF CompleteTask, To
  <2>2. Serving' = Serving \ {w}
    BY <1>1, <2>1 DEF Serving, Item
  <2> QED BY <1>1, <2>2, LeavingIsFinish
<1>3. CASE queued # <<>>
  <2>1. stage' = [stage EXCEPT ![w] = "continue"]
    BY <1>3 DEF CompleteTask, To
  <2>2. Serving' = Serving
    BY <1>1, <2>1 DEF Serving, Item
  <2> QED BY <1>1, <2>2, Unseen, ServingOne
<1> QED BY <1>2, <1>3

LEMMA ContinueSerial ==
  ASSUME Inv, QInv, NEW w \in Worker, Continue(w)
  PROVE  SerialExecutor!Next
<1>1. /\ pc[w] = "run" /\ stage[w] = "continue" /\ DOMAIN stage = Worker /\ DOMAIN pc = Worker
      /\ UNCHANGED <<asked, life, fulfilled>> /\ task' = task
      /\ stage' = [stage EXCEPT ![w] = "return"] /\ pc' = [pc EXCEPT ![w] = "run notify"]
      /\ Submits(continuation[w])
  BY DEF Continue, AsyncFrom, Push, Goto, To, Submits, Inv, Types, QInv, QTypes
<1>2. carries[task[w]] # 0 /\ continuation[w] \in Nat
  BY <1>1 DEF QInv, QTypes, StageInv, Items
<1>3. \A t \in DOMAIN carries : carries'[t] = carries[t]
  BY <1>1, <1>2, SubmitItems
<1>4. \A v \in Worker : pc[v] = "run" => task[v] \in DOMAIN carries
  BY TaskRange DEF Inv, TaskInv, Running, QInv, QTypes
<1>5. Serving' = Serving \ {w}
  <2>1. \A v \in Worker : v # w /\ pc[v] = "run" => carries'[task'[v]] = carries[task[v]]
    BY <1>1, <1>3, <1>4
  <2> QED BY <1>1, <2>1 DEF Serving, Item
<1> QED BY <1>1, <1>2, <1>5, LeavingIsFinish

\* A task that ends, and a plain one that is submitted, are no items in flight.
LEMMA ReturnUnseen ==
  ASSUME Inv, QInv, NEW w \in Worker, Return(w)
  PROVE  UNCHANGED SerialSees
<1>1. /\ pc[w] = "run" /\ (carries[task[w]] = 0 \/ stage[w] = "return")
      /\ task' = [task EXCEPT ![w] = 0] /\ stage' = [stage EXCEPT ![w] = "call"]
      /\ pc' = [pc EXCEPT ![w] = "deactivate"]
      /\ DOMAIN stage = Worker /\ DOMAIN pc = Worker /\ DOMAIN task = Worker
      /\ UNCHANGED <<asked, life, fulfilled>> /\ carries' = carries
  BY DEF Return, RunTask, Item, Goto, To, Inv, Types, QInv, QTypes
<1>2. w \notin Serving
  BY <1>1 DEF Serving, Item
<1>3. \A v \in Worker : v # w => pc'[v] = pc[v] /\ task'[v] = task[v] /\ stage'[v] = stage[v]
  BY <1>1
<1>4. Serving' = Serving
  <2>1. w \notin Serving'
    BY <1>1 DEF Serving, Item
  <2> QED BY <1>1, <1>2, <1>3, <2>1 DEF Serving, Item
<1> QED BY <1>1, <1>2, <1>3, <1>4, Unseen, ServingOne

LEMMA SubmitUnseen ==
  ASSUME Inv, QInv, ScheduleItem \/ PlainAsync \/ \E w \in Worker : PlainAsyncFrom(w)
  PROVE  UNCHANGED SerialSees
<1>1. /\ UNCHANGED <<asked, life, fulfilled>> /\ UNCHANGED <<task, stage>>
      /\ \E x \in Nat : Submits(x)
  <2>1. asked \in Nat /\ 0 \in Nat
    BY QueueTypes DEF QInv
  <2>2. UNCHANGED <<asked, life, fulfilled>> /\ UNCHANGED <<task, stage>>
    BY DEF ScheduleItem, PlainAsync, PlainAsyncFrom, Async, AsyncFrom
  <2>3. Submits(asked) \/ Submits(0)
    BY DEF ScheduleItem, PlainAsync, PlainAsyncFrom, Async, AsyncFrom, Push, Submits, queueState
  <2> QED BY <2>1, <2>2, <2>3
<1>2. \A t \in DOMAIN carries : carries'[t] = carries[t]
  BY <1>1, SubmitItems
<1>3. \A v \in Worker : pc[v] = "run" => task[v] \in DOMAIN carries
  BY TaskRange DEF Inv, TaskInv, Running, QInv, QTypes
<1>4. \A v \in Worker : pc'[v] = pc[v] \/ (pc[v] = "run" /\ carries[task[v]] = 0 /\ pc'[v] = "run notify")
  BY DEF ScheduleItem, PlainAsync, PlainAsyncFrom, Async, AsyncFrom, Item, Goto, Inv, Types
<1>5. \A v \in Worker : Item(v)' = Item(v)
  <2> TAKE v \in Worker
  <2>1. pc[v] = "run" => carries'[task'[v]] = carries[task[v]]
    BY <1>1, <1>2, <1>3
  <2> QED BY <1>4, <2>1 DEF Item
<1>6. Serving' = Serving
  BY <1>1, <1>5 DEF Serving
<1>7. InFlight' = InFlight
  <2>1. InFlight = {Item(v) : v \in Serving} /\ InFlight' = {Item(v)' : v \in Serving'}
    BY DEF InFlight, Serving
  <2>2. \A v \in Serving : Item(v)' = Item(v)
    BY <1>5 DEF Serving
  <2> QED BY <1>6, <2>1, <2>2
<1> QED BY <1>1, <1>7 DEF SerialSees, SerialView

\* The owner's calls: adding an item, and destroying the queue.
LEMMA OwnerFrameSerial ==
  ASSUME Inv, QInv, UNCHANGED <<pc, task, carries, stage>>
  PROVE  InFlight' = InFlight
BY DEF InFlight, Item

LEMMA AddItemIsSubmit == ASSUME Inv, QInv, AddItem PROVE SerialExecutor!Submit
<1>1. /\ life = "alive" /\ life' = life /\ asked < MaxItems /\ asked' = asked + 1
      /\ fulfilled' = fulfilled /\ InFlight' = InFlight
  BY OwnerFrameSerial DEF AddItem, vars
<1>2. SerialView = "free" /\ SerialView' = SerialView
  BY <1>1 DEF SerialView
<1>3. fulfilled' \ InFlight' = fulfilled \ InFlight
  BY <1>1
<1> QED BY <1>1, <1>2, <1>3 DEF SerialExecutor!Submit, SerialView

LEMMA DestroyIsBegin == ASSUME Inv, QInv, DestroyQueue PROVE SerialExecutor!Begin("closing")
<1>1. /\ life = "alive" /\ life' = "destroying" /\ asked' = asked
      /\ fulfilled' = fulfilled /\ InFlight' = InFlight
  BY OwnerFrameSerial DEF DestroyQueue, CallWait, itemVars
<1>2. SerialView = "free" /\ SerialView' = "closing"
  BY <1>1 DEF SerialView
<1>3. fulfilled' \ InFlight' = fulfilled \ InFlight
  BY <1>1
<1> QED BY <1>1, <1>2, <1>3 DEF SerialExecutor!Begin, SerialView

\* The destructor returns when all items have run and left the queue.
LEMMA DestroyedIsEnd == ASSUME Inv, QInv, QueueDestroyed PROVE SerialExecutor!End
<1>1. /\ life = "destroying" /\ owner = "free" /\ life' = "gone" /\ asked' = asked
      /\ fulfilled' = fulfilled /\ InFlight' = InFlight
  BY OwnerFrameSerial DEF QueueDestroyed, vars, itemVars
<1>2. Items \subseteq done
  BY <1>1 DEF QInv, LifeInv
<1>3. Pending = {} /\ Continuing = {}
  <2>1. Pending = {}
    BY <1>2 DEF Pending
  <2>2. ASSUME NEW w \in Continuing PROVE FALSE
    <3>1. w \in Worker /\ stage[w] = "continue" /\ task[w] \in Items
      BY <2>2 DEF Continuing, QInv, StageInv
    <3>2. task[w] \notin done
      BY <3>1 DEF Inv, TaskInv, TasksTaken, Taken
    <3> QED BY <1>2, <3>1, <3>2
  <2> QED BY <2>1, <2>2
<1>4. ~IsTaskInFlight /\ call = "none"
  BY <1>1, <1>3 DEF QInv, QTypes, TokenInv, CallInv
<1>5. fulfilled = 1..asked
  BY <1>4, NoToken
<1>6. InFlight = {}
  <2>1. ASSUME NEW w \in Serving PROVE FALSE
    <3>1. w \in Worker /\ task[w] \in Items
      BY <2>1, ServingOne
    <3>2. task[w] \notin done
      BY <3>1 DEF Inv, TaskInv, TasksTaken, Taken
    <3> QED BY <1>2, <3>1, <3>2
  <2> QED BY <2>1, ServingOne
<1>7. SerialView = "closing" /\ SerialView' = "closed"
  BY <1>1 DEF SerialView
<1>8. fulfilled' \ InFlight' = fulfilled \ InFlight /\ fulfilled \ InFlight = 1..asked
  BY <1>1, <1>5, <1>6
<1> QED BY <1>1, <1>7, <1>8 DEF SerialExecutor!End, SerialExecutor!AllDone, SerialView

LEMMA NextSerial ==
  ASSUME Inv, QInv, Inv', NextQueue
  PROVE  SerialExecutor!Next \/ UNCHANGED SerialSees
<1>1. CASE PoolStep
  BY <1>1, PoolStepSerial
<1>2. ASSUME NEW w \in Worker, SetPromise(w) \/ CompleteTask(w) \/ Continue(w) \/ Return(w)
      PROVE  SerialExecutor!Next \/ UNCHANGED SerialSees
  BY <1>2, PromiseUnseen, CompleteTaskSerial, ContinueSerial, ReturnUnseen
<1>3. CASE ScheduleItem \/ PlainAsync \/ \E w \in Worker : PlainAsyncFrom(w)
  BY <1>3, SubmitUnseen
<1>4. CASE MarkInFlight
  <2>1. /\ UNCHANGED <<pc, task, carries, stage>> /\ UNCHANGED <<asked, life, fulfilled>>
    BY <1>4 DEF MarkInFlight, vars, itemVars
  <2> QED BY <2>1, OwnerFrameSerial DEF SerialSees, SerialView
<1>5. CASE AddItem
  BY <1>5, AddItemIsSubmit DEF SerialExecutor!Next
<1>6. CASE DestroyQueue
  BY <1>6, DestroyIsBegin DEF SerialExecutor!Next
<1>7. CASE QueueDestroyed
  BY <1>7, DestroyedIsEnd DEF SerialExecutor!Next
<1> QED BY <1>1, <1>2, <1>3, <1>4, <1>5, <1>6, <1>7 DEF NextQueue, WorkerGoesOn, OwnerGoesOn, PoolStep

\* The queue is an executor of one thread, as far as safety goes: its items
\* run in their order and never two at a time, whatever the pool's threads do
\* and whatever other tasks they run, and the destructor does not return
\* before the last item has run.
THEOREM SerialExecutorCorrect ==
  SpecQueue => SerialExecutor!Init /\ [][SerialExecutor!Next]_(SerialExecutor!vars)
<1>1. InitQueue => SerialExecutor!Init /\ Inv /\ QInv
  BY SerialInit, InitInv, InitQInv DEF InitQueue
<1>2. Inv /\ QInv /\ Inv' /\ [NextQueue]_allVars => [SerialExecutor!Next]_(SerialExecutor!vars)
  <2> SUFFICES ASSUME Inv, QInv, Inv', [NextQueue]_allVars
               PROVE  SerialExecutor!Next \/ UNCHANGED SerialExecutor!vars
    OBVIOUS
  <2>1. UNCHANGED SerialSees => UNCHANGED SerialExecutor!vars
    BY DEF SerialSees, SerialExecutor!vars, SerialView
  <2>2. CASE NextQueue
    BY <2>1, <2>2, NextSerial
  <2>3. CASE UNCHANGED allVars
    <3>1. /\ UNCHANGED <<pc, task, carries, stage>> /\ UNCHANGED <<asked, life, fulfilled>>
      BY <2>3 DEF allVars, vars, tqVars, itemVars
    <3>2. UNCHANGED SerialSees
      BY <3>1, OwnerFrameSerial DEF SerialSees, SerialView
    <3> QED BY <2>1, <3>2
  <2> QED BY <2>2, <2>3
<1> QED BY <1>1, <1>2, NextQInv, PTL DEF SpecQueue


=============================================================================
