---------------------------- MODULE LockFileManager ----------------------------
(***************************************************************************)
(* Compilers that need the same module (compileAndLoadModule of clang) and *)
(* the lock file by which one of them builds it while the others wait      *)
(* (lib/Support/LockFileManager.cpp).  One step is one call that reads or  *)
(* changes the file system; processes are killed, or die of a signal whose *)
(* handler removes their unique file, at any step.                         *)
(*                                                                         *)
(* The lock file is a symbolic link to the unique file of its owner.  The  *)
(* same Proc makes one LockFileManager after another, each with a unique   *)
(* file of another name; Names are the names, used again once nothing      *)
(* refers to them.                                                         *)
(***************************************************************************)
EXTENDS Integers, FiniteSets

CONSTANTS
  Proc,        \* the compilers
  Host,        \* Host[p]: where p runs; the file system is shared
  Names,       \* names of unique files
  MaxCrashes,  \* bound on the processes that are killed
  MayTimeOut,  \* can a build take longer than the 40 seconds of a wait?
  Failing,     \* the compilers whose file operations, and builds, can fail
  MaxLeft,     \* bound on the unique files and locks they fail to remove at last
  NoOne        \* neither a process nor a name

ASSUME HostAssumption == DOMAIN Host = Proc
ASSUME NoOneAssumption == NoOne \notin Proc \cup Names
ASSUME FlagsAssumption == MayTimeOut \in BOOLEAN /\ Failing \subseteq Proc
\* A process has one unique file, a killed one leaves it.
ASSUME NamesAssumption ==
  MaxLeft \in Nat /\ Cardinality(Names) >= Cardinality(Proc) + MaxLeft
ASSUME FiniteAssumption == IsFiniteSet(Proc) /\ IsFiniteSet(Names)

VARIABLES
  pc,      \* where each process is
  Owner,   \* the member of its LockFileManager: who it waits for
  unique,  \* UniqueLockFileName
  armed,   \* is the unique file removed by the signal handler?
  state,   \* getState: "owned", "shared", "error", or not constructed
  link,    \* what the lock file refers to, if it exists
  file,    \* the unique files: the process each one names
  left,    \* names of unique files whose removal, or whose lock's, failed
  module   \* the module file: "none", "stale", "fresh"

vars == <<pc, Owner, unique, armed, state, link, file, left, module>>

locals == <<Owner, unique, armed, state>>
files  == <<file, left>>

Finished == {"done", "exited"}

Dead(p) == pc[p] \in {"killed", "exited"}

Go(p, where) == pc' = [pc EXCEPT ![p] = where]

-------------------------------------------------------------------------------
(* The file system.                                                          *)

LockExists == link # NoOne /\ file[link] # NoOne

\* remove of a path that may not exist, no error then.  Where it fails most
\* callers do not notice.
RemoveLock(p) == link' = NoOne \/ (p \in Failing /\ UNCHANGED link)

\* p is the last who would remove its unique file or its lock, and cannot.
Leave(p) ==
  /\ p \in Failing
  /\ left' = left \cup {unique[p]}
  /\ Cardinality(left') <= MaxLeft

Unlink(p) == file' = [file EXCEPT ![unique[p]] = NoOne]

\* Left behind.
BugRemoveUnique(p) == UNCHANGED files

RemoveUnique(p) ==
  \/ Unlink(p) /\ UNCHANGED left
  \/ Leave(p) /\ UNCHANGED file

processStillExecuting(p, q) == Host[p] = Host[q] => ~Dead(q)

\* The link alone looked at.
BugReads(p) == link # NoOne

\* readLockFile finds an owner, or removes the lock file next.
Reads(p) == LockExists /\ processStillExecuting(p, file[link])

-------------------------------------------------------------------------------
(* LockFileManager::LockFileManager                                          *)

\* Somebody has the lock, and perhaps is alive.
Share(p, where) ==
  /\ Reads(p)
  /\ Owner' = [Owner EXCEPT ![p] = file[link]]
  /\ state' = [state EXCEPT ![p] = "shared"]
  /\ Go(p, where)
  /\ UNCHANGED <<unique, armed, link, files, module>>

ReadLockFile(p) ==
  /\ pc[p] = "read"
  /\ \/ Share(p, "wait")
     \/ ~Reads(p) /\ Go(p, "purge") /\ UNCHANGED <<locals, link, files, module>>

\* The end of readLockFile, on its way to make a lock.
Purge(p) ==
  /\ pc[p] = "purge"
  /\ RemoveLock(p)
  /\ Go(p, "create")
  /\ UNCHANGED <<locals, files, module>>

Unused(n) == file[n] = NoOne /\ link # n /\ \A q \in Proc : unique[q] # n

CreateUniqueFile(p) ==
  /\ pc[p] = "create"
  /\ LET n == CHOOSE x \in Names : Unused(x)
     IN  /\ unique' = [unique EXCEPT ![p] = n]
         /\ file' = [file EXCEPT ![n] = p]
         /\ left' = left \ {n}
  /\ Go(p, "write")
  /\ UNCHANGED <<Owner, armed, state, link, module>>

\* From here on a signal removes the unique file.
WriteOwner(p) ==
  /\ pc[p] = "write"
  /\ armed' = [armed EXCEPT ![p] = TRUE]
  /\ Go(p, "link")
  /\ UNCHANGED <<Owner, unique, state, link, files, module>>

CreateLink(p) ==
  /\ pc[p] = "link"
  /\ IF link = NoOne
       THEN /\ link' = unique[p]
            /\ state' = [state EXCEPT ![p] = "owned"]
            /\ Go(p, "compile")
       ELSE Go(p, "reread") /\ UNCHANGED <<link, state>>
  /\ UNCHANGED <<Owner, unique, armed, files, module>>

RereadLockFile(p) ==
  /\ pc[p] = "reread"
  /\ \/ Share(p, "discard")
     \/ ~Reads(p) /\ Go(p, "repurge") /\ UNCHANGED <<locals, link, files, module>>

Repurge(p) ==
  /\ pc[p] = "repurge"
  /\ RemoveLock(p)
  /\ Go(p, "exists")
  /\ UNCHANGED <<locals, files, module>>

\* Released meanwhile, or a lock file that nobody owns.
CheckExists(p) ==
  /\ pc[p] = "exists"
  /\ Go(p, IF LockExists THEN "cleanup" ELSE "link")
  /\ UNCHANGED <<locals, link, files, module>>

\* Here a failure is noticed, see FailToLock.
CleanUp(p) ==
  /\ pc[p] = "cleanup"
  /\ link' = NoOne
  /\ Go(p, "link")
  /\ UNCHANGED <<locals, files, module>>

\* The unique file is useless now.
Discard(p) ==
  /\ pc[p] = "discard"
  /\ RemoveUnique(p)
  /\ unique' = [unique EXCEPT ![p] = NoOne]
  /\ armed' = [armed EXCEPT ![p] = FALSE]
  /\ Go(p, "wait")
  /\ UNCHANGED <<Owner, state, link, module>>

\* No file can be created, written, linked or removed: LFS_Error, and no
\* unique file.
FailToLock(p) ==
  /\ p \in Failing
  /\ pc[p] \in {"create", "write", "link", "cleanup"}
  /\ state' = [state EXCEPT ![p] = "error"]
  /\ IF unique[p] = NoOne THEN UNCHANGED files ELSE RemoveUnique(p)
  /\ unique' = [unique EXCEPT ![p] = NoOne]
  /\ armed' = [armed EXCEPT ![p] = FALSE]
  /\ Go(p, "clear")
  /\ UNCHANGED <<Owner, link, module>>
-------------------------------------------------------------------------------
(* compileAndLoadModule                                                      *)

\* The loop goes round, to another LockFileManager, or the function returns.
Leaves(p, where) ==
  /\ Go(p, where)
  /\ IF where \in {"read", "done"}
       THEN Owner' = [Owner EXCEPT ![p] = NoOne] /\ state' = [state EXCEPT ![p] = "none"]
       ELSE UNCHANGED <<Owner, state>>

\* The lock file stays although its owner may be dead.
BugUnsafeRemove(p) == UNCHANGED link

\* The old lock file, or what is left of an attempt, is removed: by the loop
\* after a timeout, or on the way to a build without a lock.
UnsafeRemove(p) == RemoveLock(p)

unsafeRemoveLockFile(p) ==
  /\ pc[p] \in {"clear", "timeout"}
  /\ UnsafeRemove(p)
  /\ Leaves(p, IF pc[p] = "clear" THEN "compile" ELSE "read")
  /\ UNCHANGED <<unique, armed, files, module>>

\* What the destructor of its LockFileManager leaves an owner to do on return.
Return(p) == IF state[p] = "owned" THEN "release" ELSE "done"

\* The module is written to a temporary file and renamed.
CompileModule(p) ==
  /\ pc[p] = "compile"
  /\ Go(p, "load")
  /\ module' = "fresh"
  /\ UNCHANGED <<locals, link, files>>

FailToCompile(p) ==
  /\ p \in Failing
  /\ pc[p] = "compile"
  /\ Leaves(p, Return(p))
  /\ UNCHANGED <<unique, armed, link, files, module>>

\* One round of the loop of waitForUnlock.
FindUnlocked(p) ==
  /\ pc[p] = "wait"
  /\ ~LockExists
  /\ Go(p, "unlocked")
  /\ UNCHANGED <<locals, link, files, module>>

FindOwnerDead(p) ==
  /\ pc[p] = "wait"
  /\ LockExists
  /\ ~processStillExecuting(p, Owner[p])
  /\ Leaves(p, "read")
  /\ UNCHANGED <<unique, armed, link, files, module>>

TimeOut(p) ==
  /\ pc[p] = "wait"
  /\ MayTimeOut
  /\ LockExists
  /\ processStillExecuting(p, Owner[p])
  /\ Go(p, "timeout")
  /\ UNCHANGED <<locals, link, files, module>>

\* The lock is gone, so the module is taken to be there.
BugAfterUnlock == "load"

\* Without a module the owner is taken to have died: OwnerDied, not Success.
AfterUnlock == IF module = "none" THEN "read" ELSE "load"

CheckFile(p) ==
  /\ pc[p] = "unlocked"
  /\ Leaves(p, AfterUnlock)
  /\ UNCHANGED <<unique, armed, link, files, module>>

\* A module out of date is built again by who waited for it.
AfterLoad(p) ==
  CASE module = "fresh" -> "loaded"
    [] module = "stale" /\ state[p] = "shared" -> "again"
    [] OTHER -> "failed"

ReadAST(p) ==
  /\ pc[p] = "load"
  /\ Leaves(p, IF AfterLoad(p) = "again" THEN "read" ELSE Return(p))
  /\ UNCHANGED <<unique, armed, link, files, module>>

-------------------------------------------------------------------------------
(* LockFileManager::~LockFileManager of an owner                             *)

\* Only the unique file is removed, the link to it stays.
BugReleased(p) == UNCHANGED <<link, left>>

Released(p) ==
  \/ link' = NoOne /\ UNCHANGED left
  \/ Leave(p) /\ UNCHANGED link

ReleaseLock(p) ==
  /\ pc[p] = "release"
  /\ Released(p)
  /\ Go(p, "forget")
  /\ UNCHANGED <<locals, file, module>>

ForgetUnique(p) ==
  /\ pc[p] = "forget"
  /\ RemoveUnique(p)
  /\ unique' = [unique EXCEPT ![p] = NoOne]
  /\ armed' = [armed EXCEPT ![p] = FALSE]
  /\ Leaves(p, "done")
  /\ UNCHANGED <<link, module>>

-------------------------------------------------------------------------------

Exit(p) ==
  /\ pc[p] = "done"
  /\ Go(p, "exited")
  /\ UNCHANGED <<locals, link, files, module>>

\* A signal that is handled, and one that is not; the memory is gone.
Crash(p) ==
  /\ pc[p] \notin Finished \cup {"killed"}
  /\ Cardinality({q \in Proc : pc[q] = "killed"}) < MaxCrashes
  /\ Go(p, "killed")
  /\ \/ armed[p] /\ Unlink(p)
     \/ UNCHANGED file
  /\ Owner' = [Owner EXCEPT ![p] = NoOne]
  /\ state' = [state EXCEPT ![p] = "none"]
  /\ armed' = [armed EXCEPT ![p] = FALSE]
  /\ UNCHANGED <<unique, link, left, module>>

Init ==
  /\ pc = [p \in Proc |-> "read"]
  /\ Owner = [p \in Proc |-> NoOne] /\ unique = [p \in Proc |-> NoOne]
  /\ armed = [p \in Proc |-> FALSE] /\ state = [p \in Proc |-> "none"]
  /\ link = NoOne /\ file = [n \in Names |-> NoOne] /\ left = {}
  /\ module \in {"none", "stale"}

\* What a process does by itself.
Step(p) ==
  \/ ReadLockFile(p) \/ Purge(p) \/ CreateUniqueFile(p) \/ WriteOwner(p) \/ CreateLink(p)
  \/ RereadLockFile(p) \/ Repurge(p) \/ CheckExists(p) \/ CleanUp(p) \/ Discard(p)
  \/ FailToLock(p) \/ unsafeRemoveLockFile(p) \/ CompileModule(p) \/ FailToCompile(p)
  \/ FindUnlocked(p) \/ FindOwnerDead(p) \/ TimeOut(p) \/ CheckFile(p) \/ ReadAST(p)
  \/ ReleaseLock(p) \/ ForgetUnique(p)

Next == \E p \in Proc : Step(p) \/ Exit(p) \/ Crash(p)

\* The lock file is in the way of p, which removes it.
Removes(p) == (Purge(p) \/ Repurge(p) \/ unsafeRemoveLockFile(p)) /\ link' = NoOne

\* A process that has something to do is scheduled; a wait without end times
\* out.  A process that tries again and again to remove the lock file removes
\* it at last: the code itself never gives up.
Fairness ==
  /\ \A p \in Proc : WF_vars(Step(p))
  /\ \A p \in Failing : SF_vars(Removes(p))

Spec == Init /\ [][Next]_vars /\ Fairness

-------------------------------------------------------------------------------
(* Properties.                                                               *)

\* Who waits knows for whom, who owns or prepares a lock has a unique file of
\* its own, and the unique files are those of the processes they name.
TypeOK ==
  /\ \A p \in Proc :
       /\ pc[p] \in {"wait", "discard"} => Owner[p] \in Proc \ {p} /\ state[p] = "shared"
       /\ pc[p] \in {"write", "link", "reread", "repurge", "exists", "cleanup", "discard"}
            \/ (state[p] = "owned" /\ pc[p] \notin Finished \cup {"killed"})
            => unique[p] \in Names /\ file[unique[p]] = p
       /\ armed[p] => unique[p] # NoOne
  /\ link \in Names \cup {NoOne}
  /\ left \subseteq Names /\ Cardinality(left) <= MaxLeft
  /\ module \in {"none", "stale", "fresh"}

\* A lock file never outlives its owner's work: as long as it exists its owner
\* is at work, or was killed, or could not remove it.
NoForgottenLock ==
  link # NoOne =>
    \/ link \in left
    \/ \E p \in Proc : /\ unique[p] = link
                       /\ pc[p] \in {"compile", "load", "release", "killed"}

\* Compilers that were not killed leave no file in the module cache but the
\* module, and what they could not remove.
NoLitter ==
  \A n \in Names \ left : file[n] # NoOne =>
    /\ pc[file[n]] \notin Finished
    /\ unique[file[n]] = n

\* Locks, timeouts and the deaths of others never fail a build: the module is
\* not loaded only if this process built it itself, and could not.
OnlyOwnFailures ==
  \A p \in Proc : pc[p] = "load" /\ module # "fresh" => AfterLoad(p) = "again"

\* Every compiler that is not killed comes to an end, whatever happens to the others.
EveryoneFinishes == <>(\A p \in Proc : pc[p] \in Finished \cup {"killed"})

\* At most one process builds the module under the lock.
SingleOwner == Cardinality({p \in Proc : pc[p] \in {"compile", "load"} /\ state[p] = "owned"}) <= 1
=============================================================================
