------------------------ MODULE LockFileManager_proofs ------------------------
(***************************************************************************)
(* Proofs about the lock files of LockFileManager: the types, the lock     *)
(* file that its owner never forgets, the unique files that nobody leaves  *)
(* behind, and builds that fail by their own fault only, for any number of *)
(* compilers on any hosts, however many of them are killed, whatever times *)
(* out and whatever removal of a file fails.                               *)
(***************************************************************************)
EXTENDS LockFileManager, FiniteSetTheorems, FunctionTheorems, TLAPS

-----------------------------------------------------------------------------
(* The inductive invariant.                                                *)

\* Where a LockFileManager under construction has a unique file.
Preparing == {"write", "link", "reread", "repurge", "exists", "cleanup", "discard"}

\* Where an owner is, who still has one.
Holding == {"compile", "load", "release", "forget"}

\* Where nobody has.
Without == {"read", "purge", "create", "clear", "wait", "timeout", "unlocked", "done",
            "exited"}

Places == Preparing \cup Holding \cup Without \cup {"killed"}

States == {"none", "owned", "shared", "error"}

\* Where the owner of the link may be, ...
AtWork == {"compile", "load", "release", "killed"}

\* ... and where if the link is left.
Leaving == {"forget", "done", "exited", "killed"}

Types ==
  /\ pc \in [Proc -> Places]
  /\ Owner \in [Proc -> Proc \cup {NoOne}]
  /\ unique \in [Proc -> Names \cup {NoOne}]
  /\ armed \in [Proc -> BOOLEAN]
  /\ state \in [Proc -> States]
  /\ link \in Names \cup {NoOne}
  /\ file \in [Names -> Proc \cup {NoOne}]
  /\ left \subseteq Names /\ Cardinality(left) <= MaxLeft
  /\ module \in {"none", "stale", "fresh"}

\* What getState answers at a place.
Fits(where, s) ==
  /\ where \in {"read", "purge", "create"} \cup (Preparing \ {"discard"}) => s = "none"
  /\ where \in {"discard", "wait", "timeout", "unlocked"} => s = "shared"
  /\ where = "clear" => s = "error"
  /\ where = "compile" => s \in {"owned", "error"}
  /\ where = "load" => s # "none"
  /\ where \in {"release", "forget"} => s = "owned"

PhaseInv == \A p \in Proc : Fits(pc[p], state[p])

HasFile(where, s) == where \in Preparing \/ (where \in Holding /\ s = "owned")

\* Exactly those at such a place have a unique file, and it names them.
FileOfOne(p) ==
  /\ HasFile(pc[p], state[p]) => unique[p] # NoOne /\ file[unique[p]] = p
  /\ ~HasFile(pc[p], state[p]) /\ pc[p] # "killed" => unique[p] = NoOne

HoldInv == \A p \in Proc : FileOfOne(p)

\* Its name is nobody else's, and no file is without its process unless it is
\* left behind.
NameInv == \A p, q \in Proc : unique[p] = unique[q] /\ unique[p] # NoOne => p = q

Abandoned(n) == n \in left /\ \A p \in Proc : unique[p] # n

FileInv == \A n \in Names : file[n] # NoOne => unique[file[n]] = n \/ Abandoned(n)

ArmedInv == \A p \in Proc : armed[p] => unique[p] # NoOne

OwnerInv == \A p \in Proc : pc[p] \in {"wait", "discard"} => Owner[p] \in Proc \ {p}

\* What is loaded was waited for, or is fresh.
LoadOfOne(p) == pc[p] = "load" => module = "fresh" \/ (module = "stale" /\ state[p] = "shared")

ModuleInv == \A p \in Proc : LoadOfOne(p)

LinkOwned == \E p \in Proc : unique[p] = link /\ pc[p] \in AtWork

LinkLeft == link \in left /\ (file[link] # NoOne => pc[file[link]] \in Leaving)

LinkInv == link # NoOne => LinkOwned \/ LinkLeft

Inv == Types /\ PhaseInv /\ HoldInv /\ NameInv /\ FileInv /\ ArmedInv /\ OwnerInv /\ ModuleInv /\ LinkInv

-----------------------------------------------------------------------------
(* The steps of one process, by what they do with its unique file.         *)

\* Process p goes from where it is to another place, with another state.
Goes(p, where) ==
  /\ pc' = [pc EXCEPT ![p] = where]
  /\ state' \in [Proc -> States]
  /\ \A q \in Proc \ {p} : state'[q] = state[q]
  /\ Owner' \in [Proc -> Proc \cup {NoOne}]
  /\ \A q \in Proc \ {p} : Owner'[q] = Owner[q]
  /\ where \in {"wait", "discard"} => Owner'[p] \in Proc \ {p}
  /\ Fits(where, state'[p])
  /\ module' \in {module, "fresh"}
  /\ where = "load" => module' = "fresh" \/ (module' = "stale" /\ state'[p] = "shared")

\* What such a step keeps, whatever becomes of the files.
LEMMA GoesKeeps ==
  ASSUME Inv, NEW p \in Proc, NEW where \in Places, Goes(p, where)
  PROVE  /\ pc' \in [Proc -> Places] /\ module' \in {"none", "stale", "fresh"}
         /\ PhaseInv' /\ OwnerInv' /\ ModuleInv'
<1>1. pc' \in [Proc -> Places] /\ pc'[p] = where /\ \A q \in Proc \ {p} : pc'[q] = pc[q]
  BY DEF Inv, Types, Goes
<1>2. module' \in {"none", "stale", "fresh"}
  BY DEF Inv, Types, Goes
<1>3. PhaseInv'
  <2> SUFFICES ASSUME NEW q \in Proc PROVE Fits(pc'[q], state'[q])
    BY DEF PhaseInv
  <2>1. CASE q = p
    BY <2>1, <1>1 DEF Goes
  <2>2. CASE q # p
    <3>1. pc'[q] = pc[q] /\ state'[q] = state[q]
      BY <2>2, <1>1 DEF Goes
    <3> QED BY <3>1 DEF Inv, PhaseInv
  <2> QED BY <2>1, <2>2
<1>4. OwnerInv'
  BY <1>1 DEF Inv, OwnerInv, Goes
<1>5. ModuleInv'
  <2> SUFFICES ASSUME NEW q \in Proc PROVE LoadOfOne(q)'
    BY DEF ModuleInv
  <2>1. CASE q = p
    BY <2>1, <1>1 DEF Goes, LoadOfOne
  <2>2. CASE q # p
    <3>1. pc'[q] = pc[q] /\ state'[q] = state[q] /\ LoadOfOne(q)
      BY <2>2, <1>1 DEF Goes, Inv, ModuleInv
    <3> QED BY <3>1 DEF Goes, LoadOfOne
  <2> QED BY <2>1, <2>2
<1> QED BY <1>1, <1>2, <1>3, <1>4, <1>5

\* A step that leaves the unique files alone, and may remove the lock file or
\* fail to.
LEMMA FilesStay ==
  ASSUME Inv, NEW p \in Proc, NEW where \in Places, Goes(p, where),
         unique' = unique, file' = file, link' \in {link, NoOne},
         left \subseteq left', left' \subseteq Names, Cardinality(left') <= MaxLeft,
         armed' \in [Proc -> BOOLEAN], \A q \in Proc \ {p} : armed'[q] = armed[q],
         armed'[p] => unique[p] # NoOne,
         where = "killed" \/ (pc[p] # "killed" /\ (HasFile(where, state'[p]) <=> HasFile(pc[p], state[p]))),
         pc[p] \in Leaving => where \in Leaving,
         link' # NoOne /\ pc[p] \in AtWork =>
           where \in AtWork \/ unique[p] = NoOne \/ (where = "forget" /\ unique[p] \in left')
  PROVE  Inv'
<1>1. pc'[p] = where /\ \A q \in Proc \ {p} : pc'[q] = pc[q] /\ state'[q] = state[q]
  BY DEF Inv, Types, Goes
<1>2. Types'
  BY GoesKeeps DEF Inv, Types, Goes
<1>3. HoldInv'
  <2> SUFFICES ASSUME NEW q \in Proc PROVE FileOfOne(q)'
    BY DEF HoldInv
  <2>1. FileOfOne(q)
    BY DEF Inv, HoldInv
  <2>2. CASE q # p
    BY <2>1, <2>2, <1>1 DEF FileOfOne
  <2>3. CASE q = p /\ where # "killed"
    BY <2>1, <2>3, <1>1 DEF FileOfOne
  <2>4. CASE q = p /\ where = "killed"
    BY <2>4, <1>1 DEF FileOfOne, HasFile, Preparing, Holding
  <2> QED BY <2>2, <2>3, <2>4
<1>4. NameInv' /\ FileInv'
  BY DEF Inv, NameInv, FileInv, Abandoned
<1>5. ArmedInv'
  BY DEF Inv, ArmedInv
<1>6. LinkInv'
  <2> SUFFICES ASSUME link' # NoOne PROVE LinkOwned' \/ LinkLeft'
    BY DEF LinkInv
  <2>0. link' = link /\ link \in Names
    BY NoOneAssumption DEF Inv, Types
  <2>1. CASE LinkLeft
    <3>1. ASSUME file[link] # NoOne PROVE pc'[file[link]] \in Leaving
      <4>1. file[link] \in Proc /\ pc[file[link]] \in Leaving
        BY <2>0, <2>1, <3>1 DEF LinkLeft, Inv, Types
      <4> QED BY <1>1, <4>1
    <3> QED BY <2>0, <2>1, <3>1 DEF LinkLeft
  <2>2. CASE LinkOwned
    <3>1. PICK q \in Proc : unique[q] = link /\ pc[q] \in AtWork
      BY <2>2 DEF LinkOwned
    <3>2. CASE pc'[q] \in AtWork
      BY <2>0, <3>1, <3>2 DEF LinkOwned
    <3>3. CASE pc'[q] \notin AtWork
      <4>1. q = p /\ where = "forget" /\ link \in left'
        BY <1>1, <2>0, <3>1, <3>3, NoOneAssumption
      <4>2. file'[link] = p
        BY <1>1, <1>3, <2>0, <3>1, <4>1 DEF HoldInv, FileOfOne, HasFile, Holding, Fits, Goes
      <4> QED BY <1>1, <2>0, <4>1, <4>2 DEF LinkLeft, Leaving
    <3> QED BY <3>2, <3>3
  <2> QED BY <2>0, <2>1, <2>2 DEF Inv, LinkInv
<1> QED BY <1>2, <1>3, <1>4, <1>5, <1>6, GoesKeeps DEF Inv

\* A step that removes the process's own unique file, if it has one, or fails
\* to, and is not the work of the link's owner.
LEMMA FileGoes ==
  ASSUME Inv, NEW p \in Proc, NEW where \in Places, Goes(p, where), link' = link,
         pc[p] \notin AtWork, where # "killed", ~HasFile(where, state'[p]),
         unique' = [unique EXCEPT ![p] = NoOne],
         armed' = [armed EXCEPT ![p] = FALSE],
         pc[p] \in Leaving => where \in Leaving,
         IF unique[p] = NoOne THEN UNCHANGED files ELSE RemoveUnique(p)
  PROVE  Inv'
<1>1. /\ pc'[p] = where /\ unique'[p] = NoOne
      /\ \A q \in Proc \ {p} : pc'[q] = pc[q] /\ state'[q] = state[q] /\ unique'[q] = unique[q]
  BY DEF Inv, Types, Goes
<1>0. /\ \/ file' = file
         \/ unique[p] \in Names /\ file' = [file EXCEPT ![unique[p]] = NoOne]
      /\ \/ left' = left
         \/ unique[p] \in Names /\ left' = left \cup {unique[p]} /\ Cardinality(left') <= MaxLeft
      /\ file' = file => unique[p] = NoOne \/ unique[p] \in left' \/ file[unique[p]] = NoOne
      /\ unique[p] \in Names \cup {NoOne}
  <2>1. unique[p] \in Names \cup {NoOne} /\ file \in [Names -> Proc \cup {NoOne}]
    BY DEF Inv, Types
  <2>2. CASE unique[p] = NoOne
    BY <2>1, <2>2 DEF files
  <2>3. CASE unique[p] # NoOne /\ Unlink(p) /\ UNCHANGED left
    BY <2>1, <2>3 DEF Unlink
  <2>4. CASE unique[p] # NoOne /\ Leave(p) /\ UNCHANGED file
    BY <2>1, <2>4 DEF Leave
  <2> QED BY <2>2, <2>3, <2>4 DEF RemoveUnique
<1>2. Types'
  BY <1>0, GoesKeeps DEF Inv, Types, Goes
<1>3. HoldInv'
  <2> SUFFICES ASSUME NEW q \in Proc PROVE FileOfOne(q)'
    BY DEF HoldInv
  <2>1. CASE q = p
    BY <2>1, <1>1 DEF FileOfOne
  <2>2. CASE q # p
    <3>1. FileOfOne(q) /\ (unique[q] = unique[p] /\ unique[q] # NoOne => q = p)
      BY DEF Inv, HoldInv, NameInv
    <3>2. unique[p] \in Names \cup {NoOne} /\ unique[q] \in Names \cup {NoOne} /\ file \in [Names -> Proc \cup {NoOne}]
      BY DEF Inv, Types
    <3>3. unique[q] # NoOne => file'[unique[q]] = file[unique[q]]
      BY <1>0, <2>2, <3>1, <3>2
    <3> QED BY <2>2, <3>1, <3>3, <1>1 DEF FileOfOne
  <2> QED BY <2>1, <2>2
<1>4. NameInv'
  BY <1>1 DEF Inv, NameInv
<1>5. FileInv'
  <2> SUFFICES ASSUME NEW n \in Names, file'[n] # NoOne
               PROVE  unique'[file'[n]] = n \/ Abandoned(n)'
    BY DEF FileInv
  <2>1. file'[n] = file[n] /\ file[n] \in Proc /\ n # NoOne
    BY <1>0, NoOneAssumption DEF Inv, Types
  <2>2. CASE Abandoned(n)
    BY <1>0, <1>1, <2>1, <2>2 DEF Abandoned
  <2>3. CASE unique[file[n]] = n /\ file[n] # p
    BY <1>1, <2>1, <2>3
  <2>4. CASE unique[file[n]] = n /\ file[n] = p
    <3>1. file'[n] = p /\ unique[p] = n
      BY <2>1, <2>4
    <3>2. n \in left'
      BY <1>0, <2>1, <3>1 DEF Inv, Types
    <3>3. \A q \in Proc : unique'[q] # n
      BY <1>1, <2>1, <2>4 DEF Inv, NameInv
    <3> QED BY <3>2, <3>3 DEF Abandoned
  <2> QED BY <2>1, <2>2, <2>3, <2>4 DEF Inv, FileInv
<1>6. ArmedInv'
  BY <1>1 DEF Inv, Types, ArmedInv
<1>7. LinkInv'
  <2> SUFFICES ASSUME link # NoOne PROVE LinkOwned' \/ LinkLeft'
    BY DEF LinkInv
  <2>1. CASE LinkOwned
    BY <1>1, <2>1 DEF LinkOwned
  <2>2. CASE LinkLeft
    <3>1. link \in Names
      BY DEF Inv, Types
    <3>2. file'[link] # NoOne => file'[link] = file[link] /\ file[link] \in Proc
      BY <1>0, <3>1 DEF Inv, Types
    <3>3. file'[link] # NoOne => pc'[file'[link]] \in Leaving
      BY <1>1, <2>2, <3>2 DEF LinkLeft
    <3> QED BY <1>0, <2>2, <3>3 DEF LinkLeft
  <2> QED BY <2>1, <2>2 DEF Inv, LinkInv
<1> QED BY <1>2, <1>3, <1>4, <1>5, <1>6, <1>7, GoesKeeps DEF Inv

\* A name is in use by a process, or for what was left, so there is always an
\* unused one.
LEMMA UnusedName ==
  ASSUME Inv, NEW p \in Proc, unique[p] = NoOne
  PROVE  \E n \in Names : Unused(n)
<1> DEFINE Others == Proc \ {p}
           name == [q \in Others |-> unique[q]]
           Used == {unique[q] : q \in Others}
<1>1. IsFiniteSet(Others) /\ Cardinality(Others) = Cardinality(Proc) - 1
  BY FS_RemoveElement, FiniteAssumption
<1>2. IsFiniteSet(Used) /\ Cardinality(Used) <= Cardinality(Others)
  <2>1. name \in Surjection(Others, Used)
    BY Fun_IsSurj
  <2> QED BY <2>1, <1>1, FS_Surjection
<1>3. SUFFICES ASSUME \A n \in Names : ~Unused(n) PROVE FALSE
  OBVIOUS
<1>4. Names \subseteq Used \cup left
  <2> SUFFICES ASSUME NEW n \in Names, n \notin left PROVE \E q \in Others : unique[q] = n
    OBVIOUS
  <2>1. \E q \in Proc : unique[q] = n
    <3>1. file[n] # NoOne \/ link = n \/ \E q \in Proc : unique[q] = n
      BY <1>3 DEF Unused
    <3>2. CASE file[n] # NoOne
      <4>1. file[n] \in Proc
        BY <3>2 DEF Inv, Types
      <4> QED BY <4>1, <3>2 DEF Inv, FileInv, Abandoned
    <3>3. CASE link = n
      BY <3>3, NoOneAssumption DEF Inv, LinkInv, LinkOwned, LinkLeft
    <3> QED BY <3>1, <3>2, <3>3
  <2> QED BY <2>1, NoOneAssumption
<1>5. IsFiniteSet(left) /\ Cardinality(left) <= MaxLeft
  BY FiniteAssumption, FS_Subset DEF Inv, Types
<1>6. /\ IsFiniteSet(Used \cup left) /\ IsFiniteSet(Used \cap left)
      /\ Cardinality(Used \cup left) =
           Cardinality(Used) + Cardinality(left) - Cardinality(Used \cap left)
  BY <1>2, <1>5, FS_Union, FS_Intersection
<1>7. Cardinality(Names) <= Cardinality(Used \cup left)
  BY <1>4, <1>6, FS_Subset
<1>8. /\ Cardinality(Names) \in Nat /\ Cardinality(Proc) \in Nat /\ Cardinality(Used) \in Nat
      /\ Cardinality(left) \in Nat /\ Cardinality(Used \cap left) \in Nat
  BY <1>2, <1>5, <1>6, FiniteAssumption, FS_CardinalityType
<1> QED BY <1>1, <1>2, <1>5, <1>6, <1>7, <1>8, NamesAssumption

LEMMA CreateKeeps ==
  ASSUME Inv, NEW p \in Proc, CreateUniqueFile(p)
  PROVE  Inv'
<1>1. pc[p] = "create" /\ unique[p] = NoOne /\ state[p] = "none"
  BY DEF Inv, PhaseInv, Fits, HoldInv, FileOfOne, HasFile, Preparing, Holding, CreateUniqueFile
<1>2. PICK n \in Names : /\ Unused(n) /\ unique' = [unique EXCEPT ![p] = n]
                         /\ file' = [file EXCEPT ![n] = p] /\ left' = left \ {n}
  <2> DEFINE n == CHOOSE x \in Names : Unused(x)
  <2>1. n \in Names /\ Unused(n)
    BY <1>1, UnusedName
  <2> QED BY <2>1 DEF CreateUniqueFile
<1>3. Goes(p, "write") /\ "write" \in Places
  BY <1>1 DEF Inv, Types, Goes, Go, Fits, Preparing, Places, CreateUniqueFile
<1>4. /\ pc'[p] = "write" /\ unique'[p] = n /\ file'[n] = p /\ armed' = armed /\ state' = state /\ link' = link
      /\ \A q \in Proc \ {p} : pc'[q] = pc[q] /\ unique'[q] = unique[q] /\ unique[q] # n
      /\ \A m \in Names \ {n} : file'[m] = file[m]
      /\ n # NoOne
  <2>1. /\ pc' = [pc EXCEPT ![p] = "write"]
        /\ armed' = armed /\ state' = state /\ link' = link
    BY DEF Go, CreateUniqueFile
  <2>2. \A q \in Proc : unique[q] # n
    BY <1>2 DEF Unused
  <2> QED BY <1>2, <2>1, <2>2, NoOneAssumption DEF Inv, Types
<1>5. Types'
  <2>1. Cardinality(left') <= Cardinality(left) /\ Cardinality(left) \in Nat /\ Cardinality(left') \in Nat
    <3>1. IsFiniteSet(left)
      BY FiniteAssumption, FS_Subset DEF Inv, Types
    <3> QED BY <1>2, <3>1, FS_Subset, FS_CardinalityType
  <2>2. Cardinality(left') <= MaxLeft
    BY <2>1, NamesAssumption DEF Inv, Types
  <2> QED BY <1>2, <1>3, <1>4, <2>2, GoesKeeps DEF Inv, Types, Goes
<1>6. HoldInv'
  <2> SUFFICES ASSUME NEW q \in Proc PROVE FileOfOne(q)'
    BY DEF HoldInv
  <2>1. CASE q = p
    BY <2>1, <1>4 DEF FileOfOne, HasFile, Preparing
  <2>2. CASE q # p
    <3>1. FileOfOne(q) /\ unique[q] \in Names \cup {NoOne}
      BY DEF Inv, HoldInv, Types
    <3>2. unique[q] # NoOne => file'[unique[q]] = file[unique[q]]
      BY <2>2, <3>1, <1>4
    <3> QED BY <2>2, <3>1, <3>2, <1>4 DEF FileOfOne
  <2> QED BY <2>1, <2>2
<1>7. NameInv'
  BY <1>4 DEF Inv, NameInv
<1>8. FileInv'
  <2> SUFFICES ASSUME NEW m \in Names, file'[m] # NoOne
               PROVE  unique'[file'[m]] = m \/ Abandoned(m)'
    BY DEF FileInv
  <2>1. CASE m = n
    BY <2>1, <1>4
  <2>2. CASE m # n
    <3>1. file'[m] = file[m] /\ file[m] \in Proc /\ (unique[file[m]] = m \/ Abandoned(m))
      BY <2>2, <1>4 DEF Inv, Types, FileInv
    <3>2. CASE unique[file[m]] = m
      BY <3>1, <3>2, <1>1, <1>4, NoOneAssumption
    <3>3. CASE Abandoned(m)
      BY <2>2, <3>3, <1>2, <1>4 DEF Abandoned
    <3> QED BY <3>1, <3>2, <3>3
  <2> QED BY <2>1, <2>2
<1>9. ArmedInv'
  BY <1>4 DEF Inv, ArmedInv
<1>10. LinkInv'
  <2> SUFFICES ASSUME link # NoOne PROVE LinkOwned' \/ LinkLeft'
    BY <1>4 DEF LinkInv
  <2>1. link \in Names /\ link # n
    BY <1>2 DEF Inv, Types, Unused
  <2>2. CASE LinkOwned
    BY <1>1, <1>4, <2>2 DEF LinkOwned, AtWork
  <2>3. CASE LinkLeft
    <3>1. link \in left' /\ file'[link] = file[link]
      BY <1>2, <1>4, <2>1, <2>3 DEF LinkLeft
    <3>2. file[link] # NoOne => file[link] \in Proc \ {p} /\ pc[file[link]] \in Leaving
      BY <1>1, <2>1, <2>3 DEF LinkLeft, Leaving, Inv, Types
    <3> QED BY <1>4, <3>1, <3>2 DEF LinkLeft
  <2> QED BY <2>2, <2>3 DEF Inv, LinkInv
<1> QED BY <1>3, <1>5, <1>6, <1>7, <1>8, <1>9, <1>10, GoesKeeps DEF Inv

LEMMA LinkKeeps ==
  ASSUME Inv, NEW p \in Proc, CreateLink(p)
  PROVE  Inv'
<1>1. pc[p] = "link" /\ state[p] = "none" /\ unique[p] # NoOne /\ FileOfOne(p)
  BY DEF Inv, PhaseInv, Fits, HoldInv, FileOfOne, HasFile, Preparing, Holding, CreateLink
<1>2. CASE link # NoOne
  <2>1. Goes(p, "reread") /\ "reread" \in Places
    BY <1>1, <1>2 DEF Inv, Types, Goes, Go, Fits, Preparing, Places, CreateLink
  <2> QED BY <1>1, <1>2, <2>1, FilesStay DEF Inv, Types, files, CreateLink, HasFile, Preparing,
                                             AtWork, Leaving
<1>3. CASE link = NoOne
  <2>1. Goes(p, "compile") /\ "compile" \in Places
    <3>1. state' = [state EXCEPT ![p] = "owned"] /\ Go(p, "compile") /\ UNCHANGED <<Owner, module>>
      BY <1>3 DEF CreateLink
    <3> QED BY <3>1 DEF Inv, Types, Goes, Go, Fits, Holding, Preparing, States, Places
  <2>2. /\ pc'[p] = "compile" /\ state'[p] = "owned" /\ link' = unique[p]
        /\ unique' = unique /\ armed' = armed /\ file' = file /\ left' = left
        /\ \A q \in Proc \ {p} : pc'[q] = pc[q] /\ state'[q] = state[q]
    BY <1>3 DEF Inv, Types, Go, files, CreateLink
  <2>3. Types'
    BY <2>1, <2>2, GoesKeeps DEF Inv, Types, Goes
  <2>4. HoldInv'
    BY <1>1, <2>2 DEF Inv, HoldInv, FileOfOne, HasFile, Preparing, Holding
  <2>5. NameInv' /\ FileInv' /\ ArmedInv'
    BY <2>2 DEF Inv, NameInv, FileInv, Abandoned, ArmedInv
  <2>6. LinkInv'
    BY <2>2 DEF LinkInv, LinkOwned, AtWork
  <2> QED BY <2>1, <2>3, <2>4, <2>5, <2>6, GoesKeeps DEF Inv
<1> QED BY <1>2, <1>3

LEMMA CrashKeeps ==
  ASSUME Inv, NEW p \in Proc, Crash(p)
  PROVE  Inv'
<1>0. /\ pc' = [pc EXCEPT ![p] = "killed"]
      /\ (armed[p] /\ Unlink(p)) \/ file' = file
      /\ Owner' = [Owner EXCEPT ![p] = NoOne] /\ state' = [state EXCEPT ![p] = "none"]
      /\ armed' = [armed EXCEPT ![p] = FALSE] /\ unique' = unique
      /\ link' = link /\ left' = left /\ module' = module
  BY Zenon DEF Crash, Go
<1>1. Goes(p, "killed") /\ "killed" \in Places
  BY <1>0 DEF Inv, Types, States, Goes, Fits, Preparing, Places
<1>2. CASE file' = file
  BY <1>0, <1>1, <1>2, FilesStay DEF Inv, Types, AtWork, Leaving, ArmedInv
<1>3. CASE armed[p] /\ Unlink(p)
  <2>1. unique[p] # NoOne /\ unique[p] \in Names
    BY <1>3 DEF Inv, ArmedInv, Types
  <2>2. /\ pc'[p] = "killed" /\ file' = [file EXCEPT ![unique[p]] = NoOne]
        /\ unique' = unique /\ link' = link /\ left' = left /\ armed'[p] = FALSE
        /\ \A q \in Proc \ {p} : pc'[q] = pc[q] /\ state'[q] = state[q] /\ armed'[q] = armed[q]
    BY <1>0, <1>3 DEF Inv, Types, Unlink
  <2>3. Types'
    BY <1>0, <1>1, <2>2, GoesKeeps DEF Inv, Types, Goes
  <2>4. HoldInv'
    <3> SUFFICES ASSUME NEW q \in Proc PROVE FileOfOne(q)'
      BY DEF HoldInv
    <3>1. CASE q = p
      BY <3>1, <2>2 DEF FileOfOne, HasFile, Preparing, Holding
    <3>2. CASE q # p
      <4>1. FileOfOne(q) /\ unique[q] # unique[p] /\ unique[q] \in Names \cup {NoOne}
        BY <3>2, <2>1 DEF Inv, HoldInv, NameInv, Types
      <4>2. unique[q] # NoOne => file'[unique[q]] = file[unique[q]]
        BY <4>1, <2>2 DEF Inv, Types
      <4> QED BY <3>2, <4>1, <4>2, <2>2 DEF FileOfOne
    <3> QED BY <3>1, <3>2
  <2>5. NameInv' /\ ArmedInv'
    BY <2>2 DEF Inv, NameInv, ArmedInv
  <2>6. FileInv'
    BY <2>1, <2>2 DEF Inv, Types, FileInv, Abandoned
  <2>7. LinkInv'
    <3> SUFFICES ASSUME link # NoOne PROVE LinkOwned' \/ LinkLeft'
      BY <2>2 DEF LinkInv
    <3>1. CASE LinkOwned
      BY <3>1, <2>2 DEF LinkOwned, AtWork
    <3>2. CASE LinkLeft
      <4>1. file'[link] # NoOne => file'[link] = file[link] /\ file[link] \in Proc
        BY <2>1, <2>2 DEF Inv, Types
      <4> QED BY <3>2, <2>2, <4>1 DEF LinkLeft, Leaving
    <3> QED BY <3>1, <3>2 DEF Inv, LinkInv
  <2> QED BY <1>1, <2>3, <2>4, <2>5, <2>6, <2>7, GoesKeeps DEF Inv
<1> QED BY <1>0, <1>2, <1>3

\* Who reads the lock file reads the name of a process at work or gone from it,
\* not its own.
LEMMA ReadsAnother ==
  ASSUME Inv, NEW p \in Proc, Reads(p), pc[p] \notin AtWork \cup Leaving
  PROVE  file[link] \in Proc \ {p}
<1>1. link \in Names /\ link # NoOne /\ file[link] # NoOne /\ file[link] \in Proc
  BY DEF Inv, Types, Reads, LockExists
<1>2. CASE LinkLeft
  BY <1>1, <1>2 DEF LinkLeft
<1>3. CASE LinkOwned
  <2>1. PICK q \in Proc : unique[q] = link /\ pc[q] \in AtWork
    BY <1>3 DEF LinkOwned
  <2>2. unique[file[link]] = link
    BY <1>1, <2>1 DEF Inv, FileInv, Abandoned
  <2>3. file[link] = q
    BY <1>1, <2>1, <2>2 DEF Inv, NameInv
  <2> QED BY <1>1, <2>1, <2>3
<1> QED BY <1>1, <1>2, <1>3 DEF Inv, LinkInv

LEMMA ShareGoes ==
  ASSUME Inv, NEW p \in Proc, NEW where \in {"wait", "discard"}, Share(p, where),
         pc[p] \notin AtWork \cup Leaving
  PROVE  Goes(p, where) /\ where \in Places
<1>1. file[link] \in Proc \ {p}
  BY ReadsAnother DEF Share
<1>2. Owner' = [Owner EXCEPT ![p] = file[link]] /\ state' = [state EXCEPT ![p] = "shared"]
      /\ Go(p, where) /\ module' = module
  BY DEF Share
<1> QED BY <1>1, <1>2 DEF Inv, Types, States, Goes, Go, Fits, Preparing, Without, Places

\* Nobody is at a place that does not fit its state, or without the file it has there.
LEMMA WhereItIs ==
  ASSUME Inv, NEW p \in Proc
  PROVE  Fits(pc[p], state[p]) /\ FileOfOne(p) /\ LoadOfOne(p) /\ state[p] \in States
BY DEF Inv, PhaseInv, HoldInv, ModuleInv, Types

\* The constructor of LockFileManager.
LEMMA ConstructorKeeps ==
  ASSUME Inv, NEW p \in Proc,
         \/ ReadLockFile(p) \/ Purge(p) \/ CreateUniqueFile(p) \/ WriteOwner(p) \/ CreateLink(p)
         \/ RereadLockFile(p) \/ Repurge(p) \/ CheckExists(p) \/ CleanUp(p) \/ Discard(p)
         \/ FailToLock(p)
  PROVE  Inv'
<1> USE WhereItIs
<1>1. CASE ReadLockFile(p)
  <2>0. pc[p] = "read" /\ pc[p] \notin AtWork \cup Leaving
    BY <1>1 DEF ReadLockFile, AtWork, Leaving
  <2>1. CASE Share(p, "wait")
    <3>1. Goes(p, "wait") /\ "wait" \in Places /\ state'[p] = "shared"
      BY <2>0, <2>1, ShareGoes DEF Share, Inv, Types
    <3> QED BY <2>0, <2>1, <3>1, FilesStay
            DEF Share, files, Inv, Types, ArmedInv, HasFile, Preparing, Holding
  <2>2. CASE Go(p, "purge") /\ UNCHANGED <<locals, link, files, module>>
    <3>1. Goes(p, "purge") /\ "purge" \in Places
      BY <2>0, <2>2 DEF Inv, Types, Goes, Go, locals, Fits, Preparing, Without, Places
    <3> QED BY <2>0, <2>2, <3>1, FilesStay
            DEF files, locals, Inv, Types, ArmedInv, HasFile, Preparing, Holding
  <2> QED BY <1>1, <2>1, <2>2 DEF ReadLockFile
<1>2. CASE Purge(p)
  <2>1. Goes(p, "create") /\ "create" \in Places
    BY <1>2 DEF Purge, Inv, Types, Goes, Go, locals, Fits, Preparing, Without, Places
  <2> QED BY <1>2, <2>1, FilesStay
          DEF Purge, RemoveLock, files, locals, Inv, Types, ArmedInv, HasFile, Preparing, Holding,
              AtWork, Leaving
<1>3. CASE CreateUniqueFile(p)
  BY <1>3, CreateKeeps
<1>4. CASE WriteOwner(p)
  <2>1. Goes(p, "link") /\ "link" \in Places
    BY <1>4 DEF WriteOwner, Inv, Types, Goes, Go, Fits, Preparing, Places
  <2>2. unique[p] # NoOne
    BY <1>4 DEF WriteOwner, FileOfOne, HasFile, Preparing
  <2> QED BY <1>4, <2>1, <2>2, FilesStay
          DEF WriteOwner, files, Inv, Types, HasFile, Preparing, AtWork, Leaving
<1>5. CASE CreateLink(p)
  BY <1>5, LinkKeeps
<1>6. CASE RereadLockFile(p)
  <2>0. pc[p] = "reread" /\ pc[p] \notin AtWork \cup Leaving
    BY <1>6 DEF RereadLockFile, AtWork, Leaving
  <2>1. CASE Share(p, "discard")
    <3>1. Goes(p, "discard") /\ "discard" \in Places /\ state'[p] = "shared"
      BY <2>0, <2>1, ShareGoes DEF Share, Inv, Types
    <3> QED BY <2>0, <2>1, <3>1, FilesStay
            DEF Share, files, Inv, Types, ArmedInv, HasFile, Preparing, Holding
  <2>2. CASE Go(p, "repurge") /\ UNCHANGED <<locals, link, files, module>>
    <3>1. Goes(p, "repurge") /\ "repurge" \in Places
      BY <2>0, <2>2 DEF Inv, Types, Goes, Go, locals, Fits, Preparing, Without, Places
    <3> QED BY <2>0, <2>2, <3>1, FilesStay
            DEF files, locals, Inv, Types, ArmedInv, HasFile, Preparing, Holding
  <2> QED BY <1>6, <2>1, <2>2 DEF RereadLockFile
<1>7. CASE Repurge(p)
  <2>1. Goes(p, "exists") /\ "exists" \in Places
    BY <1>7 DEF Repurge, Inv, Types, Goes, Go, locals, Fits, Preparing, Without, Places
  <2> QED BY <1>7, <2>1, FilesStay
          DEF Repurge, RemoveLock, files, locals, Inv, Types, ArmedInv, HasFile, Preparing,
              Holding, AtWork, Leaving
<1>8. CASE CheckExists(p)
  <2> DEFINE where == IF LockExists THEN "cleanup" ELSE "link"
  <2>1. Goes(p, where) /\ where \in Places
    BY <1>8 DEF CheckExists, Inv, Types, Goes, Go, locals, Fits, Preparing, Without, Places
  <2> QED BY <1>8, <2>1, FilesStay
          DEF CheckExists, files, locals, Inv, Types, ArmedInv, HasFile, Preparing, Holding,
              AtWork, Leaving
<1>9. CASE CleanUp(p)
  <2>1. Goes(p, "link") /\ "link" \in Places
    BY <1>9 DEF CleanUp, Inv, Types, Goes, Go, locals, Fits, Preparing, Without, Places
  <2> QED BY <1>9, <2>1, FilesStay
          DEF CleanUp, files, locals, Inv, Types, ArmedInv, HasFile, Preparing, Holding, AtWork,
              Leaving
<1>10. CASE Discard(p)
  <2>1. Goes(p, "wait") /\ "wait" \in Places
    BY <1>10 DEF Discard, Inv, Types, Goes, Go, Fits, OwnerInv, Preparing, Without, Places
  <2>2. unique[p] # NoOne /\ RemoveUnique(p)
    BY <1>10 DEF Discard, FileOfOne, HasFile, Preparing
  <2> QED BY <1>10, <2>1, <2>2, FileGoes
          DEF Discard, Inv, Types, HasFile, Preparing, Holding, AtWork, Leaving
<1>11. CASE FailToLock(p)
  <2>1. Goes(p, "clear") /\ "clear" \in Places /\ ~HasFile("clear", state'[p])
    BY <1>11 DEF FailToLock, Inv, Types, States, Goes, Go, Fits, HasFile, Preparing, Holding,
                 Without, Places
  <2>2. IF unique[p] = NoOne THEN UNCHANGED files ELSE RemoveUnique(p)
    BY <1>11 DEF FailToLock
  <2>3. pc[p] \notin AtWork \cup Leaving /\ link' = link /\ unique' = [unique EXCEPT ![p] = NoOne]
        /\ armed' = [armed EXCEPT ![p] = FALSE]
    BY <1>11 DEF FailToLock, AtWork, Leaving
  <2> QED BY <2>1, <2>2, <2>3, FileGoes
<1> QED BY <1>1, <1>2, <1>3, <1>4, <1>5, <1>6, <1>7, <1>8, <1>9, <1>10, <1>11

\* compileAndLoadModule, and the destructor of an owner's LockFileManager.
LEMMA CompilerKeeps ==
  ASSUME Inv, NEW p \in Proc,
         \/ unsafeRemoveLockFile(p) \/ CompileModule(p) \/ FailToCompile(p)
         \/ FindUnlocked(p) \/ FindOwnerDead(p) \/ TimeOut(p) \/ CheckFile(p) \/ ReadAST(p)
         \/ ReleaseLock(p) \/ ForgetUnique(p) \/ Exit(p)
  PROVE  Inv'
<1> USE WhereItIs
<1>1. CASE unsafeRemoveLockFile(p)
  <2> DEFINE where == IF pc[p] = "clear" THEN "compile" ELSE "read"
  <2>1. Goes(p, where) /\ where \in Places
    BY <1>1 DEF unsafeRemoveLockFile, Leaves, States, Inv, Types, Goes, Go, locals, Fits,
                Preparing, Holding, Without, Places
  <2> QED BY <1>1, <2>1, FilesStay
          DEF unsafeRemoveLockFile, Leaves, States, UnsafeRemove, RemoveLock, files, locals, Inv,
              Types, ArmedInv, Fits,
              HasFile, Preparing, Holding, AtWork, Leaving
<1>2. CASE CompileModule(p)
  <2>1. Goes(p, "load") /\ "load" \in Places
    BY <1>2 DEF CompileModule, Inv, Types, Goes, Go, locals, Fits, Preparing, Holding, Places
  <2> QED BY <1>2, <2>1, FilesStay
          DEF CompileModule, files, locals, Inv, Types, ArmedInv, HasFile, Preparing, Holding,
              AtWork, Leaving
<1>3. CASE FailToCompile(p)
  <2>1. Goes(p, Return(p)) /\ Return(p) \in Places
    BY <1>3 DEF FailToCompile, Leaves, States, Return, Inv, Types, Goes, Go, locals, Fits,
                Preparing, Holding, Without, Places
  <2>2. state[p] = "owned" \/ unique[p] = NoOne
    BY <1>3 DEF FailToCompile, FileOfOne, HasFile, Preparing
  <2> QED BY <1>3, <2>1, <2>2, FilesStay
          DEF FailToCompile, Leaves, States, Return, files, locals, Inv, Types, ArmedInv, HasFile,
              Preparing, Holding, AtWork, Leaving
<1>4. CASE FindUnlocked(p)
  <2>1. Goes(p, "unlocked") /\ "unlocked" \in Places
    BY <1>4 DEF FindUnlocked, Inv, Types, Goes, Go, locals, Fits, Preparing, Without, Places
  <2> QED BY <1>4, <2>1, FilesStay
          DEF FindUnlocked, files, locals, Inv, Types, ArmedInv, HasFile, Preparing, Holding,
              AtWork, Leaving
<1>5. CASE FindOwnerDead(p)
  <2>1. Goes(p, "read") /\ "read" \in Places
    BY <1>5 DEF FindOwnerDead, Leaves, States, Inv, Types, Goes, Go, locals, Fits, Preparing,
                Without, Places
  <2> QED BY <1>5, <2>1, FilesStay
          DEF FindOwnerDead, Leaves, States, files, locals, Inv, Types, ArmedInv, HasFile,
              Preparing, Holding, AtWork, Leaving
<1>6. CASE TimeOut(p)
  <2>1. Goes(p, "timeout") /\ "timeout" \in Places
    BY <1>6 DEF TimeOut, Inv, Types, Goes, Go, locals, Fits, Preparing, Without, Places
  <2> QED BY <1>6, <2>1, FilesStay
          DEF TimeOut, files, locals, Inv, Types, ArmedInv, HasFile, Preparing, Holding, AtWork,
              Leaving
<1>7. CASE CheckFile(p)
  <2>1. Goes(p, AfterUnlock) /\ AfterUnlock \in Places
    BY <1>7 DEF CheckFile, Leaves, States, AfterUnlock, Inv, Types, Goes, Go, locals, Fits,
                Preparing, Holding, Without, Places
  <2> QED BY <1>7, <2>1, FilesStay
          DEF CheckFile, Leaves, States, AfterUnlock, files, locals, Inv, Types, ArmedInv, Fits,
              HasFile, Preparing, Holding, AtWork, Leaving
<1>8. CASE ReadAST(p)
  <2> DEFINE where == IF AfterLoad(p) = "again" THEN "read" ELSE Return(p)
  <2>1. AfterLoad(p) = "again" => state[p] = "shared"
    BY DEF AfterLoad
  <2>2. Goes(p, where) /\ where \in Places
    BY <1>8, <2>1 DEF ReadAST, Leaves, States, Return, Inv, Types, Goes, Go, locals, Fits,
                      Preparing, Holding, Without, Places
  <2>3. state[p] = "owned" \/ unique[p] = NoOne
    BY <1>8 DEF ReadAST, FileOfOne, HasFile, Preparing
  <2> QED BY <1>8, <2>1, <2>2, <2>3, FilesStay
          DEF ReadAST, Leaves, States, Return, files, locals, Inv, Types, ArmedInv, HasFile,
              Preparing, Holding, AtWork, Leaving
<1>9. CASE ReleaseLock(p)
  <2>1. Goes(p, "forget") /\ "forget" \in Places
    BY <1>9 DEF ReleaseLock, Inv, Types, Goes, Go, locals, Fits, Preparing, Holding, Places
  <2>2. pc[p] = "release" /\ state[p] = "owned" /\ unique[p] \in Names
    BY <1>9, NoOneAssumption DEF ReleaseLock, Fits, FileOfOne, HasFile, Holding, Inv, Types
  <2>3. file' = file /\ unique' = unique /\ armed' = armed /\ state' = state
    BY <1>9 DEF ReleaseLock, locals
  <2>4. /\ link' = NoOne \/ (link' = link /\ unique[p] \in left')
        /\ left \subseteq left' /\ left' \subseteq Names /\ Cardinality(left') <= MaxLeft
    BY <1>9, <2>2 DEF ReleaseLock, Released, Leave, Inv, Types
  <2>5. armed[p] => unique[p] # NoOne
    BY DEF Inv, ArmedInv
  <2>6. HasFile("forget", state'[p]) /\ HasFile(pc[p], state[p])
    BY <2>2, <2>3 DEF HasFile, Holding
  <2>7. armed' \in [Proc -> BOOLEAN] /\ "release" \notin Leaving
    BY <2>3 DEF Inv, Types, Leaving
  <2> QED BY <2>1, <2>2, <2>3, <2>4, <2>5, <2>6, <2>7, FilesStay
<1>10. CASE ForgetUnique(p)
  <2>1. Goes(p, "done") /\ "done" \in Places
    BY <1>10 DEF ForgetUnique, Leaves, States, Inv, Types, Goes, Go, Fits, Preparing, Without,
                 Places
  <2>2. unique[p] # NoOne /\ RemoveUnique(p)
    BY <1>10 DEF ForgetUnique, Fits, FileOfOne, HasFile, Holding
  <2> QED BY <1>10, <2>1, <2>2, FileGoes
          DEF ForgetUnique, Leaves, States, Inv, Types, HasFile, Preparing, Holding, AtWork, Leaving
<1>11. CASE Exit(p)
  <2>1. Goes(p, "exited") /\ "exited" \in Places
    BY <1>11 DEF Exit, Inv, Types, Goes, Go, locals, Fits, Preparing, Without, Places
  <2> QED BY <1>11, <2>1, FilesStay
          DEF Exit, files, locals, Inv, Types, ArmedInv, HasFile, Preparing, Holding, AtWork,
              Leaving
<1> QED BY <1>1, <1>2, <1>3, <1>4, <1>5, <1>6, <1>7, <1>8, <1>9, <1>10, <1>11

-----------------------------------------------------------------------------
(* The theorems.                                                           *)

LEMMA Initially == Init => Inv
<1> SUFFICES ASSUME Init PROVE Inv
  OBVIOUS
<1>1. Types /\ PhaseInv
  BY NamesAssumption, FS_EmptySet DEF Init, Types, PhaseInv, Fits, Preparing, Without, Places,
                                      States
<1>2. HoldInv /\ NameInv /\ FileInv
  BY DEF Init, HoldInv, FileOfOne, HasFile, Preparing, Holding, NameInv, FileInv
<1>3. ArmedInv /\ OwnerInv /\ ModuleInv /\ LinkInv
  BY DEF Init, ArmedInv, OwnerInv, ModuleInv, LoadOfOne, LinkInv
<1> QED BY <1>1, <1>2, <1>3 DEF Inv

LEMMA Inductive == Inv /\ [Next]_vars => Inv'
<1> SUFFICES ASSUME Inv, [Next]_vars PROVE Inv'
  OBVIOUS
<1>1. CASE UNCHANGED vars
  BY <1>1 DEF vars, Inv, Types, PhaseInv, HoldInv, FileOfOne, NameInv, FileInv, ArmedInv, OwnerInv,
              ModuleInv, LoadOfOne, LinkInv, LinkOwned, LinkLeft, Abandoned
<1>2. CASE Next
  <2>1. PICK p \in Proc : Step(p) \/ Exit(p) \/ Crash(p)
    BY <1>2 DEF Next
  <2> QED BY <2>1, ConstructorKeeps, CompilerKeeps, CrashKeeps DEF Step
<1> QED BY <1>1, <1>2

LEMMA Invariance == Spec => []Inv
BY Initially, Inductive, PTL DEF Spec

\* The types, and more: who waits waits for another process, and who owns or
\* prepares a lock has a unique file of its own.
THEOREM TypeCorrect == Spec => []TypeOK
<1>1. Inv => TypeOK
  <2> SUFFICES ASSUME Inv PROVE TypeOK
    OBVIOUS
  <2>1. ASSUME NEW p \in Proc, pc[p] \in {"wait", "discard"}
        PROVE  Owner[p] \in Proc \ {p} /\ state[p] = "shared"
    BY <2>1, WhereItIs DEF Inv, OwnerInv, Fits
  <2>2. ASSUME NEW p \in Proc,
               \/ pc[p] \in {"write", "link", "reread", "repurge", "exists", "cleanup", "discard"}
               \/ state[p] = "owned" /\ pc[p] \notin Finished \cup {"killed"}
        PROVE  unique[p] \in Names /\ file[unique[p]] = p
    <3>1. HasFile(pc[p], state[p])
      BY <2>2, WhereItIs DEF Inv, Types, Fits, Finished, HasFile, Preparing, Holding, Without,
                             Places
    <3> QED BY <3>1, WhereItIs DEF FileOfOne, Inv, Types
  <2> QED BY <2>1, <2>2 DEF TypeOK, Inv, Types, ArmedInv
<1> QED BY <1>1, Invariance, PTL

\* No lock file outlives the work of its owner, if that was not killed and did
\* not fail to remove it: not even if others took the lock away meanwhile.
THEOREM NoForgottenLockCorrect == Spec => []NoForgottenLock
<1>1. Inv => NoForgottenLock
  BY DEF Inv, LinkInv, LinkOwned, LinkLeft, AtWork, NoForgottenLock
<1> QED BY <1>1, Invariance, PTL

\* A process that ends leaves no unique file behind, on whatever way it ends,
\* but one whose removal failed.
THEOREM NoLitterCorrect == Spec => []NoLitter
<1>1. Inv => NoLitter
  <2> SUFFICES ASSUME Inv, NEW n \in Names \ left, file[n] # NoOne
               PROVE  pc[file[n]] \notin Finished /\ unique[file[n]] = n
    BY DEF NoLitter
  <2>1. file[n] \in Proc /\ unique[file[n]] = n /\ unique[file[n]] # NoOne
    BY NoOneAssumption DEF Inv, Types, FileInv, Abandoned
  <2> QED BY <2>1, WhereItIs DEF FileOfOne, HasFile, Preparing, Holding, Finished
<1> QED BY <1>1, Invariance, PTL

\* A module that cannot be loaded was built by this very process, or is built
\* again: locks, timeouts and the deaths of others never fail a build.
THEOREM OnlyOwnFailuresCorrect == Spec => []OnlyOwnFailures
<1>1. Inv => OnlyOwnFailures
  <2> SUFFICES ASSUME Inv, NEW p \in Proc, pc[p] = "load", module # "fresh"
               PROVE  AfterLoad(p) = "again"
    BY DEF OnlyOwnFailures
  <2> QED BY WhereItIs DEF LoadOfOne, AfterLoad
<1> QED BY <1>1, Invariance, PTL
===============================================================================
