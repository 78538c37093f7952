---------------------------- MODULE DirTreeProofs ----------------------------
(***************************************************************************)
(* With one request at a time that moves directories, whatever the others  *)
(* do, the directories stay a tree.  The inductive invariant adds to       *)
(* TypeOK and Acyclic what a request relies on between its last read and   *)
(* its write: the id of a directory about to be inserted is nobody else's, *)
(* and the target of a move is not below what is moved.  With one request  *)
(* at a time the trash, the counters and the links are consistent as well. *)
(***************************************************************************)
EXTENDS DirTree, FiniteSetTheorems, TLAPS

\* A request about to insert has a parent and an id that is its own.
Reserved ==
    \A r \in Reqs : At(r, "insertDir") =>
        /\ req[r].d \in Dirs /\ req[r].p \in Dirs
        /\ req[r].d # req[r].p /\ ~HasRow(req[r].d)
        /\ \A q \in Reqs \ {r} : req[q].d # req[r].d /\ req[q].p # req[r].d

\* The check of Update still holds when its UPDATE runs.
NotNested ==
    \A r \in Reqs :
        /\ At(r, "moveIds") \/ At(r, "move") =>
               r \in Movers /\ req[r].d \in Dirs /\ req[r].p \in Dirs
        /\ At(r, "move") => req[r].p \notin Below(req[r].d)

\* No two requests are about to move a directory.
NoSecondMove == \A q, r \in Reqs : At(q, "move") /\ At(r, "move") => q = r

FileTarget ==
    \A r \in Reqs : At(r, "insertFile") => req[r].f \in Files /\ req[r].p \in Dirs

IInv == TypeOK /\ Acyclic /\ Reserved /\ NotNested /\ FileTarget

-----------------------------------------------------------------------------
(* Trees as functions: Below and Acyclic for a given function of parents.  *)

Closed(P, S) == \A x \in Dirs : P[x] \in S => x \in S
Under(P, d)  == {x \in Dirs : \A S \in SUBSET Dirs : d \in S /\ Closed(P, S) => x \in S}
Cycle(P, S)  == S # {} /\ \A x \in S : P[x] \in S
NoCycle(P)   == \A S \in SUBSET Dirs : ~Cycle(P, S)

\* Below and Acyclic are these operators at parent (FindSubtreeIDs).
LEMMA BelowIsUnder ==
    /\ \A d : Below(d) = Under(parent, d) /\ Below(d)' = Under(parent', d)
    /\ Acyclic <=> NoCycle(parent)
    /\ Acyclic' <=> NoCycle(parent')
  BY DEF Below, Under, DownClosed, Closed, Acyclic, NoCycle, Cycle

\* The subtree of d holds d, is closed under children and is the least such.
LEMMA UnderFacts ==
    ASSUME NEW P, NEW d \in Dirs
    PROVE  /\ d \in Under(P, d)
           /\ Closed(P, Under(P, d))
           /\ \A S \in SUBSET Dirs : d \in S /\ Closed(P, S) => Under(P, d) \subseteq S
  BY DEF Under, Closed

\* A new leaf makes no cycle, and only itself joins a subtree (InsertDir).
LEMMA LeafInserted ==
    ASSUME NEW P \in [Dirs -> Dirs \cup {None}], NoCycle(P),
           NEW d \in Dirs, NEW p \in Dirs, d # p,
           \A x \in Dirs : P[x] # d,
           NEW Q, Q = [P EXCEPT ![d] = p]
    PROVE  /\ NoCycle(Q)
           /\ \A e \in Dirs, t \in Dirs : t # d /\ t \notin Under(P, e) => t \notin Under(Q, e)
<1>1. NoCycle(Q)
  <2> SUFFICES ASSUME NEW S \in SUBSET Dirs, Cycle(Q, S) PROVE FALSE
    BY DEF NoCycle
  <2> DEFINE T == S \ {d}
  <2>1. \A x \in T : P[x] \in T
    BY DEF Cycle
  <2>2. T # {}
    BY DEF Cycle
  <2> QED BY <2>1, <2>2 DEF NoCycle, Cycle
<1>2. ASSUME NEW e \in Dirs, NEW t \in Dirs, t # d, t \notin Under(P, e)
      PROVE  t \notin Under(Q, e)
  <2> DEFINE T == Under(P, e) \cup {d}
  <2>1. T \in SUBSET Dirs /\ e \in T
    BY UnderFacts DEF Under
  <2>2. Closed(Q, T)
    BY UnderFacts DEF Closed
  <2>3. Under(Q, e) \subseteq T
    BY <2>1, <2>2, UnderFacts
  <2> QED BY <1>2, <2>3
<1> QED BY <1>1, <1>2

\* Moving d to a directory that is not below it makes no cycle: a cycle would
\* have been there before, in what is not below d (UpdateNameAndParent).
LEMMA MovedOutside ==
    ASSUME NEW P \in [Dirs -> Dirs \cup {None}], NoCycle(P),
           NEW d \in Dirs, NEW p \in Dirs, p \notin Under(P, d),
           NEW Q, Q = [P EXCEPT ![d] = p]
    PROVE  NoCycle(Q)
<1> SUFFICES ASSUME NEW S \in SUBSET Dirs, Cycle(Q, S) PROVE FALSE
  BY DEF NoCycle
<1>1. CASE d \notin S
  <2>1. Cycle(P, S)
    BY <1>1 DEF Cycle
  <2> QED BY <2>1 DEF NoCycle
<1>2. CASE d \in S
  <2> DEFINE T == S \ Under(P, d)
  <2>1. p \in T
    BY <1>2 DEF Cycle
  <2>2. ASSUME NEW x \in T PROVE P[x] \in T
    <3>1. x # d /\ x \in Dirs
      BY UnderFacts
    <3>2. P[x] \in S
      BY <3>1 DEF Cycle
    <3>3. P[x] \notin Under(P, d)
      BY <3>1, UnderFacts DEF Closed
    <3> QED BY <3>2, <3>3
  <2>3. T \in SUBSET Dirs /\ Cycle(P, T)
    BY <2>1, <2>2 DEF Cycle
  <2> QED BY <2>3 DEF NoCycle
<1> QED BY <1>1, <1>2

\* Rows that go take nothing into a subtree and close no cycle (HardDelete).
LEMMA RowsDeleted ==
    ASSUME NEW P \in [Dirs -> Dirs \cup {None}], NoCycle(P), NEW G,
           NEW Q, Q = [x \in Dirs |-> IF x \in G THEN None ELSE P[x]]
    PROVE  /\ NoCycle(Q)
           /\ \A e \in Dirs : Under(Q, e) \subseteq Under(P, e)
<1>0. None \notin Dirs
  BY ConstantsOK
<1>1. NoCycle(Q)
  <2> SUFFICES ASSUME NEW S \in SUBSET Dirs, Cycle(Q, S) PROVE FALSE
    BY DEF NoCycle
  <2>1. Cycle(P, S)
    BY <1>0 DEF Cycle
  <2> QED BY <2>1 DEF NoCycle
<1>2. ASSUME NEW e \in Dirs PROVE Under(Q, e) \subseteq Under(P, e)
  <2>1. Under(P, e) \in SUBSET Dirs /\ e \in Under(P, e) /\ Closed(P, Under(P, e))
    BY UnderFacts DEF Under
  <2>2. Closed(Q, Under(P, e))
    BY <1>0, <2>1 DEF Closed
  <2> QED BY <2>1, <2>2, UnderFacts
<1> QED BY <1>1, <1>2

-----------------------------------------------------------------------------
(* Facts of the shape of states and steps.                                 *)

\* The stamps: a time of deletion is neither "alive" nor "no row".
LEMMA StampFacts ==
    /\ Alive = 0 /\ Alive \in Stamps /\ None \in Stamps /\ None # Alive
    /\ \A t \in Times : t \in Stamps /\ t # Alive /\ t # None
    /\ None \notin Dirs /\ None \notin Files
  BY ConstantsOK DEF Alive, Stamps

\* The counters stay integers: what they are moved by is a number of files.
LEMMA CountFacts ==
    ASSUME TypeOK
    PROVE  /\ \A S \in SUBSET Files : Cardinality(S) \in Nat
           /\ \A d, n : n \in Int => Adjusted(d, n) \in [Dirs -> Int]
           /\ \A ts, status : status \in LinkStates =>
                  Switched(ts, status) \in [Dirs \cup Files -> LinkStates]
<1>1. \A S \in SUBSET Files : Cardinality(S) \in Nat
  BY ConstantsOK, FS_Subset, FS_CardinalityType
<1>2. \A d, n : n \in Int => Adjusted(d, n) \in [Dirs -> Int]
  BY DEF TypeOK, Adjusted
<1>3. \A ts, status : status \in LinkStates =>
          Switched(ts, status) \in [Dirs \cup Files -> LinkStates]
  BY DEF TypeOK, Switched
<1> QED BY <1>1, <1>2, <1>3

\* Idle is a request.
LEMMA IdleRequest == Idle \in Request
  BY DEF Idle, Request, Pcs, Stamps

\* What a cascade deletes is closed under children (ON DELETE CASCADE).
LEMMA CascadeFacts ==
    ASSUME NEW ids \in SUBSET Dirs
    PROVE  /\ Cascade(ids) \subseteq Dirs
           /\ \A x \in Dirs : parent[x] \in Cascade(ids) => x \in Cascade(ids)
<1>1. Cascade(ids) \subseteq Dirs
  BY DEF Cascade, Below
<1>2. ASSUME NEW x \in Dirs, parent[x] \in Cascade(ids) PROVE x \in Cascade(ids)
  <2>1. PICK d \in {y \in ids : HasRow(y)} : parent[x] \in Below(d)
    BY <1>2 DEF Cascade
  <2>2. x \in Below(d)
    BY <2>1, BelowIsUnder, UnderFacts DEF Closed
  <2> QED BY <2>1, <2>2 DEF Cascade
<1> QED BY <1>1, <1>2

-----------------------------------------------------------------------------
(* Types and foreign keys.                                                 *)

\* Init establishes the invariant.
LEMMA InitIInv == Init => IInv
<1> SUFFICES ASSUME Init PROVE IInv
  OBVIOUS
<1> USE StampFacts, ConstantsOK DEF Init
<1>1. TypeOK
  BY IdleRequest DEF TypeOK, LinkStates, HasRow
<1>2. Acyclic
  <2> SUFFICES ASSUME NEW S \in SUBSET Dirs, S # {}, \A x \in S : parent[x] \in S
               PROVE  FALSE
    BY DEF Acyclic
  <2>1. \A x \in S : x = Home
    OBVIOUS
  <2>2. Root \in S
    BY <2>1
  <2> QED BY <2>1, <2>2
<1>3. Reserved /\ NotNested /\ FileTarget
  BY DEF Reserved, NotNested, FileTarget, At, Idle
<1> QED BY <1>1, <1>2, <1>3 DEF IInv

\* A request that only reads stays a request, and nothing else changes.
LEMMA ReadsKeepTypes ==
    ASSUME TypeOK, NEW r \in Reqs, UNCHANGED <<tree, files, filesCount, link, alone>>,
           NEW v \in Request, req' = [req EXCEPT ![r] = v]
    PROVE  TypeOK'
  BY DEF TypeOK, tree, files, HasRow

\* The read steps of the handlers.
Reads(r) ==
    \/ \E d, p \in Dirs : Create(r, d, p) \/ Update(r, d, p)
    \/ \E d \in Dirs : SoftDelete(r, d) \/ Restore(r, d) \/ PermanentDelete(r, d) \/ ClearTrash(r, d)
    \/ CheckNesting(r) \/ TrashedSubtree(r) \/ TrashedFiles(r)
    \/ RestoreUnderParent(r) \/ RestoredSubtree(r) \/ RestoredFiles(r)
    \/ PurgedSubtree(r) \/ PurgedAlive(r) \/ PurgedDead(r)
    \/ ClearedSubtree(r) \/ ClearedFiles(r)
    \/ HardDeletePanics(r) \/ Refused(r)

\* What a step has read goes into a request of the same type.
ReadInto(r) ==
    \E pc \in Pcs :
        \/ \E ids \in SUBSET Dirs : req' = [req EXCEPT ![r].pc = pc, ![r].ids = ids]
        \/ \E S \in SUBSET Files : \/ req' = [req EXCEPT ![r].pc = pc, ![r].live = S]
                                   \/ req' = [req EXCEPT ![r].pc = pc, ![r].dead = S]

LEMMA ReadTyped ==
    ASSUME TypeOK, NEW r \in Reqs, ReadInto(r)
    PROVE  \E v \in Request : req' = [req EXCEPT ![r] = v]
<1>1. PICK pc \in Pcs :
        \/ \E ids \in SUBSET Dirs : req' = [req EXCEPT ![r].pc = pc, ![r].ids = ids]
        \/ \E S \in SUBSET Files : \/ req' = [req EXCEPT ![r].pc = pc, ![r].live = S]
                                   \/ req' = [req EXCEPT ![r].pc = pc, ![r].dead = S]
  BY DEF ReadInto
<1>2. req[r] \in Request
  BY DEF TypeOK
<1>3. ASSUME NEW ids \in SUBSET Dirs, req' = [req EXCEPT ![r].pc = pc, ![r].ids = ids]
      PROVE  \E v \in Request : req' = [req EXCEPT ![r] = v]
  <2>1. [req[r] EXCEPT !.pc = pc, !.ids = ids] \in Request
    BY ONLY <1>2 DEF Request
  <2> QED BY ONLY <1>3, <2>1
<1>4. ASSUME NEW S \in SUBSET Files, req' = [req EXCEPT ![r].pc = pc, ![r].live = S]
      PROVE  \E v \in Request : req' = [req EXCEPT ![r] = v]
  <2>1. [req[r] EXCEPT !.pc = pc, !.live = S] \in Request
    BY ONLY <1>2 DEF Request
  <2> QED BY ONLY <1>4, <2>1
<1>5. ASSUME NEW S \in SUBSET Files, req' = [req EXCEPT ![r].pc = pc, ![r].dead = S]
      PROVE  \E v \in Request : req' = [req EXCEPT ![r] = v]
  <2>1. [req[r] EXCEPT !.pc = pc, !.dead = S] \in Request
    BY ONLY <1>2 DEF Request
  <2> QED BY ONLY <1>5, <2>1
<1> QED BY <1>1, <1>3, <1>4, <1>5

\* Every read step is one of those (no row, no object and no link changes).
LEMMA ReadSteps ==
    ASSUME TypeOK, NEW r \in Reqs, Reads(r)
    PROVE  /\ UNCHANGED <<tree, files, filesCount, link>>
           /\ \E v \in Request : req' = [req EXCEPT ![r] = v]
<1> USE StampFacts, IdleRequest DEF Reads, TypeOK, Pcs
<1>1. ASSUME NEW d \in Dirs, NEW p \in Dirs, Create(r, d, p) \/ Update(r, d, p)
      PROVE  \E v \in Request : req' = [req EXCEPT ![r] = v]
  BY <1>1 DEF Create, Update, Request, Idle
<1>2. ASSUME NEW d \in Dirs,
             SoftDelete(r, d) \/ Restore(r, d) \/ PermanentDelete(r, d) \/ ClearTrash(r, d)
      PROVE  \E v \in Request : req' = [req EXCEPT ![r] = v]
  BY <1>2 DEF SoftDelete, Restore, PermanentDelete, ClearTrash, Request, Idle
<1>3. ASSUME CheckNesting(r) \/ RestoreUnderParent(r) \/ HardDeletePanics(r) \/ Refused(r)
      PROVE  \E v \in Request : req' = [req EXCEPT ![r] = v]
  BY <1>3 DEF CheckNesting, RestoreUnderParent, HardDeletePanics, Refused, Return, Request
<1>4. ASSUME TrashedSubtree(r) \/ RestoredSubtree(r) \/ PurgedSubtree(r) \/ ClearedSubtree(r)
      PROVE  \E v \in Request : req' = [req EXCEPT ![r] = v]
  <2>1. ReadInto(r)
    BY <1>4 DEF TrashedSubtree, RestoredSubtree, PurgedSubtree, ClearedSubtree, Below, ReadInto
  <2> QED BY <2>1, ReadTyped
<1>5. ASSUME TrashedFiles(r) \/ RestoredFiles(r) \/ PurgedAlive(r) \/ PurgedDead(r) \/ ClearedFiles(r)
      PROVE  \E v \in Request : req' = [req EXCEPT ![r] = v]
  <2>1. ReadInto(r)
    BY <1>5 DEF TrashedFiles, RestoredFiles, PurgedAlive, PurgedDead, ClearedFiles,
                FilesAlive, FilesTrashed, ReadInto
  <2> QED BY <2>1, ReadTyped
<1>6. UNCHANGED <<tree, files, filesCount, link>>
  BY DEF Create, Update, SoftDelete, Restore, PermanentDelete, ClearTrash,
         CheckNesting, TrashedSubtree, TrashedFiles, RestoreUnderParent, RestoredSubtree,
         RestoredFiles, PurgedSubtree, PurgedAlive, PurgedDead, ClearedSubtree, ClearedFiles,
         HardDeletePanics, Refused
<1> QED BY <1>1, <1>2, <1>3, <1>4, <1>5, <1>6

-----------------------------------------------------------------------------
(* The steps that write.                                                   *)

\* Steps that leave parent and "has a row" alone keep the tree and what
\* requests rely on (every operation but Create, Update and the deletions).
LEMMA TreeKept ==
    ASSUME IInv, TypeOK', NEW r \in Reqs, UNCHANGED parent,
           \A d \in Dirs : HasRow(d)' <=> HasRow(d),
           NEW v, req' = [req EXCEPT ![r] = v],
           v.pc \notin {"insertDir", "insertFile", "moveIds", "move"},
           v.d \in {None, req[r].d} \/ (v.d \in Dirs /\ HasRow(v.d)),
           v.p \in {None, req[r].p} \/ (v.p \in Dirs /\ HasRow(v.p))
    PROVE  IInv'
<1>1. Acyclic'
  BY DEF IInv, Acyclic
<1>2. Reserved'
  BY StampFacts DEF IInv, Reserved, At, TypeOK
<1>3. NotNested'
  BY DEF IInv, NotNested, At, Below, DownClosed, TypeOK
<1>4. FileTarget'
  BY DEF IInv, FileTarget, At, TypeOK
<1> QED BY <1>1, <1>2, <1>3, <1>4 DEF IInv

\* A request returns.
LEMMA ReturnKeeps ==
    ASSUME IInv, TypeOK', NEW r \in Reqs, UNCHANGED parent, Return(r),
           \A d \in Dirs : HasRow(d)' <=> HasRow(d)
    PROVE  IInv'
  BY TreeKept DEF Return, Idle

\* The INSERT of a directory adds a leaf.
LEMMA InsertDirKeeps ==
    ASSUME IInv, UNCHANGED alone, NEW r \in Reqs, InsertDir(r)
    PROVE  IInv'
<1> DEFINE d == req[r].d
           p == req[r].p
<1> USE StampFacts DEF IInv
<1>1. d \in Dirs /\ p \in Dirs /\ d # p /\ ~HasRow(d) /\ HasRow(p)
  BY DEF InsertDir, Reserved
<1>2. \A x \in Dirs : parent[x] # d
  BY <1>1 DEF TypeOK
<1>3. parent' = [parent EXCEPT ![d] = p] /\ dirAt' = [dirAt EXCEPT ![d] = Alive]
      /\ req' = [req EXCEPT ![r] = Idle]
  BY DEF InsertDir, Return
<1>4. TypeOK'
  BY <1>1, <1>2, <1>3, IdleRequest DEF TypeOK, InsertDir, HasRow, files
<1>5. /\ NoCycle(parent')
      /\ \A e \in Dirs, t \in Dirs : t # d /\ t \notin Below(e) => t \notin Below(e)'
  <2>1. parent \in [Dirs -> Dirs \cup {None}] /\ NoCycle(parent)
    BY BelowIsUnder DEF TypeOK
  <2>2. d \in Dirs /\ p \in Dirs /\ d # p /\ parent' = [parent EXCEPT ![d] = p]
        /\ \A x \in Dirs : parent[x] # d
    BY <1>1, <1>2, <1>3
  <2> HIDE DEF d, p
  <2>3. /\ NoCycle(parent')
        /\ \A e \in Dirs, t \in Dirs :
               t # d /\ t \notin Under(parent, e) => t \notin Under(parent', e)
    BY <2>1, <2>2, LeafInserted
  <2> QED BY <2>3, BelowIsUnder
<1>6. Acyclic'
  BY <1>5, BelowIsUnder
<1>7. Reserved'
  BY <1>1, <1>3 DEF Reserved, At, HasRow, TypeOK, Idle
<1>8. NotNested'
  BY <1>1, <1>3, <1>5 DEF NotNested, Reserved, At, TypeOK, Idle, InsertDir
<1>9. FileTarget'
  BY <1>3 DEF FileTarget, At, TypeOK, Idle
<1> QED BY <1>4, <1>6, <1>7, <1>8, <1>9

\* The UPDATE of parent_id keeps the tree, because nobody else has moved a
\* directory since the check.
LEMMA MoveKeeps ==
    ASSUME IInv, UNCHANGED alone, NoSecondMove,
           NEW r \in Reqs, UpdateNameAndParent(r)
    PROVE  IInv'
<1> DEFINE d == req[r].d
           p == req[r].p
<1> USE StampFacts DEF IInv
<1>1. r \in Movers /\ d \in Dirs /\ p \in Dirs /\ p \notin Below(d) /\ HasRow(p)
  BY DEF UpdateNameAndParent, NotNested
<1>2. UNCHANGED <<dirAt, files, filesCount, link>> /\ req' = [req EXCEPT ![r] = Idle]
  BY DEF UpdateNameAndParent, Return
<1>3. parent' = parent \/ (IsAlive(d) /\ parent' = [parent EXCEPT ![d] = p])
  BY DEF UpdateNameAndParent
<1>4. TypeOK'
  BY <1>1, <1>2, <1>3, IdleRequest DEF TypeOK, HasRow, files, IsAlive
<1>5. Acyclic'
  <2>1. CASE parent' = parent
    BY <2>1 DEF Acyclic
  <2>2. CASE parent' = [parent EXCEPT ![d] = p]
    BY <1>1, <2>2, MovedOutside, BelowIsUnder DEF TypeOK
  <2> QED BY <1>3, <2>1, <2>2
<1>6. Reserved'
  BY <1>2 DEF Reserved, At, HasRow, TypeOK, Idle
<1>7. NotNested'
  BY <1>1, <1>2 DEF NotNested, NoSecondMove, UpdateNameAndParent, At, TypeOK, Idle
<1>8. FileTarget'
  BY <1>2 DEF FileTarget, At, TypeOK, Idle
<1> QED BY <1>4, <1>5, <1>6, <1>7, <1>8

\* Rows go with everything below them.
LEMMA HardDeleteKeeps ==
    ASSUME IInv, UNCHANGED alone, NEW r \in Reqs, HardDelete(r)
    PROVE  IInv'
<1> DEFINE gone == Cascade(req[r].ids)
           rows == {f \in Files : fileIn[f] \in gone \/ (At(r, "clear") /\ f \in req[r].dead)}
           n == Cardinality(req[r].live)
           count == Adjusted(req[r].p, -n)
<1> USE StampFacts DEF IInv
<1>1. /\ parent' = [d \in Dirs |-> IF d \in gone THEN None ELSE parent[d]]
      /\ dirAt'  = [d \in Dirs |-> IF d \in gone THEN None ELSE dirAt[d]]
      /\ fileIn' = [f \in Files |-> IF f \in rows THEN None ELSE fileIn[f]]
      /\ fileAt' = [f \in Files |-> IF f \in rows THEN None ELSE fileAt[f]]
      /\ req' = [req EXCEPT ![r] = Idle]
  BY DEF HardDelete, Return
<1>2. req[r].ids \in SUBSET Dirs /\ req[r].live \in SUBSET Files /\ req[r].dead \in SUBSET Files
  BY DEF TypeOK, Request
<1>3. \A x \in Dirs : parent[x] \in gone => x \in gone
  BY <1>2, CascadeFacts
<1>4. n \in Nat /\ Cardinality(req[r].dead) \in Nat /\ count \in [Dirs -> Int]
  BY <1>2, CountFacts
<1>5. TypeOK'
  <2>1. /\ parent' \in [Dirs -> Dirs \cup {None}] /\ dirAt' \in [Dirs -> Stamps]
        /\ fileIn' \in [Files -> Dirs \cup {None}] /\ fileAt' \in [Files -> Stamps]
        /\ req' \in [Reqs -> Request]
    BY <1>1, IdleRequest DEF TypeOK
  <2>2. filesCount' \in [Dirs -> Int] /\ used' \in Int
    <3>1. filesCount' = [d \in Dirs |-> IF d \in gone THEN 0 ELSE count[d]]
      BY DEF HardDelete
    <3>2. used' = used - n - Cardinality(req[r].dead)
      BY DEF HardDelete
    <3> QED BY <1>4, <3>1, <3>2 DEF TypeOK
  <2>3. objects' \subseteq Files /\ link' \in [Dirs \cup Files -> LinkStates]
    BY DEF HardDelete, TypeOK, LinkStates
  <2>4. \A d \in Dirs : parent'[d] # None => HasRow(d)' /\ HasRow(parent[d])'
    BY <1>1, <1>3 DEF TypeOK, HasRow
  <2>5. /\ \A f \in Files : fileAt'[f] # None <=> fileIn'[f] # None
        /\ \A f \in Files : fileIn'[f] # None => HasRow(fileIn[f])'
    BY <1>1 DEF TypeOK, HasRow
  <2> QED BY <2>1, <2>2, <2>3, <2>4, <2>5 DEF TypeOK
<1>6. NoCycle(parent') /\ \A e \in Dirs : Below(e)' \subseteq Below(e)
  BY <1>1, RowsDeleted, BelowIsUnder DEF TypeOK
<1>7. Acyclic'
  BY <1>6, BelowIsUnder
<1>8. Reserved'
  BY <1>1 DEF Reserved, At, HasRow, TypeOK, Idle
<1>9. NotNested'
  BY <1>1, <1>6 DEF NotNested, At, TypeOK, Idle
<1>10. FileTarget'
  BY <1>1 DEF FileTarget, At, TypeOK, Idle
<1> QED BY <1>5, <1>7, <1>8, <1>9, <1>10

-----------------------------------------------------------------------------
(* The remaining steps, and the theorems.                                  *)

\* Reading steps keep the invariant: they take a fresh id, or ids that have
\* rows, and CheckNesting lets no target below the directory through.
LEMMA ReadsKeep ==
    ASSUME IInv, UNCHANGED alone, NEW r \in Reqs, Reads(r)
    PROVE  IInv'
<1> USE StampFacts DEF IInv
<1>1. PICK v \in Request :
        /\ UNCHANGED <<tree, files, filesCount, link>>
        /\ req' = [req EXCEPT ![r] = v]
  BY ReadSteps
<1>2. TypeOK'
  BY <1>1, ReadsKeepTypes
<1>3. /\ UNCHANGED parent /\ \A d \in Dirs : HasRow(d)' <=> HasRow(d)
      /\ req[r] \in Request /\ req'[r] = v
  BY <1>1 DEF tree, HasRow, TypeOK
<1>4. ASSUME NEW d \in Dirs, NEW p \in Dirs, Create(r, d, p)
      PROVE  IInv'
  <2>1. /\ req'[r].pc = "insertDir" /\ req'[r].d = d /\ req'[r].p = p
        /\ ~HasRow(d) /\ HasRow(p) /\ \A q \in Reqs : d # req[q].d /\ d # req[q].p
    BY <1>3, <1>4 DEF Create, FreshDir, IsAlive, HasRow, TypeOK, Idle
  <2>2. Acyclic'
    BY <1>3 DEF Acyclic
  <2>3. Reserved'
    BY <1>1, <1>3, <2>1 DEF Reserved, At, TypeOK
  <2>4. NotNested' /\ FileTarget'
    BY <1>1, <1>3, <2>1 DEF NotNested, FileTarget, At, TypeOK, Below, DownClosed
  <2> QED BY <1>2, <2>2, <2>3, <2>4
<1>5. ASSUME NEW d \in Dirs, NEW p \in Dirs, Update(r, d, p)
      PROVE  IInv'
  <2>1. /\ req'[r].pc = "moveIds" /\ req'[r].d = d /\ req'[r].p = p
        /\ HasRow(d) /\ HasRow(p) /\ r \in Movers
    BY <1>3, <1>5 DEF Update, IsAlive, HasRow, TypeOK, Idle
  <2>2. Acyclic'
    BY <1>3 DEF Acyclic
  <2>3. Reserved'
    BY <1>1, <1>3, <2>1 DEF Reserved, At, TypeOK
  <2>4. NotNested' /\ FileTarget'
    BY <1>1, <1>3, <2>1 DEF NotNested, FileTarget, At, TypeOK, Below, DownClosed
  <2> QED BY <1>2, <2>2, <2>3, <2>4
<1>6. ASSUME CheckNesting(r) PROVE IInv'
  <2>1. \/ req' = [req EXCEPT ![r] = Idle]
        \/ /\ req' = [req EXCEPT ![r] = [req[r] EXCEPT !.pc = "move"]]
           /\ req[r].pc = "moveIds" /\ req[r].p \notin Below(req[r].d)
    BY <1>6 DEF CheckNesting, At
  <2>2. Acyclic'
    BY <1>3 DEF Acyclic
  <2>3. Reserved'
    <3>1. \A q \in Reqs : /\ req'[q].d \in {None, req[q].d}
                          /\ req'[q].p \in {None, req[q].p}
                          /\ req'[q].pc = "insertDir" => req'[q] = req[q]
      BY <2>1 DEF TypeOK, Idle, Request
    <3> QED BY <1>3, <3>1 DEF Reserved, At
  <2>4. /\ \A q \in Reqs \ {r} : req'[q] = req[q]
        /\ req'[r].pc \in {"idle", "move"}
        /\ req'[r].pc = "move" => /\ req[r].pc = "moveIds" /\ req[r].p \notin Below(req[r].d)
                                  /\ req'[r].d = req[r].d /\ req'[r].p = req[r].p
    BY <2>1 DEF TypeOK, Idle, Request
  <2>5. \A d : Below(d)' = Below(d)
    BY <1>3 DEF Below, DownClosed
  <2>6. NotNested'
    BY <2>4, <2>5 DEF NotNested, At
  <2>7. FileTarget'
    BY <2>4 DEF FileTarget, At
  <2> QED BY <1>2, <2>2, <2>3, <2>6, <2>7
<1>7. ASSUME NEW d \in Dirs,
             SoftDelete(r, d) \/ Restore(r, d) \/ PermanentDelete(r, d) \/ ClearTrash(r, d)
      PROVE  IInv'
  <2>1. /\ v.pc \notin {"insertDir", "insertFile", "moveIds", "move"}
        /\ v.d = d /\ HasRow(d) /\ v.p \in {None, parent[d]}
    <3>1. CASE SoftDelete(r, d)
      BY <1>3, <3>1 DEF SoftDelete, IsAlive, HasRow, Idle, TypeOK
    <3>2. CASE Restore(r, d)
      BY <1>3, <3>2 DEF Restore, InTrash, HasRow, Idle, TypeOK
    <3>3. CASE PermanentDelete(r, d)
      BY <1>3, <3>3 DEF PermanentDelete, HasRow, Idle, TypeOK
    <3>4. CASE ClearTrash(r, d)
      BY <1>3, <3>4 DEF ClearTrash, InTrash, HasRow, Idle, TypeOK
    <3> QED BY <1>7, <3>1, <3>2, <3>3, <3>4
  <2>2. v.p = None \/ (v.p \in Dirs /\ HasRow(v.p))
    BY <2>1 DEF TypeOK
  <2> QED BY <1>1, <1>2, <1>3, <2>1, <2>2, TreeKept
<1>8. ASSUME \/ TrashedSubtree(r) \/ TrashedFiles(r)
             \/ RestoreUnderParent(r) \/ RestoredSubtree(r) \/ RestoredFiles(r)
             \/ PurgedSubtree(r) \/ PurgedAlive(r) \/ PurgedDead(r)
             \/ ClearedSubtree(r) \/ ClearedFiles(r)
             \/ HardDeletePanics(r) \/ Refused(r)
      PROVE  IInv'
  <2> DEFINE Stays == /\ v.pc \notin {"insertDir", "insertFile", "moveIds", "move"}
                      /\ v.d \in {None, req[r].d} /\ v.p \in {None, req[r].p}
  <2>1. ASSUME HardDeletePanics(r) \/ Refused(r) PROVE Stays
    BY <1>3, <2>1 DEF HardDeletePanics, Refused, Return, Idle, TypeOK
  <2>2. ASSUME RestoreUnderParent(r) \/ TrashedFiles(r) \/ RestoredFiles(r) PROVE Stays
    BY <1>3, <2>2 DEF RestoreUnderParent, TrashedFiles, RestoredFiles, Idle, TypeOK, Request
  <2>3. ASSUME PurgedAlive(r) \/ PurgedDead(r) \/ ClearedFiles(r) PROVE Stays
    BY <1>3, <2>3 DEF PurgedAlive, PurgedDead, ClearedFiles, TypeOK, Request
  <2>4. ASSUME TrashedSubtree(r) \/ RestoredSubtree(r) PROVE Stays
    BY <1>3, <2>4 DEF TrashedSubtree, RestoredSubtree, TypeOK, Request
  <2>5. ASSUME PurgedSubtree(r) \/ ClearedSubtree(r) PROVE Stays
    BY <1>3, <2>5 DEF PurgedSubtree, ClearedSubtree, TypeOK, Request
  <2>6. Stays
    BY <1>8, <2>1, <2>2, <2>3, <2>4, <2>5
  <2> QED BY <1>1, <1>2, <1>3, <2>6, TreeKept
<1> QED BY <1>4, <1>5, <1>6, <1>7, <1>8 DEF Reads

\* Steps that write files, stamps and links keep types and the tree.
LEMMA WritesKeep ==
    ASSUME IInv, UNCHANGED alone, NEW r \in Reqs,
           \/ \E f \in Files, p \in Dirs : Upload(r, f, p)
           \/ InsertFile(r) \/ ParentGone(r)
           \/ SoftDeleteSubtree(r) \/ RestoreSubtree(r) \/ HardDeleteFails(r)
           \/ \E f \in Files : FileSoftDelete(r, f) \/ FileRestore(r, f)
           \/ \E t \in Dirs \cup Files : CreateLink(r, t)
    PROVE  IInv'
<1>0. TypeOK
  BY DEF IInv
<1>1. ASSUME NEW f \in Files, NEW p \in Dirs, Upload(r, f, p) PROVE IInv'
  <2> DEFINE v == [Idle EXCEPT !.pc = "insertFile", !.f = f, !.p = p]
  <2>1. /\ v \in Request /\ v.pc = "insertFile" /\ v.d = None /\ v.p = p /\ v.f = f
        /\ HasRow(p) /\ UNCHANGED <<parent, dirAt, fileIn, fileAt>>
        /\ req' = [req EXCEPT ![r] = v]
    BY <1>1, StampFacts, IdleRequest DEF Upload, IsAlive, HasRow, Idle, Request, Pcs, tree
  <2> HIDE DEF v
  <2>2. TypeOK'
    <3>1. objects' = objects \cup {f} /\ UNCHANGED <<used, filesCount, link>>
      BY <1>1 DEF Upload
    <3> QED BY <1>0, <2>1, <3>1 DEF TypeOK, HasRow
  <2>3. Acyclic'
    BY <2>1 DEF IInv, Acyclic
  <2>4. Reserved'
    BY <1>0, <2>1, StampFacts DEF IInv, Reserved, At, HasRow, TypeOK
  <2>5. NotNested' /\ FileTarget'
    BY <1>0, <2>1 DEF IInv, NotNested, FileTarget, At, TypeOK, Below, DownClosed
  <2> QED BY <2>2, <2>3, <2>4, <2>5 DEF IInv
<1>2. ASSUME InsertFile(r) PROVE IInv'
  <2>1. req[r].f \in Files /\ req[r].p \in Dirs
    BY <1>2 DEF IInv, InsertFile, FileTarget
  <2>2. TypeOK'
    BY <1>0, <1>2, <2>1, StampFacts, CountFacts, IdleRequest DEF InsertFile, TypeOK, HasRow, tree, Return
  <2> QED BY <1>2, <2>2, ReturnKeeps DEF InsertFile, tree, HasRow
<1>3. ASSUME ParentGone(r) PROVE IInv'
  <2>1. TypeOK'
    BY <1>0, <1>3, IdleRequest DEF ParentGone, TypeOK, HasRow, tree, Return
  <2> QED BY <1>3, <2>1, ReturnKeeps DEF ParentGone, tree, HasRow
<1>4. ASSUME SoftDeleteSubtree(r) PROVE IInv'
  <2> DEFINE n == Cardinality(req[r].live)
  <2>1. PICK t \in Times :
          /\ fileAt' = [f \in Files |-> IF fileIn[f] \in req[r].ids THEN t ELSE fileAt[f]]
          /\ dirAt'  = [x \in Dirs |-> IF x \in req[r].ids /\ IsAlive(x) THEN t ELSE dirAt[x]]
    BY <1>4 DEF SoftDeleteSubtree, Now
  <2>2. \A d \in Dirs : HasRow(d)' <=> HasRow(d)
    BY <1>0, <2>1, StampFacts DEF HasRow, IsAlive, TypeOK
  <2>3. n \in Nat
    BY <1>0, CountFacts DEF TypeOK, Request
  <2>4. filesCount' \in [Dirs -> Int]
    <3>1. -n \in Int /\ filesCount' = Adjusted(req[r].p, -n)
      BY <1>4, <2>3 DEF SoftDeleteSubtree
    <3> QED BY <1>0, <3>1, CountFacts
  <2>5. link' \in [Dirs \cup Files -> LinkStates]
    <3>1. "off" \in LinkStates /\ link' = Switched(req[r].live \cup req[r].ids, "off")
      BY <1>4 DEF SoftDeleteSubtree, LinkStates
    <3> QED BY <1>0, <3>1, CountFacts
  <2>6. req[r].ids \subseteq Dirs
    BY <1>0 DEF TypeOK, Request
  <2>7. dirAt' \in [Dirs -> Stamps] /\ fileAt' \in [Files -> Stamps]
    BY <1>0, <2>1, StampFacts DEF TypeOK
  <2>8. \A f \in Files : fileAt'[f] # None <=> fileIn[f] # None
    BY <1>0, <2>1, <2>6, StampFacts DEF TypeOK
  <2>9. UNCHANGED <<parent, fileIn, used, objects>> /\ req' = [req EXCEPT ![r] = Idle]
    BY <1>4 DEF SoftDeleteSubtree, Return
  <2>10. TypeOK'
    <3>1. \A d \in Dirs : parent'[d] # None => HasRow(d)' /\ HasRow(parent[d])'
      BY <1>0, <2>2, <2>9 DEF TypeOK, HasRow
    <3>2. \A f \in Files : fileIn'[f] # None => HasRow(fileIn[f])'
      BY <1>0, <2>2, <2>9 DEF TypeOK, HasRow
    <3> QED BY <1>0, IdleRequest, <2>4, <2>5, <2>7, <2>8, <2>9, <3>1, <3>2 DEF TypeOK
  <2> QED BY <1>4, <2>2, <2>10, ReturnKeeps DEF SoftDeleteSubtree
<1>5. ASSUME RestoreSubtree(r) PROVE IInv'
  <2> DEFINE n == Cardinality(req[r].dead)
  <2>1. /\ fileAt' = [f \in Files |-> IF fileIn[f] \in req[r].ids /\ fileAt[f] = req[r].at
                                      THEN Alive ELSE fileAt[f]]
        /\ dirAt'  = [x \in Dirs |-> IF x \in req[r].ids /\ HasRow(x) THEN Alive ELSE dirAt[x]]
    BY <1>5 DEF RestoreSubtree
  <2>2. \A d \in Dirs : HasRow(d)' <=> HasRow(d)
    BY <1>0, <2>1, StampFacts DEF HasRow, TypeOK
  <2>3. n \in Nat
    BY <1>0, CountFacts DEF TypeOK, Request
  <2>4. filesCount' \in [Dirs -> Int]
    <3>1. n \in Int /\ filesCount' = Adjusted(req[r].p, n)
      BY <1>5, <2>3 DEF RestoreSubtree
    <3> QED BY <1>0, <3>1, CountFacts
  <2>5. link' \in [Dirs \cup Files -> LinkStates]
    <3>1. "on" \in LinkStates /\ link' = Switched(req[r].dead \cup req[r].ids, "on")
      BY <1>5 DEF RestoreSubtree, LinkStates
    <3> QED BY <1>0, <3>1, CountFacts
  <2>6. req[r].ids \subseteq Dirs
    BY <1>0 DEF TypeOK, Request
  <2>7. dirAt' \in [Dirs -> Stamps] /\ fileAt' \in [Files -> Stamps]
    BY <1>0, <2>1, StampFacts DEF TypeOK
  <2>8. \A f \in Files : fileAt'[f] # None <=> fileIn[f] # None
    BY <1>0, <2>1, <2>6, StampFacts DEF TypeOK
  <2>9. UNCHANGED <<parent, fileIn, used, objects>> /\ req' = [req EXCEPT ![r] = Idle]
    BY <1>5 DEF RestoreSubtree, Return
  <2>10. TypeOK'
    <3>1. \A d \in Dirs : parent'[d] # None => HasRow(d)' /\ HasRow(parent[d])'
      BY <1>0, <2>2, <2>9 DEF TypeOK, HasRow
    <3>2. \A f \in Files : fileIn'[f] # None => HasRow(fileIn[f])'
      BY <1>0, <2>2, <2>9 DEF TypeOK, HasRow
    <3> QED BY <1>0, IdleRequest, <2>4, <2>5, <2>7, <2>8, <2>9, <3>1, <3>2 DEF TypeOK
  <2> QED BY <1>5, <2>2, <2>10, ReturnKeeps DEF RestoreSubtree
<1>6. ASSUME HardDeleteFails(r) PROVE IInv'
  <2>1. TypeOK'
    BY <1>0, <1>6, IdleRequest DEF HardDeleteFails, TypeOK, HasRow, tree, Return
  <2> QED BY <1>6, <2>1, ReturnKeeps DEF HardDeleteFails, tree, HasRow
<1>7. ASSUME UNCHANGED <<tree, fileIn, req>>, TypeOK' PROVE IInv'
  <2>1. Acyclic' /\ Reserved' /\ FileTarget'
    BY <1>7 DEF IInv, Acyclic, Reserved, FileTarget, At, HasRow, tree
  <2>2. NotNested'
    BY <1>7 DEF IInv, NotNested, At, Below, DownClosed, tree
  <2> QED BY <1>7, <2>1, <2>2 DEF IInv
<1>8. ASSUME NEW f \in Files, FileSoftDelete(r, f) \/ FileRestore(r, f) PROVE IInv'
  <2>1. fileAt[f] # None /\ \E t \in Times \cup {Alive} : fileAt' = [fileAt EXCEPT ![f] = t]
    BY <1>8, StampFacts DEF FileSoftDelete, FileRestore, Now
  <2>2. UNCHANGED <<tree, fileIn, used, objects, req>>
    BY <1>8 DEF FileSoftDelete, FileRestore
  <2>3. filesCount' \in [Dirs -> Int] /\ link' \in [Dirs \cup Files -> LinkStates]
    <3>1. \E n \in Int : filesCount' = Adjusted(fileIn[f], n)
      BY <1>8 DEF FileSoftDelete, FileRestore
    <3>2. \E status \in LinkStates : link' = Switched({f}, status)
      BY <1>8 DEF FileSoftDelete, FileRestore, LinkStates
    <3> QED BY <1>0, <3>1, <3>2, CountFacts
  <2>4. TypeOK'
    <3>1. fileAt' \in [Files -> Stamps] /\ \A g \in Files : fileAt'[g] # None <=> fileAt[g] # None
      BY <1>0, <2>1, StampFacts DEF TypeOK
    <3> QED BY <1>0, <2>2, <2>3, <3>1 DEF TypeOK, tree, HasRow
  <2> QED BY <1>7, <2>2, <2>4
<1>9. ASSUME NEW t \in Dirs \cup Files, CreateLink(r, t) PROVE IInv'
  <2>1. TypeOK'
    BY <1>0, <1>9 DEF CreateLink, TypeOK, tree, files, HasRow, LinkStates
  <2> QED BY <1>7, <1>9, <2>1 DEF CreateLink, files
<1> QED BY <1>1, <1>2, <1>3, <1>4, <1>5, <1>6, <1>8, <1>9

\* Every step keeps the invariant, if no two moves overlap.
LEMMA StepKeeps ==
    ASSUME IInv, NoSecondMove, [Next]_vars
    PROVE  IInv'
<1>1. CASE UNCHANGED vars
  BY <1>1 DEF vars, IInv, TypeOK, Acyclic, Reserved, NotNested, FileTarget, At,
              HasRow, Below, DownClosed
<1>2. CASE Next
  <2>0. UNCHANGED alone
    BY <1>2 DEF Next
  <2>1. PICK r \in Reqs : Start(r) \/ Proceed(r) \/ OneStep(r) \/ HardDeleteFails(r) \/ Refused(r)
    BY <1>2 DEF Next
  <2>2. \/ Reads(r)
        \/ InsertDir(r) \/ UpdateNameAndParent(r) \/ HardDelete(r)
        \/ \E f \in Files, p \in Dirs : Upload(r, f, p)
        \/ InsertFile(r) \/ ParentGone(r)
        \/ SoftDeleteSubtree(r) \/ RestoreSubtree(r) \/ HardDeleteFails(r)
        \/ \E f \in Files : FileSoftDelete(r, f) \/ FileRestore(r, f)
        \/ \E t \in Dirs \cup Files : CreateLink(r, t)
    BY <2>1, Zenon DEF Start, Proceed, OneStep, Reads
  <2> QED BY <2>0, <2>2, ReadsKeep, InsertDirKeeps, MoveKeeps, HardDeleteKeeps, WritesKeep
<1> QED BY <1>1, <1>2

\* The directories stay a tree as long as at most one request moves
\* directories, whatever else is created, trashed, restored or deleted
\* meanwhile: the check of Update, made outside its transaction, is enough
\* for that and for no more.
THEOREM OneMoverKeepsTree ==
    ASSUME \A x, y \in Movers : x = y
    PROVE  Spec => []Acyclic
<1>1. Init => IInv
  BY InitIInv
<1>2. IInv /\ [Next]_vars => IInv'
  BY StepKeeps DEF IInv, NotNested, NoSecondMove
<1>3. IInv => Acyclic
  BY DEF IInv
<1> QED BY <1>1, <1>2, <1>3, PTL DEF Spec

\* Every reachable state is well typed and keeps its foreign keys, under the
\* same condition.
THEOREM TypeCorrect ==
    ASSUME \A x, y \in Movers : x = y
    PROVE  Spec => []TypeOK
<1>1. Init => IInv
  BY InitIInv
<1>2. IInv /\ [Next]_vars => IInv'
  BY StepKeeps DEF IInv, NotNested, NoSecondMove
<1>3. IInv => TypeOK
  BY DEF IInv
<1> QED BY <1>1, <1>2, <1>3, PTL DEF Spec

-----------------------------------------------------------------------------
(***************************************************************************)
(* One request at a time.  The tree is consistent between any two steps,   *)
(* not only when nobody is at work, and what the request has read is still *)
(* what the tree holds.  Dated is what makes a restoration exact: it       *)
(* brings back the files that carry the time of the directory, and counts  *)
(* those that are in the trash.                                            *)
(***************************************************************************)
\* One request at a time: whoever is not idle is the only one.
OneRequest == \A q, r \in Reqs : q = r \/ req[q] = Idle \/ req[r] = Idle

\* Every directory that has a row hangs below the root, which nobody deletes.
Rooted ==
    /\ IsAlive(Root) /\ parent[Root] = None
    /\ \A d \in Dirs : HasRow(d) /\ parent[d] = None => d = Root

\* What TrashIsClosed says, also between the steps of a request.
TrashClosed ==
    /\ \A d \in Dirs : IsAlive(d) /\ parent[d] # None => IsAlive(parent[d])
    /\ \A f \in Files : fileAt[f] = Alive => IsAlive(fileIn[f])

\* A directory that may be restored carries the time of every file below it:
\* its restoration brings them all back.
Dated ==
    \A d \in Dirs : InTrash(d) /\ parent[d] # None /\ IsAlive(parent[d]) =>
        \A f \in Files : fileIn[f] \in Below(d) => fileAt[f] = dirAt[d]

Rows   == {f \in Files : fileAt[f] # None}
Living == {f \in Files : fileAt[f] = Alive}
Counted == filesCount[Root] = Cardinality(Living) /\ used = Cardinality(Rows)

\* The file whose object is there and whose row is not, yet.
Incoming == {f \in Files : \E r \in Reqs : At(r, "insertFile") /\ req[r].f = f}
Paired   == objects = Rows \cup Incoming

LinksFollow ==
    /\ \A d \in Dirs : /\ link[d] = "on"  => IsAlive(d)
                       /\ link[d] = "off" => InTrash(d)
    /\ \A f \in Files : /\ link[f] = "on"  => fileAt[f] = Alive
                        /\ link[f] = "off" => fileAt[f] \in Times

Consistent == Rooted /\ TrashClosed /\ Dated /\ Counted /\ LinksFollow

\* What a request has read is what the tree still holds.
TargetAsRead(r) ==
    LET c == req[r].pc
        d == req[r].d
        p == req[r].p IN
    /\ c \in {"insertDir", "moveIds", "move"} => IsAlive(p)
    /\ c \in {"moveIds", "move"} => d # Root /\ IsAlive(d)
    /\ c = "insertFile" => IsAlive(p) /\ fileAt[req[r].f] = None
    /\ c \in {"trashIds", "trashFiles", "trash"} =>
           d \in Dirs \ {Root} /\ IsAlive(d) /\ p = parent[d]
    /\ c \in {"restoreParent", "restoreIds", "restoreFiles", "restore"} =>
           d \in Dirs /\ InTrash(d) /\ p = parent[d] /\ req[r].at = dirAt[d]
    /\ c \in {"restoreIds", "restoreFiles", "restore"} => IsAlive(p)
    /\ c \in {"purgeIds", "purgeAlive", "purgeDead", "purge"} =>
           d \in Dirs \ {Root} /\ HasRow(d) /\ p = parent[d]
    /\ c \in {"clearIds", "clearFiles", "clear"} =>
           d \in Dirs /\ InTrash(d) /\ p = None /\ req[r].live = {}

SubtreeAsRead(r) ==
    LET c == req[r].pc IN
    /\ c \in {"trashFiles", "trash", "restoreFiles", "restore", "purgeAlive", "purgeDead",
              "purge", "clearFiles", "clear"} => req[r].ids = Below(req[r].d)
    /\ c \in {"trash", "purgeDead", "purge"} => req[r].live = FilesAlive(req[r].ids)
    /\ c \in {"restore", "purge", "clear"} => req[r].dead = FilesTrashed(req[r].ids)

AsRead == \A r \in Reqs : TargetAsRead(r) /\ SubtreeAsRead(r)

AloneInv == alone => IInv /\ OneRequest /\ Consistent /\ Paired /\ AsRead

-----------------------------------------------------------------------------
(* The tree.                                                               *)

\* Whatever is below d is d or has its parent below d.
LEMMA UnderParent ==
    ASSUME NEW P, NEW d \in Dirs, NEW x \in Under(P, d), x # d
    PROVE  P[x] \in Under(P, d)
<1> DEFINE T == {y \in Under(P, d) : y = d \/ P[y] \in Under(P, d)}
<1>1. T \in SUBSET Dirs /\ d \in T
  BY UnderFacts DEF Under
<1>2. Closed(P, T)
  BY UnderFacts DEF Closed
<1>3. Under(P, d) \subseteq T
  BY <1>1, <1>2, UnderFacts
<1> QED BY <1>3

\* Two subtrees, neither of which holds the top of the other, are disjoint.
LEMMA UnderDisjoint ==
    ASSUME NEW P, NEW d \in Dirs, NEW e \in Dirs, d \notin Under(P, e), e \notin Under(P, d)
    PROVE  Under(P, d) \cap Under(P, e) = {}
<1> DEFINE T == Under(P, e) \ Under(P, d)
<1>1. T \in SUBSET Dirs /\ e \in T
  BY UnderFacts DEF Under
<1>2. ASSUME NEW x \in Dirs, P[x] \in T PROVE x \in T
  <2>1. x \in Under(P, e)
    BY <1>2, UnderFacts DEF Closed
  <2>2. x # d
    BY <2>1
  <2> QED BY <1>2, <2>1, <2>2, UnderParent
<1>3. Closed(P, T)
  BY <1>2 DEF Closed
<1>4. Under(P, e) \subseteq T
  BY <1>1, <1>3, UnderFacts
<1> QED BY <1>4

\* The subtree of a directory, with rows, in a consistent state.
LEMMA BelowFacts ==
    ASSUME NEW d \in Dirs
    PROVE  /\ Below(d) \subseteq Dirs /\ d \in Below(d)
           /\ \A x \in Dirs : parent[x] \in Below(d) => x \in Below(d)
           /\ \A x \in Below(d) : x # d => parent[x] \in Below(d)
           /\ \A e \in Dirs : d \notin Below(e) /\ e \notin Below(d) => Below(d) \cap Below(e) = {}
<1>1. \A e : Below(e) = Under(parent, e)
  BY BelowIsUnder
<1>2. Under(parent, d) \subseteq Dirs
  BY DEF Under
<1> QED BY <1>1, <1>2, UnderFacts, UnderParent, UnderDisjoint DEF Closed

\* The rows of a subtree: all of them have rows, none is alive if the top is
\* not, and the root is not among them.
LEMMA SubtreeRows ==
    ASSUME TypeOK, Rooted, TrashClosed, NEW d \in Dirs
    PROVE  /\ HasRow(d) => \A x \in Below(d) : HasRow(x)
           /\ ~IsAlive(d) => \A x \in Below(d) : ~IsAlive(x)
           /\ InTrash(d) => \A x \in Below(d) : InTrash(x)
           /\ d # Root => Root \notin Below(d)
<1> USE StampFacts
<1>0. \A S \in SUBSET Dirs : d \in S /\ Closed(parent, S) => Below(d) \subseteq S
  BY BelowIsUnder, UnderFacts
<1>1. ASSUME HasRow(d) PROVE \A x \in Below(d) : HasRow(x)
  <2> DEFINE T == {x \in Dirs : HasRow(x)}
  <2>1. Closed(parent, T)
    BY DEF Closed, TypeOK, HasRow
  <2> QED BY <1>0, <1>1, <2>1
<1>2. ASSUME ~IsAlive(d) PROVE \A x \in Below(d) : ~IsAlive(x)
  <2> DEFINE T == {x \in Dirs : ~IsAlive(x)}
  <2>1. Closed(parent, T)
    BY DEF Closed, TrashClosed
  <2> QED BY <1>0, <1>2, <2>1
<1>3. \A x \in Dirs : InTrash(x) <=> HasRow(x) /\ ~IsAlive(x)
  BY DEF InTrash, HasRow, IsAlive, TypeOK, Stamps
<1>4. ASSUME d # Root PROVE Root \notin Below(d)
  <2> DEFINE T == Dirs \ {Root}
  <2>1. Closed(parent, T)
    BY DEF Closed, Rooted
  <2> QED BY <1>0, <1>4, <2>1
<1> QED BY <1>1, <1>2, <1>3, <1>4, BelowFacts

\* Every directory that has a row is below the root.
LEMMA AllBelowRoot ==
    ASSUME TypeOK, Acyclic, Rooted, NEW d \in Dirs, HasRow(d)
    PROVE  Root \in AboveOf(d)
<1> DEFINE S == {x \in Dirs : HasRow(x) /\ x \notin Below(Root)}
<1>1. Root \in Dirs
  BY ConstantsOK
<1>2. ASSUME NEW x \in S PROVE parent[x] \in S
  <2>1. x # Root /\ parent[x] # None
    BY <1>1, BelowFacts DEF Rooted
  <2>2. parent[x] \in Dirs /\ HasRow(parent[x])
    BY <2>1 DEF TypeOK
  <2>3. parent[x] \notin Below(Root)
    BY <1>1, BelowFacts
  <2> QED BY <2>2, <2>3
<1>3. S = {}
  BY <1>2 DEF Acyclic
<1> QED BY <1>1, <1>3 DEF AboveOf

\* files_count of the root is moved by every write below it.
LEMMA RootAdjusted ==
    ASSUME TypeOK, Acyclic, Rooted, NEW d \in Dirs, HasRow(d), NEW n \in Int
    PROVE  Adjusted(d, n)[Root] = filesCount[Root] + n
<1>1. Root \in Dirs /\ d # None /\ Root \in AboveOf(d) /\ filesCount[Root] \in Int
  BY AllBelowRoot, ConstantsOK DEF TypeOK
<1>2. CASE n = 0
  BY <1>1, <1>2 DEF Adjusted
<1>3. CASE n # 0
  BY <1>1, <1>3 DEF Adjusted
<1> QED BY <1>2, <1>3

\* Numbers of files.
LEMMA FilesCounted ==
    ASSUME NEW S \in SUBSET Files, NEW T \in SUBSET Files
    PROVE  /\ Cardinality(S) \in Nat
           /\ S \cap T = {} => Cardinality(S \cup T) = Cardinality(S) + Cardinality(T)
           /\ T \subseteq S => Cardinality(S \ T) = Cardinality(S) - Cardinality(T)
           /\ \A f \in Files \ S : Cardinality(S \cup {f}) = Cardinality(S) + 1
           /\ \A f \in S : Cardinality(S \ {f}) = Cardinality(S) - 1
<1>1. IsFiniteSet(S) /\ IsFiniteSet(T)
  BY ConstantsOK, FS_Subset
<1>2. Cardinality(S) \in Nat /\ Cardinality(T) \in Nat
  BY <1>1, FS_CardinalityType
<1>3. ASSUME NEW U \in SUBSET Files, NEW V \in SUBSET Files, U \cap V = {}
      PROVE  Cardinality(U \cup V) = Cardinality(U) + Cardinality(V)
  <2>1. IsFiniteSet(U) /\ IsFiniteSet(V)
    BY ConstantsOK, FS_Subset
  <2>2. Cardinality(U) \in Nat /\ Cardinality(V) \in Nat /\ Cardinality({}) = 0
    BY <2>1, FS_CardinalityType, FS_EmptySet
  <2>3. Cardinality(U \cup V) = Cardinality(U) + Cardinality(V) - Cardinality(U \cap V)
    BY <2>1, FS_Union
  <2>4. Cardinality(U \cap V) = 0
    BY <1>3, <2>2
  <2> QED BY ONLY <2>2, <2>3, <2>4
<1>4. ASSUME T \subseteq S PROVE Cardinality(S \ T) = Cardinality(S) - Cardinality(T)
  <2>1. Cardinality((S \ T) \cup T) = Cardinality(S \ T) + Cardinality(T)
    BY <1>3
  <2>2. (S \ T) \cup T = S
    BY <1>4
  <2>3. Cardinality(S \ T) \in Nat
    BY ConstantsOK, FS_Subset, FS_CardinalityType
  <2>4. Cardinality(S) = Cardinality(S \ T) + Cardinality(T)
    BY ONLY <2>1, <2>2, Zenon
  <2> QED BY ONLY <1>2, <2>3, <2>4
<1>5. \A f \in Files \ S : Cardinality(S \cup {f}) = Cardinality(S) + 1
  BY <1>1, FS_AddElement
<1>6. \A f \in S : Cardinality(S \ {f}) = Cardinality(S) - 1
  BY <1>1, FS_RemoveElement
<1> QED BY <1>2, <1>3, <1>4, <1>5, <1>6

-----------------------------------------------------------------------------
(* What the one request has read.                                          *)

\* Every other request is idle and stays so.
LEMMA OthersIdle ==
    ASSUME TypeOK, alone, OneRequest, NEW r \in Reqs,
           Start(r) \/ Proceed(r) \/ OneStep(r) \/ Refused(r)
    PROVE  /\ \A q \in Reqs \ {r} : req[q] = Idle /\ req'[q] = Idle
           /\ OneRequest'
<1>1. ASSUME Start(r) \/ OneStep(r) PROVE \A q \in Reqs \ {r} : req[q] = Idle
  BY <1>1 DEF Start, OneStep, Quiet
<1>2. ASSUME Proceed(r) \/ Refused(r) PROVE req[r] # Idle
  <2>1. CASE HardDelete(r) \/ HardDeletePanics(r) \/ Refused(r)
    BY <2>1 DEF HardDelete, HardDeletePanics, Deleting, Refused, At, Idle
  <2>2. CASE InsertDir(r) \/ InsertFile(r) \/ ParentGone(r) \/ CheckNesting(r)
             \/ UpdateNameAndParent(r) \/ TrashedSubtree(r) \/ TrashedFiles(r)
             \/ SoftDeleteSubtree(r)
    BY <2>2 DEF InsertDir, InsertFile, ParentGone, CheckNesting, UpdateNameAndParent,
           TrashedSubtree, TrashedFiles, SoftDeleteSubtree, At, Idle
  <2>3. CASE RestoreUnderParent(r) \/ RestoredSubtree(r) \/ RestoredFiles(r)
             \/ RestoreSubtree(r) \/ PurgedSubtree(r) \/ PurgedAlive(r) \/ PurgedDead(r)
             \/ ClearedSubtree(r) \/ ClearedFiles(r)
    BY <2>3 DEF RestoreUnderParent, RestoredSubtree, RestoredFiles, RestoreSubtree,
           PurgedSubtree, PurgedAlive, PurgedDead, ClearedSubtree, ClearedFiles, At, Idle
  <2> QED BY <1>2, <2>1, <2>2, <2>3 DEF Proceed
<1>3. \A q \in Reqs \ {r} : req[q] = Idle
  BY <1>1, <1>2 DEF OneRequest
<1>4. \A q \in Reqs \ {r} : req'[q] = req[q]
  <2>1. ASSUME Start(r) \/ OneStep(r) PROVE <1>4
    BY <2>1 DEF Start, OneStep, Create, Update, Upload, SoftDelete, Restore, PermanentDelete,
           ClearTrash, FileSoftDelete, FileRestore, CreateLink, TypeOK
  <2>2. ASSUME Proceed(r) \/ Refused(r) PROVE <1>4
    BY <2>2 DEF Proceed, Refused, InsertDir, InsertFile, ParentGone, CheckNesting,
           UpdateNameAndParent, TrashedSubtree, TrashedFiles, SoftDeleteSubtree,
           RestoreUnderParent, RestoredSubtree, RestoredFiles, RestoreSubtree,
           PurgedSubtree, PurgedAlive, PurgedDead, ClearedSubtree, ClearedFiles,
           HardDelete, HardDeletePanics, Return, TypeOK
  <2> QED BY <2>1, <2>2
<1> QED BY <1>3, <1>4 DEF OneRequest

\* An idle request has read nothing.
LEMMA IdleAsRead ==
    ASSUME NEW r \in Reqs
    PROVE  /\ req[r] = Idle => TargetAsRead(r) /\ SubtreeAsRead(r)
           /\ req'[r] = Idle => TargetAsRead(r)' /\ SubtreeAsRead(r)'
  BY DEF Idle, TargetAsRead, SubtreeAsRead

\* Every step starts a request with what it has read, or has it read more.
LEMMA TargetRead ==
    ASSUME TypeOK, Consistent, NEW r \in Reqs, TargetAsRead(r), Reads(r)
    PROVE  TargetAsRead(r)'
<1> USE StampFacts
<1>1. UNCHANGED <<parent, dirAt, fileIn, fileAt>> /\ req[r] \in Request
  BY ReadSteps DEF tree, files, TypeOK
<1>2. ASSUME NEW d \in Dirs, NEW p \in Dirs, Create(r, d, p) \/ Update(r, d, p)
      PROVE  TargetAsRead(r)'
  <2>1. CASE Create(r, d, p)
    <3>1. req'[r].pc = "insertDir" /\ req'[r].p = p /\ IsAlive(p)
      BY <2>1 DEF Create, TypeOK, Idle
    <3> QED BY <1>1, <3>1 DEF TargetAsRead, IsAlive
  <2>2. CASE Update(r, d, p)
    <3>1. /\ req'[r].pc = "moveIds" /\ req'[r].d = d /\ req'[r].p = p
          /\ d # Root /\ IsAlive(d) /\ IsAlive(p)
      BY <2>2 DEF Update, TypeOK, Idle
    <3> QED BY <1>1, <3>1 DEF TargetAsRead, IsAlive
  <2> QED BY <1>2, <2>1, <2>2
<1>3. ASSUME NEW d \in Dirs,
             SoftDelete(r, d) \/ Restore(r, d) \/ PermanentDelete(r, d) \/ ClearTrash(r, d)
      PROVE  TargetAsRead(r)'
  <2>1. d = Root => IsAlive(d) /\ ~InTrash(d)
    BY DEF Consistent, Rooted, IsAlive, InTrash
  <2>2. CASE SoftDelete(r, d)
    BY <1>1, <2>2 DEF SoftDelete, TargetAsRead, IsAlive, TypeOK, Idle
  <2>3. CASE Restore(r, d)
    BY <1>1, <2>3 DEF Restore, TargetAsRead, InTrash, TypeOK, Idle
  <2>4. CASE PermanentDelete(r, d)
    BY <1>1, <2>4 DEF PermanentDelete, TargetAsRead, HasRow, TypeOK, Idle
  <2>5. CASE ClearTrash(r, d)
    BY <1>1, <2>5 DEF ClearTrash, TargetAsRead, InTrash, TypeOK, Idle
  <2> QED BY <1>3, <2>2, <2>3, <2>4, <2>5
<1>4. ASSUME CheckNesting(r) \/ RestoreUnderParent(r) PROVE TargetAsRead(r)'
  BY <1>1, <1>4, IdleAsRead DEF CheckNesting, RestoreUnderParent, TargetAsRead, At,
         IsAlive, InTrash, TypeOK, Request
<1>5. ASSUME TrashedSubtree(r) \/ TrashedFiles(r) PROVE TargetAsRead(r)'
  BY <1>1, <1>5 DEF TrashedSubtree, TrashedFiles, TargetAsRead, At, IsAlive, TypeOK, Request
<1>6. ASSUME RestoredSubtree(r) \/ RestoredFiles(r) PROVE TargetAsRead(r)'
  BY <1>1, <1>6 DEF RestoredSubtree, RestoredFiles, TargetAsRead, At, IsAlive, InTrash,
         TypeOK, Request
<1>7. ASSUME PurgedSubtree(r) \/ PurgedAlive(r) \/ PurgedDead(r) PROVE TargetAsRead(r)'
  BY <1>1, <1>7 DEF PurgedSubtree, PurgedAlive, PurgedDead, TargetAsRead, At, HasRow,
         TypeOK, Request
<1>8. ASSUME ClearedSubtree(r) \/ ClearedFiles(r) PROVE TargetAsRead(r)'
  BY <1>1, <1>8 DEF ClearedSubtree, ClearedFiles, TargetAsRead, At, InTrash, TypeOK, Request
<1>9. ASSUME HardDeletePanics(r) \/ Refused(r) PROVE TargetAsRead(r)'
  BY <1>9, IdleAsRead DEF HardDeletePanics, Refused, Return, TypeOK
<1> QED BY <1>2, <1>3, <1>4, <1>5, <1>6, <1>7, <1>8, <1>9 DEF Reads

\* A request that starts comes from idle and is at its first read.
LEMMA StartsFirst ==
    ASSUME TypeOK, NEW r \in Reqs, NEW d \in Dirs, NEW p \in Dirs,
           \/ Create(r, d, p) \/ Update(r, d, p)
           \/ SoftDelete(r, d) \/ Restore(r, d) \/ PermanentDelete(r, d) \/ ClearTrash(r, d)
    PROVE  /\ req[r].pc = "idle"
           /\ req'[r].pc \in {"insertDir", "moveIds", "trashIds", "restoreParent",
                              "purgeIds", "clearIds"}
<1>1. CASE Create(r, d, p) \/ Update(r, d, p)
  BY <1>1 DEF Create, Update, May, At, TypeOK, Idle
<1>2. CASE SoftDelete(r, d) \/ Restore(r, d)
  BY <1>2 DEF SoftDelete, Restore, May, At, TypeOK, Idle
<1>3. CASE PermanentDelete(r, d) \/ ClearTrash(r, d)
  BY <1>3 DEF PermanentDelete, ClearTrash, May, At, TypeOK, Idle
<1> QED BY <1>1, <1>2, <1>3

LEMMA SubtreeRead ==
    ASSUME TypeOK, Consistent, NEW r \in Reqs, TargetAsRead(r), SubtreeAsRead(r), Reads(r)
    PROVE  SubtreeAsRead(r)'
<1> USE StampFacts
<1>1. UNCHANGED <<parent, dirAt, fileIn, fileAt>> /\ req[r] \in Request
  BY ReadSteps DEF tree, files, TypeOK
<1>2. /\ \A d : Below(d)' = Below(d)
      /\ \A ids : FilesAlive(ids)' = FilesAlive(ids) /\ FilesTrashed(ids)' = FilesTrashed(ids)
  BY <1>1 DEF Below, DownClosed, FilesAlive, FilesTrashed
<1>3. ASSUME NEW d \in Dirs, HasRow(d) PROVE {x \in Below(d) : HasRow(x)} = Below(d)
  BY <1>3, SubtreeRows DEF Consistent
<1>4. ASSUME NEW d \in Dirs, InTrash(d)
      PROVE  {x \in Below(d) : \A y \in Below(d) \cap AboveOf(x) : InTrash(y)} = Below(d)
  BY <1>4, SubtreeRows DEF Consistent
<1>5. \A d \in Dirs : IsAlive(d) \/ InTrash(d) => HasRow(d)
  BY DEF IsAlive, InTrash, HasRow
<1>6. ASSUME NEW d \in Dirs, NEW p \in Dirs,
             \/ Create(r, d, p) \/ Update(r, d, p)
             \/ SoftDelete(r, d) \/ Restore(r, d) \/ PermanentDelete(r, d) \/ ClearTrash(r, d)
      PROVE  SubtreeAsRead(r)'
  BY <1>6, StartsFirst DEF SubtreeAsRead
<1>7. ASSUME CheckNesting(r) \/ RestoreUnderParent(r) PROVE SubtreeAsRead(r)'
  <2>1. req'[r].pc \in {"idle", "move", "restoreIds"}
    BY <1>7 DEF CheckNesting, RestoreUnderParent, TypeOK, Request, Idle
  <2> QED BY <2>1 DEF SubtreeAsRead
<1>8. ASSUME TrashedSubtree(r) PROVE SubtreeAsRead(r)'
  <2>1. req' = [req EXCEPT ![r].pc = "trashFiles", ![r].ids = Below(req[r].d)]
    BY <1>3, <1>5, <1>8 DEF TrashedSubtree, TargetAsRead, At
  <2> QED BY <1>1, <1>2, <2>1 DEF SubtreeAsRead, TypeOK, Request
<1>9. ASSUME RestoredSubtree(r) PROVE SubtreeAsRead(r)'
  <2>1. req' = [req EXCEPT ![r].pc = "restoreFiles", ![r].ids = Below(req[r].d)]
    BY <1>3, <1>5, <1>9 DEF RestoredSubtree, TargetAsRead, At
  <2> QED BY <1>1, <1>2, <2>1 DEF SubtreeAsRead, TypeOK, Request
<1>10. ASSUME PurgedSubtree(r) PROVE SubtreeAsRead(r)'
  <2>1. req' = [req EXCEPT ![r].pc = "purgeAlive", ![r].ids = Below(req[r].d)]
    BY <1>3, <1>5, <1>10 DEF PurgedSubtree, TargetAsRead, At
  <2> QED BY <1>1, <1>2, <2>1 DEF SubtreeAsRead, TypeOK, Request
<1>11. ASSUME ClearedSubtree(r) PROVE SubtreeAsRead(r)'
  <2>1. req' = [req EXCEPT ![r].pc = "clearFiles", ![r].ids = Below(req[r].d)]
    BY <1>4, <1>11 DEF ClearedSubtree, TargetAsRead, At
  <2> QED BY <1>1, <1>2, <2>1 DEF SubtreeAsRead, TypeOK, Request
<1>12. ASSUME TrashedFiles(r) \/ RestoredFiles(r) PROVE SubtreeAsRead(r)'
  BY <1>1, <1>2, <1>12 DEF TrashedFiles, RestoredFiles, SubtreeAsRead, At, TypeOK, Request
<1>13. ASSUME PurgedAlive(r) \/ PurgedDead(r) PROVE SubtreeAsRead(r)'
  BY <1>1, <1>2, <1>13 DEF PurgedAlive, PurgedDead, SubtreeAsRead, At, TypeOK, Request
<1>14. ASSUME ClearedFiles(r) PROVE SubtreeAsRead(r)'
  BY <1>1, <1>2, <1>14 DEF ClearedFiles, SubtreeAsRead, At, TypeOK, Request
<1>15. ASSUME HardDeletePanics(r) \/ Refused(r) PROVE SubtreeAsRead(r)'
  BY <1>15, IdleAsRead DEF HardDeletePanics, Refused, Return, TypeOK
<1> QED BY <1>6, <1>7, <1>8, <1>9, <1>10, <1>11, <1>12, <1>13, <1>14, <1>15 DEF Reads

\* Reading changes no row, and is no upload.
LEMMA ReadsAlone ==
    ASSUME TypeOK, OneRequest, Consistent, Paired, AsRead, NEW r \in Reqs, Reads(r),
           \A q \in Reqs \ {r} : req[q] = Idle /\ req'[q] = Idle
    PROVE  Consistent' /\ Paired' /\ AsRead'
<1>1. UNCHANGED <<parent, dirAt, fileIn, fileAt, filesCount, used, objects, link>>
  BY ReadSteps DEF tree, files
<1>2. \A d : Below(d)' = Below(d)
  BY <1>1 DEF Below, DownClosed
<1>3. Consistent'
  BY <1>1, <1>2 DEF Consistent, Rooted, TrashClosed, Dated, Counted, LinksFollow, Rows, Living,
         IsAlive, InTrash, HasRow
<1>4. Paired'
  <2>1. req[r].pc # "insertFile" /\ req'[r].pc # "insertFile"
    <3>1. ASSUME NEW d \in Dirs, NEW p \in Dirs,
                 \/ Create(r, d, p) \/ Update(r, d, p)
                 \/ SoftDelete(r, d) \/ Restore(r, d) \/ PermanentDelete(r, d) \/ ClearTrash(r, d)
          PROVE  <2>1
      BY <3>1, StartsFirst
    <3>2. ASSUME CheckNesting(r) \/ RestoreUnderParent(r) \/ HardDeletePanics(r) \/ Refused(r)
          PROVE  <2>1
      BY <3>2 DEF CheckNesting, RestoreUnderParent, HardDeletePanics, Refused, Deleting, Return,
             At, TypeOK, Idle, Request
    <3>3. ASSUME TrashedSubtree(r) \/ RestoredSubtree(r) \/ PurgedSubtree(r) \/ ClearedSubtree(r)
          PROVE  <2>1
      BY <3>3 DEF TrashedSubtree, RestoredSubtree, PurgedSubtree, ClearedSubtree, At, TypeOK, Request
    <3>4. ASSUME TrashedFiles(r) \/ RestoredFiles(r) \/ PurgedAlive(r) \/ PurgedDead(r) \/ ClearedFiles(r)
          PROVE  <2>1
      BY <3>4 DEF TrashedFiles, RestoredFiles, PurgedAlive, PurgedDead, ClearedFiles, At, TypeOK, Request
    <3> QED BY <3>1, <3>2, <3>3, <3>4 DEF Reads
  <2>2. Incoming = {} /\ Incoming' = {}
    BY <2>1 DEF Incoming, At, Idle
  <2> QED BY <1>1, <2>2 DEF Paired, Rows
<1>5. AsRead'
  BY TargetRead, SubtreeRead, IdleAsRead DEF AsRead
<1> QED BY <1>3, <1>4, <1>5

-----------------------------------------------------------------------------
(* The writes of the one request.                                          *)

\* The state one request starts from, and that it is the only one.
OnlyOne(r) ==
    /\ IInv /\ Consistent /\ Paired /\ AsRead
    /\ \A q \in Reqs \ {r} : req[q] = Idle /\ req'[q] = Idle

\* A request that returns has nothing more to insert.
LEMMA Returned ==
    ASSUME NEW r \in Reqs, OnlyOne(r), Return(r)
    PROVE  /\ AsRead' /\ Incoming' = {}
           /\ ~At(r, "insertFile") => Incoming = {}
<1>1. \A q \in Reqs : req'[q] = Idle
  BY DEF Return, OnlyOne, IInv, TypeOK
<1> QED BY <1>1, IdleAsRead DEF AsRead, Incoming, At, Idle, OnlyOne

\* A new directory is an empty leaf below a directory that is alive.
LEMMA InsertDirAlone ==
    ASSUME NEW r \in Reqs, OnlyOne(r), InsertDir(r), TypeOK'
    PROVE  Consistent' /\ Paired'
<1> DEFINE d == req[r].d
           p == req[r].p
<1> USE StampFacts, ConstantsOK
<1>0. TypeOK /\ Rooted /\ TrashClosed /\ Dated /\ Counted /\ LinksFollow
  BY DEF OnlyOne, IInv, Consistent
<1>1. d \in Dirs /\ p \in Dirs /\ d # p /\ ~HasRow(d) /\ IsAlive(p) /\ d # Root
  BY <1>0 DEF InsertDir, OnlyOne, IInv, Reserved, AsRead, TargetAsRead, At, Rooted, IsAlive, HasRow
<1>2. /\ parent' = [parent EXCEPT ![d] = p]
      /\ dirAt' = [dirAt EXCEPT ![d] = Alive]
      /\ filesCount' = [filesCount EXCEPT ![d] = 0]
      /\ UNCHANGED <<fileIn, fileAt, used, objects, link>>
      /\ Return(r) /\ ~At(r, "insertFile")
  BY DEF InsertDir, files, At
<1>3. /\ parent'[d] = p /\ dirAt'[d] = Alive
      /\ \A x \in Dirs \ {d} : /\ parent'[x] = parent[x] /\ dirAt'[x] = dirAt[x]
                               /\ filesCount'[x] = filesCount[x]
  BY <1>0, <1>1, <1>2 DEF TypeOK
<1>4. /\ \A x \in Dirs : parent[x] # d
      /\ \A f \in Files : fileIn[f] # d
  BY <1>0, <1>1 DEF TypeOK
<1>5. \A e \in Dirs : Below(e)' \subseteq Below(e) \cup {d}
  <2>1. parent \in [Dirs -> Dirs \cup {None}] /\ NoCycle(parent)
    BY <1>0, BelowIsUnder DEF TypeOK, OnlyOne, IInv
  <2>2. d \in Dirs /\ p \in Dirs /\ d # p /\ parent' = [parent EXCEPT ![d] = p]
        /\ \A x \in Dirs : parent[x] # d
    BY <1>1, <1>2, <1>4
  <2> HIDE DEF d, p
  <2>3. \A e \in Dirs, t \in Dirs : t # d /\ t \notin Under(parent, e) => t \notin Under(parent', e)
    BY <2>1, <2>2, LeafInserted
  <2>4. \A e \in Dirs : Under(parent', e) \subseteq Dirs
    BY DEF Under
  <2> QED BY <2>3, <2>4, BelowIsUnder
<1> HIDE DEF d, p
<1>6. Rooted'
  BY <1>0, <1>1, <1>3 DEF Rooted, IsAlive, HasRow
<1>7. TrashClosed'
  <2>1. \A x \in Dirs : IsAlive(x)' /\ parent'[x] # None => IsAlive(parent[x])'
    BY <1>0, <1>1, <1>3, <1>4 DEF TrashClosed, IsAlive, TypeOK
  <2>2. \A f \in Files : fileAt'[f] = Alive => IsAlive(fileIn[f])'
    BY <1>0, <1>2, <1>3, <1>4 DEF TrashClosed, IsAlive, TypeOK
  <2> QED BY <2>1, <2>2 DEF TrashClosed
<1>8. Dated'
  BY <1>0, <1>1, <1>2, <1>3, <1>4, <1>5 DEF Dated, InTrash, IsAlive, TypeOK
<1>9. Counted'
  BY <1>0, <1>1, <1>2, <1>3 DEF Counted, Living, Rows
<1>10. LinksFollow'
  BY <1>0, <1>1, <1>2, <1>3 DEF LinksFollow, IsAlive, InTrash, HasRow, TypeOK
<1>11. Paired'
  BY <1>2, Returned DEF Paired, Rows, OnlyOne
<1> QED BY <1>6, <1>7, <1>8, <1>9, <1>10, <1>11 DEF Consistent

\* A new file is below the root, in a directory that is alive.
LEMMA InsertFileAlone ==
    ASSUME NEW r \in Reqs, OnlyOne(r), InsertFile(r), TypeOK'
    PROVE  Consistent' /\ Paired'
<1> DEFINE f == req[r].f
           p == req[r].p
<1> USE StampFacts, ConstantsOK
<1>0. TypeOK /\ Rooted /\ TrashClosed /\ Dated /\ Counted /\ LinksFollow
  BY DEF OnlyOne, IInv, Consistent
<1>1. f \in Files /\ p \in Dirs /\ IsAlive(p) /\ HasRow(p) /\ fileAt[f] = None
  BY DEF InsertFile, OnlyOne, IInv, FileTarget, AsRead, TargetAsRead, At
<1>2. /\ fileIn' = [fileIn EXCEPT ![f] = p]
      /\ fileAt' = [fileAt EXCEPT ![f] = Alive]
      /\ used' = used + 1
      /\ filesCount' = Adjusted(p, 1)
      /\ UNCHANGED <<parent, dirAt, objects, link>>
      /\ Return(r) /\ At(r, "insertFile")
  BY DEF InsertFile, tree
<1>3. /\ fileIn'[f] = p /\ fileAt'[f] = Alive
      /\ \A g \in Files \ {f} : fileIn'[g] = fileIn[g] /\ fileAt'[g] = fileAt[g]
  BY <1>0, <1>1, <1>2 DEF TypeOK
<1>4. \A d : Below(d)' = Below(d) /\ IsAlive(d)' = IsAlive(d) /\ InTrash(d)' = InTrash(d)
             /\ HasRow(d)' = HasRow(d)
  BY <1>2 DEF Below, DownClosed, IsAlive, InTrash, HasRow
<1>11. Paired'
  <2>1. Incoming = {f}
    BY <1>1, <1>2 DEF Incoming, At, OnlyOne, Idle
  <2>2. Rows' = Rows \cup {f}
    BY <1>1, <1>3 DEF Rows
  <2> QED BY <1>2, <2>1, <2>2, Returned DEF Paired, OnlyOne
<1> HIDE DEF f, p
<1>5. Living' = Living \cup {f} /\ Rows' = Rows \cup {f} /\ f \notin Living /\ f \notin Rows
  BY <1>1, <1>3 DEF Living, Rows
<1>6. Rooted'
  BY <1>0, <1>2, <1>4 DEF Rooted
<1>7. TrashClosed'
  BY <1>0, <1>1, <1>2, <1>3, <1>4 DEF TrashClosed
<1>8. Dated'
  <2>1. ASSUME NEW d \in Dirs, InTrash(d) PROVE p \notin Below(d)
    BY <1>0, <1>1, <2>1, SubtreeRows DEF InTrash, IsAlive
  <2> QED BY <1>0, <1>2, <1>3, <1>4, <2>1 DEF Dated
<1>9. Counted'
  <2>1. filesCount'[Root] = filesCount[Root] + 1
    BY <1>0, <1>1, <1>2, RootAdjusted DEF OnlyOne, IInv
  <2>2. Living \in SUBSET Files /\ Rows \in SUBSET Files
    BY DEF Living, Rows
  <2>3. Cardinality(Living') = Cardinality(Living) + 1 /\ Cardinality(Rows') = Cardinality(Rows) + 1
    BY <1>1, <1>5, <2>2, FilesCounted
  <2> QED BY <1>0, <1>2, <2>1, <2>3 DEF Counted
<1>10. LinksFollow'
  BY <1>0, <1>1, <1>2, <1>3, <1>4 DEF LinksFollow
<1> QED BY <1>6, <1>7, <1>8, <1>9, <1>10, <1>11 DEF Consistent

\* An upload puts its object first.
LEMMA UploadAlone ==
    ASSUME NEW r \in Reqs, OnlyOne(r), NEW f \in Files, NEW p \in Dirs, Upload(r, f, p)
    PROVE  Consistent' /\ Paired' /\ AsRead'
<1> USE StampFacts
<1>0. TypeOK
  BY DEF OnlyOne, IInv
<1>1. /\ UNCHANGED <<parent, dirAt, fileIn, fileAt, used, filesCount, link>>
      /\ objects' = objects \cup {f} /\ IsAlive(p) /\ fileAt[f] = None
      /\ req[r].pc = "idle"
      /\ req'[r].pc = "insertFile" /\ req'[r].f = f /\ req'[r].p = p
  BY <1>0 DEF Upload, May, At, FreshFile, tree, TypeOK, Idle
<1>2. Consistent'
  BY <1>1 DEF OnlyOne, Consistent, Rooted, TrashClosed, Dated, Counted, LinksFollow, Living, Rows,
         Below, DownClosed, IsAlive, InTrash, HasRow
<1>3. Incoming = {} /\ Incoming' = {f}
  BY <1>1 DEF OnlyOne, Incoming, At, Idle
<1>4. Paired'
  BY <1>1, <1>3 DEF OnlyOne, Paired, Rows
<1>5. TargetAsRead(r)' /\ SubtreeAsRead(r)'
  BY <1>1 DEF TargetAsRead, SubtreeAsRead, IsAlive
<1> QED BY <1>2, <1>4, <1>5, IdleAsRead DEF AsRead, OnlyOne

\* A move takes a directory that is alive to one that is alive: no subtree of
\* the trash gains anything, and the root loses nothing.
LEMMA MoveAlone ==
    ASSUME NEW r \in Reqs, OnlyOne(r), UpdateNameAndParent(r), TypeOK'
    PROVE  Consistent' /\ Paired'
<1> DEFINE d == req[r].d
           p == req[r].p
<1> USE StampFacts, ConstantsOK
<1>0. TypeOK /\ Rooted /\ TrashClosed /\ Dated /\ Counted /\ LinksFollow
  BY DEF OnlyOne, IInv, Consistent
<1>1. d \in Dirs /\ p \in Dirs /\ IsAlive(d) /\ IsAlive(p) /\ d # Root
  BY DEF UpdateNameAndParent, OnlyOne, IInv, NotNested, AsRead, TargetAsRead, At
<1>2. /\ parent' = [parent EXCEPT ![d] = p]
      /\ UNCHANGED <<dirAt, fileIn, fileAt, filesCount, used, objects, link>>
      /\ Return(r) /\ ~At(r, "insertFile")
  BY <1>1 DEF UpdateNameAndParent, files, At
<1>3. parent'[d] = p /\ \A x \in Dirs \ {d} : parent'[x] = parent[x]
  BY <1>0, <1>1, <1>2 DEF TypeOK
<1>4. \A x : /\ IsAlive(x)' = IsAlive(x) /\ InTrash(x)' = InTrash(x)
             /\ HasRow(x)' = HasRow(x)
  BY <1>2 DEF IsAlive, InTrash, HasRow
<1>11. Paired'
  BY <1>2, Returned DEF Paired, Rows, OnlyOne
<1> HIDE DEF d, p
<1>5. ASSUME NEW e \in Dirs, InTrash(e) PROVE Below(e)' \subseteq Below(e)
  <2>1. p \notin Below(e)
    BY <1>0, <1>1, <1>5, SubtreeRows DEF InTrash, IsAlive
  <2>2. Below(e) \in SUBSET Dirs /\ e \in Below(e)
        /\ \A x \in Dirs : parent[x] \in Below(e) => x \in Below(e)
    BY BelowFacts
  <2>3. Closed(parent', Below(e))
    BY <1>3, <2>1, <2>2 DEF Closed
  <2> QED BY <2>2, <2>3, UnderFacts, BelowIsUnder
<1>6. Rooted'
  BY <1>0, <1>1, <1>3, <1>4 DEF Rooted
<1>7. TrashClosed'
  BY <1>0, <1>1, <1>2, <1>3, <1>4 DEF TrashClosed
<1>8. Dated'
  <2>1. ASSUME NEW e \in Dirs, InTrash(e) PROVE e # d
    BY <1>1, <2>1 DEF InTrash, IsAlive
  <2> QED BY <1>0, <1>2, <1>3, <1>4, <1>5, <2>1 DEF Dated
<1>9. Counted'
  BY <1>0, <1>2 DEF Counted, Living, Rows
<1>10. LinksFollow'
  BY <1>0, <1>2, <1>4 DEF LinksFollow
<1> QED BY <1>6, <1>7, <1>8, <1>9, <1>10, <1>11 DEF Consistent

\* A subtree goes to the trash at one time, and no other does.
LEMMA SoftDeleteAlone ==
    ASSUME NEW r \in Reqs, OnlyOne(r), SoftDeleteSubtree(r), TypeOK'
    PROVE  Consistent' /\ Paired'
<1> DEFINE d == req[r].d
           p == req[r].p
           live == FilesAlive(Below(d))
           n == Cardinality(live)
<1> USE StampFacts, ConstantsOK
<1>0. TypeOK /\ Rooted /\ TrashClosed /\ Dated /\ Counted /\ LinksFollow
  BY DEF OnlyOne, IInv, Consistent
<1>1. /\ d \in Dirs /\ d # Root /\ IsAlive(d) /\ p = parent[d]
      /\ req[r].ids = Below(d) /\ req[r].live = live
  BY DEF SoftDeleteSubtree, OnlyOne, AsRead, TargetAsRead, SubtreeAsRead, At
<1>2. PICK t \in Times :
        /\ fileAt' = [f \in Files |-> IF fileIn[f] \in Below(d) THEN t ELSE fileAt[f]]
        /\ dirAt'  = [x \in Dirs |-> IF x \in Below(d) /\ IsAlive(x) THEN t ELSE dirAt[x]]
  <2>1. PICK t \in Now :
          /\ fileAt' = [f \in Files |-> IF fileIn[f] \in req[r].ids THEN t ELSE fileAt[f]]
          /\ dirAt'  = [x \in Dirs |-> IF x \in req[r].ids /\ IsAlive(x) THEN t ELSE dirAt[x]]
    BY DEF SoftDeleteSubtree
  <2>2. t \in Times
    BY <2>1 DEF Now
  <2> QED BY <1>1, <2>1, <2>2
<1>3. /\ filesCount' = Adjusted(p, -n)
      /\ link' = Switched(live \cup Below(d), "off")
      /\ UNCHANGED <<parent, fileIn, used, objects>>
      /\ Return(r) /\ ~At(r, "insertFile")
  BY <1>1 DEF SoftDeleteSubtree, At
<1>4. p \in Dirs /\ HasRow(p) /\ HasRow(d)
  BY <1>0, <1>1 DEF Rooted, TypeOK, IsAlive, HasRow
<1> HIDE DEF d, p
<1>5. /\ Below(d) \subseteq Dirs /\ d \in Below(d) /\ Root \notin Below(d)
      /\ \A x \in Below(d) : HasRow(x)
      /\ \A x \in Below(d) : x # d => parent[x] \in Below(d)
      /\ \A x \in Dirs : parent[x] \in Below(d) => x \in Below(d)
  BY <1>0, <1>1, <1>4, BelowFacts, SubtreeRows
<1>6. \A e : Below(e)' = Below(e)
  BY <1>3 DEF Below, DownClosed
<1>7. \A x \in Dirs : /\ x \in Below(d) => InTrash(x)'
                      /\ x \notin Below(d) => dirAt'[x] = dirAt[x]
  BY <1>0, <1>2, <1>5 DEF InTrash, IsAlive, HasRow, TypeOK, Stamps
<1>8. \A f \in Files : /\ fileIn[f] \in Below(d) => fileAt'[f] = t
                       /\ fileIn[f] \notin Below(d) => fileAt'[f] = fileAt[f]
  BY <1>2
<1>9. Rooted'
  BY <1>0, <1>3, <1>5, <1>7 DEF Rooted, IsAlive, HasRow, InTrash, TypeOK
<1>10. TrashClosed'
  <2>1. \A x \in Dirs : IsAlive(x)' => x \notin Below(d) /\ IsAlive(x)
    BY <1>7 DEF IsAlive, InTrash
  <2>2. \A x \in Dirs : IsAlive(x)' /\ parent'[x] # None => IsAlive(parent[x])'
    BY <1>0, <1>3, <1>5, <1>7, <2>1 DEF TrashClosed, IsAlive, TypeOK
  <2>3. \A f \in Files : fileAt'[f] = Alive => IsAlive(fileIn[f])'
    BY <1>0, <1>2, <1>3, <1>7, <1>8 DEF TrashClosed, IsAlive, TypeOK
  <2> QED BY <2>2, <2>3 DEF TrashClosed
<1>11. Dated'
  <2> SUFFICES ASSUME NEW e \in Dirs, InTrash(e)', parent'[e] # None, IsAlive(parent[e])',
                      NEW f \in Files, fileIn[f] \in Below(e)
               PROVE  fileAt'[f] = dirAt'[e]
    BY <1>3, <1>6 DEF Dated
  <2>1. CASE e = d
    BY <1>1, <1>2, <1>5, <1>8, <2>1
  <2>2. CASE e # d /\ e \in Below(d)
    <3>1. parent[e] \in Below(d)
      BY <1>5, <2>2
    <3> QED BY <1>3, <1>5, <1>7, <3>1 DEF IsAlive, InTrash
  <2>3. CASE e \notin Below(d)
    <3>1. InTrash(e) /\ parent[e] \in Dirs \ Below(d) /\ IsAlive(parent[e])
      BY <1>0, <1>3, <1>5, <1>7, <2>3 DEF InTrash, IsAlive, TypeOK
    <3>2. d \notin Below(e)
      BY <1>0, <1>1, <3>1, SubtreeRows DEF InTrash, IsAlive
    <3>3. fileIn[f] \notin Below(d)
      BY <1>1, <2>3, <3>2, BelowFacts
    <3> QED BY <1>0, <1>7, <1>8, <2>3, <3>1, <3>3 DEF Dated
  <2> QED BY <2>1, <2>2, <2>3
<1>12. Counted'
  <2>1. live \in SUBSET Files /\ Living \in SUBSET Files /\ live \subseteq Living
    BY DEF FilesAlive, Living
  <2>2. Living' = Living \ live
    BY <1>8 DEF FilesAlive, Living
  <2>3. Rows' = Rows
    BY <1>0, <1>5, <1>8 DEF Rows, TypeOK
  <2>4. n \in Nat /\ Cardinality(Living') = Cardinality(Living) - n
    BY <2>1, <2>2, FilesCounted
  <2> HIDE DEF n
  <2>5. filesCount'[Root] = filesCount[Root] + (-n)
    <3>1. -n \in Int
      BY <2>4
    <3> QED BY <1>0, <1>3, <1>4, <3>1, RootAdjusted DEF OnlyOne, IInv
  <2>6. filesCount[Root] \in Int
    BY <1>0 DEF TypeOK
  <2> QED BY <1>0, <1>3, <2>3, <2>4, <2>5, <2>6 DEF Counted
<1>13. LinksFollow'
  <2>1. \A x \in Dirs : /\ x \in Below(d) => link'[x] # "on"
                        /\ x \notin Below(d) => link'[x] = link[x]
    BY <1>0, <1>3 DEF Switched, FilesAlive, TypeOK, LinkStates
  <2>2. \A f \in Files : /\ f \in live => link'[f] # "on"
                         /\ f \notin live => link'[f] = link[f]
    BY <1>0, <1>3, <1>5 DEF Switched, TypeOK, LinkStates
  <2>3. \A x \in Dirs : /\ link'[x] = "on"  => IsAlive(x)'
                        /\ link'[x] = "off" => InTrash(x)'
    BY <1>0, <1>7, <2>1 DEF LinksFollow, IsAlive, InTrash
  <2>4. \A f \in Files : /\ link'[f] = "on"  => fileAt'[f] = Alive
                         /\ link'[f] = "off" => fileAt'[f] \in Times
    BY <1>0, <1>8, <2>2 DEF LinksFollow, FilesAlive
  <2> QED BY <2>3, <2>4 DEF LinksFollow
<1>14. Paired'
  <2>1. Rows' = Rows
    BY <1>0, <1>5, <1>8 DEF Rows, TypeOK
  <2> QED BY <1>3, <2>1, Returned DEF Paired, OnlyOne
<1> QED BY <1>9, <1>10, <1>11, <1>12, <1>13, <1>14 DEF Consistent

\* Every file below a directory that may be restored comes back with it.
LEMMA RestoreAlone ==
    ASSUME NEW r \in Reqs, OnlyOne(r), RestoreSubtree(r), TypeOK'
    PROVE  Consistent' /\ Paired'
<1> DEFINE d == req[r].d
           p == req[r].p
           dead == FilesTrashed(Below(d))
           n == Cardinality(dead)
<1> USE StampFacts, ConstantsOK
<1>0. TypeOK /\ Rooted /\ TrashClosed /\ Dated /\ Counted /\ LinksFollow
  BY DEF OnlyOne, IInv, Consistent
<1>1. /\ d \in Dirs /\ InTrash(d) /\ IsAlive(p) /\ p = parent[d] /\ req[r].at = dirAt[d]
      /\ req[r].ids = Below(d) /\ req[r].dead = dead
  BY DEF RestoreSubtree, OnlyOne, AsRead, TargetAsRead, SubtreeAsRead, At
<1>2. /\ fileAt' = [f \in Files |-> IF fileIn[f] \in Below(d) /\ fileAt[f] = dirAt[d]
                                    THEN Alive ELSE fileAt[f]]
      /\ dirAt'  = [x \in Dirs |-> IF x \in Below(d) /\ HasRow(x) THEN Alive ELSE dirAt[x]]
  BY <1>1 DEF RestoreSubtree
<1>3. /\ filesCount' = Adjusted(p, n)
      /\ link' = Switched(dead \cup Below(d), "on")
      /\ UNCHANGED <<parent, fileIn, used, objects>>
      /\ Return(r) /\ ~At(r, "insertFile")
  BY <1>1 DEF RestoreSubtree, At
<1>4. p \in Dirs /\ HasRow(p) /\ HasRow(d) /\ d # Root
  BY <1>0, <1>1 DEF Rooted, TypeOK, IsAlive, InTrash, HasRow
<1> HIDE DEF d, p
<1>5. /\ Below(d) \subseteq Dirs /\ d \in Below(d) /\ Root \notin Below(d)
      /\ \A x \in Below(d) : HasRow(x) /\ InTrash(x) /\ ~IsAlive(x)
      /\ \A x \in Below(d) : x # d => parent[x] \in Below(d)
      /\ \A x \in Dirs : parent[x] \in Below(d) => x \in Below(d)
  BY <1>0, <1>1, <1>4, BelowFacts, SubtreeRows DEF InTrash, IsAlive
<1>6. \A e : Below(e)' = Below(e)
  BY <1>3 DEF Below, DownClosed
<1>7. \A x \in Dirs : /\ x \in Below(d) => dirAt'[x] = Alive
                      /\ x \notin Below(d) => dirAt'[x] = dirAt[x]
  BY <1>2, <1>5
<1>8. \A f \in Files : /\ fileIn[f] \in Below(d) => fileAt[f] = dirAt[d]
                       /\ fileIn[f] \in Below(d) => fileAt'[f] = Alive /\ fileAt[f] \in Times
                       /\ fileIn[f] \notin Below(d) => fileAt'[f] = fileAt[f]
  <2>1. \A f \in Files : fileIn[f] \in Below(d) => fileAt[f] = dirAt[d]
    BY <1>0, <1>1, <1>4 DEF Dated
  <2> QED BY <1>1, <1>2, <2>1 DEF InTrash
<1>9. Rooted'
  BY <1>0, <1>3, <1>5, <1>7 DEF Rooted, IsAlive, HasRow
<1>10. TrashClosed'
  <2>1. ASSUME NEW x \in Dirs, IsAlive(x)', parent[x] # None PROVE IsAlive(parent[x])'
    <3>1. CASE x = d
      BY <1>1, <1>3, <1>4, <1>5, <1>7, <3>1 DEF IsAlive
    <3>2. CASE x # d /\ x \in Below(d)
      BY <1>5, <1>7, <3>2, <1>3 DEF IsAlive
    <3>3. CASE x \notin Below(d)
      BY <1>0, <1>3, <1>7, <2>1, <3>3 DEF TrashClosed, IsAlive, TypeOK
    <3> QED BY <3>1, <3>2, <3>3
  <2>2. \A f \in Files : fileAt'[f] = Alive => IsAlive(fileIn[f])'
    BY <1>0, <1>3, <1>5, <1>7, <1>8 DEF TrashClosed, IsAlive, TypeOK
  <2> QED BY <1>3, <2>1, <2>2 DEF TrashClosed
<1>11. Dated'
  <2> SUFFICES ASSUME NEW e \in Dirs, InTrash(e)', parent'[e] # None, IsAlive(parent[e])',
                      NEW f \in Files, fileIn[f] \in Below(e)
               PROVE  fileAt'[f] = dirAt'[e]
    BY <1>3, <1>6 DEF Dated
  <2>1. e \notin Below(d) /\ InTrash(e)
    BY <1>7 DEF InTrash
  <2>2. parent[e] \in Dirs \ Below(d) /\ IsAlive(parent[e])
    BY <1>0, <1>3, <1>5, <1>7, <2>1 DEF IsAlive, TypeOK
  <2>3. d \notin Below(e)
    <3>1. d # e
      BY <1>5, <2>1
    <3>2. d \in Below(e) => p \in Below(e)
      BY <1>1, <3>1, BelowFacts
    <3> QED BY <1>0, <1>1, <2>1, <3>2, SubtreeRows DEF InTrash, IsAlive
  <2>4. fileIn[f] \notin Below(d)
    BY <1>1, <2>1, <2>3, BelowFacts
  <2> QED BY <1>0, <1>7, <1>8, <2>1, <2>2, <2>4 DEF Dated
<1>12. Counted'
  <2>1. dead \in SUBSET Files /\ Living \in SUBSET Files /\ Living \cap dead = {}
    BY DEF FilesTrashed, Living
  <2>2. Living' = Living \cup dead
    BY <1>8 DEF FilesTrashed, Living
  <2>3. Rows' = Rows
    BY <1>0, <1>5, <1>8 DEF Rows, TypeOK
  <2>4. n \in Nat /\ Cardinality(Living') = Cardinality(Living) + n
    BY <2>1, <2>2, FilesCounted
  <2> HIDE DEF n
  <2>5. filesCount'[Root] = filesCount[Root] + n
    <3>1. n \in Int
      BY <2>4
    <3> QED BY <1>0, <1>3, <1>4, <3>1, RootAdjusted DEF OnlyOne, IInv
  <2> QED BY <1>0, <1>3, <2>3, <2>4, <2>5 DEF Counted
<1>13. LinksFollow'
  <2>1. \A x \in Dirs : /\ x \in Below(d) => link'[x] # "off"
                        /\ x \notin Below(d) => link'[x] = link[x]
    BY <1>0, <1>3 DEF Switched, FilesTrashed, TypeOK, LinkStates
  <2>2. \A f \in Files : /\ f \in dead => link'[f] # "off"
                         /\ f \notin dead => link'[f] = link[f]
    BY <1>0, <1>3, <1>5 DEF Switched, TypeOK, LinkStates
  <2>3. \A x \in Dirs : /\ link'[x] = "on"  => IsAlive(x)'
                        /\ link'[x] = "off" => InTrash(x)'
    BY <1>0, <1>7, <2>1 DEF LinksFollow, IsAlive, InTrash
  <2>4. \A f \in Files : /\ link'[f] = "on"  => fileAt'[f] = Alive
                         /\ link'[f] = "off" => fileAt'[f] \in Times
    BY <1>0, <1>8, <2>2 DEF LinksFollow, FilesTrashed
  <2> QED BY <2>3, <2>4 DEF LinksFollow
<1>14. Paired'
  <2>1. Rows' = Rows
    BY <1>0, <1>5, <1>8 DEF Rows, TypeOK
  <2> QED BY <1>3, <2>1, Returned DEF Paired, OnlyOne
<1> QED BY <1>9, <1>10, <1>11, <1>12, <1>13, <1>14 DEF Consistent

\* What a deletion has counted is what the cascade deletes.
LEMMA HardDeleteAlone ==
    ASSUME NEW r \in Reqs, OnlyOne(r), HardDelete(r), TypeOK'
    PROVE  Consistent' /\ Paired'
<1> DEFINE d == req[r].d
           p == req[r].p
           live == FilesAlive(Below(d))
           dead == FilesTrashed(Below(d))
           rows == live \cup dead
           n == Cardinality(live)
           m == Cardinality(dead)
           count == Adjusted(p, -n)
<1> USE StampFacts, ConstantsOK
<1>0. TypeOK /\ Rooted /\ TrashClosed /\ Dated /\ Counted /\ LinksFollow
  BY DEF OnlyOne, IInv, Consistent
<1>1. /\ d \in Dirs \ {Root} /\ HasRow(d) /\ req[r].ids = Below(d)
      /\ p = parent[d] \/ (p = None /\ ~IsAlive(d))
      /\ req[r].live = live /\ req[r].dead = dead
  <2>1. CASE At(r, "purge")
    BY <2>1 DEF OnlyOne, AsRead, TargetAsRead, SubtreeAsRead, At
  <2>2. CASE At(r, "clear")
    <3>1. /\ d \in Dirs /\ InTrash(d) /\ p = None /\ req[r].live = {}
          /\ req[r].ids = Below(d) /\ req[r].dead = dead
      BY <2>2 DEF OnlyOne, AsRead, TargetAsRead, SubtreeAsRead, At
    <3>2. HasRow(d) /\ ~IsAlive(d) /\ d # Root
      BY <1>0, <3>1 DEF InTrash, HasRow, IsAlive, Rooted
    <3>3. \A x \in Below(d) : ~IsAlive(x)
      BY <1>0, <3>1, <3>2, SubtreeRows
    <3>4. live = {}
      BY <1>0, <3>3 DEF FilesAlive, TrashClosed
    <3> QED BY <3>1, <3>2, <3>4
  <2> QED BY <2>1, <2>2 DEF HardDelete, Deleting
<1>2. /\ Below(d) \subseteq Dirs /\ d \in Below(d) /\ Root \notin Below(d)
      /\ \A x \in Below(d) : HasRow(x)
      /\ \A x \in Dirs : parent[x] \in Below(d) => x \in Below(d)
  BY <1>0, <1>1, BelowFacts, SubtreeRows
<1>3. Cascade(req[r].ids) = Below(d)
  <2>1. \A x \in Below(d) : Below(x) \subseteq Below(d)
    BY <1>2, BelowIsUnder, UnderFacts DEF Closed
  <2>2. \A x \in Below(d) : x \in Below(x)
    BY <1>2, BelowFacts
  <2> QED BY <1>1, <1>2, <2>1, <2>2 DEF Cascade
<1>4. /\ rows = {f \in Files : fileIn[f] \in Below(d)}
      /\ rows = {f \in Files : fileIn[f] \in Below(d) \/ (At(r, "clear") /\ f \in dead)}
      /\ live \cap dead = {}
  BY <1>0, <1>2 DEF FilesAlive, FilesTrashed, TypeOK, Stamps
<1>5. /\ parent' = [x \in Dirs |-> IF x \in Below(d) THEN None ELSE parent[x]]
      /\ dirAt'  = [x \in Dirs |-> IF x \in Below(d) THEN None ELSE dirAt[x]]
      /\ fileIn' = [f \in Files |-> IF f \in rows THEN None ELSE fileIn[f]]
      /\ fileAt' = [f \in Files |-> IF f \in rows THEN None ELSE fileAt[f]]
      /\ link'   = [t \in Dirs \cup Files |-> IF t \in Below(d) \cup rows THEN "none" ELSE link[t]]
      /\ used'   = used - n - m
      /\ objects' = objects \ rows
      /\ filesCount' = [x \in Dirs |-> IF x \in Below(d) THEN 0 ELSE count[x]]
      /\ Return(r) /\ ~At(r, "insertFile")
  BY <1>1, <1>3, <1>4 DEF HardDelete, Deleting, At
<1> HIDE DEF d, p, rows, n, m, count
<1>6. \A x \in Dirs : /\ x \in Below(d) => ~HasRow(x)' /\ parent'[x] = None
                      /\ x \notin Below(d) => dirAt'[x] = dirAt[x] /\ parent'[x] = parent[x]
  BY <1>5 DEF HasRow
<1>7. \A f \in Files : /\ f \in rows => fileIn'[f] = None /\ fileAt'[f] = None
                       /\ f \notin rows => fileIn'[f] = fileIn[f] /\ fileAt'[f] = fileAt[f]
  BY <1>5
<1>8. \A e \in Dirs : Below(e)' \subseteq Below(e)
  <2>1. parent \in [Dirs -> Dirs \cup {None}] /\ NoCycle(parent)
    BY <1>0, BelowIsUnder DEF TypeOK, OnlyOne, IInv
  <2>2. parent' = [x \in Dirs |-> IF x \in Below(d) THEN None ELSE parent[x]]
    BY <1>5
  <2>3. \A e \in Dirs : Under(parent', e) \subseteq Under(parent, e)
    BY <2>1, <2>2, RowsDeleted
  <2> QED BY <2>3, BelowIsUnder
<1>9. Rooted'
  BY <1>0, <1>2, <1>6 DEF Rooted, IsAlive, HasRow
<1>10. TrashClosed'
  <2>1. \A x \in Dirs : IsAlive(x)' => x \notin Below(d) /\ IsAlive(x)
    BY <1>6 DEF IsAlive, HasRow
  <2>2. \A x \in Dirs : IsAlive(x)' /\ parent'[x] # None => IsAlive(parent[x])'
    BY <1>0, <1>2, <1>6, <2>1 DEF TrashClosed, IsAlive, TypeOK
  <2>3. \A f \in Files : fileAt'[f] = Alive => IsAlive(fileIn[f])'
    BY <1>0, <1>4, <1>6, <1>7 DEF TrashClosed, IsAlive, TypeOK
  <2> QED BY <2>2, <2>3 DEF TrashClosed
<1>11. Dated'
  <2> SUFFICES ASSUME NEW e \in Dirs, InTrash(e)', parent'[e] # None, IsAlive(parent[e])',
                      NEW f \in Files, fileIn'[f] \in Below(e)'
               PROVE  fileAt'[f] = dirAt'[e]
    BY DEF Dated
  <2>1. e \notin Below(d) /\ InTrash(e) /\ parent[e] = parent'[e] /\ parent[e] # None
    BY <1>6 DEF InTrash, HasRow
  <2>2. parent[e] \in Dirs /\ IsAlive(parent[e])
    BY <1>0, <1>6, <2>1 DEF TypeOK, IsAlive, HasRow
  <2>3. f \notin rows /\ fileIn[f] \in Below(e)
    BY <1>7, <1>8, <2>1, BelowFacts
  <2> QED BY <1>0, <1>6, <1>7, <2>1, <2>2, <2>3 DEF Dated
<1>12. Living' = Living \ live /\ Rows' = Rows \ rows
  BY <1>4, <1>7 DEF Living, Rows, FilesAlive, rows
<1>13. Counted'
  <2>1. /\ live \in SUBSET Files /\ dead \in SUBSET Files /\ rows \in SUBSET Files
        /\ Living \in SUBSET Files /\ Rows \in SUBSET Files
        /\ live \subseteq Living /\ rows \subseteq Rows
    BY <1>4 DEF FilesAlive, FilesTrashed, Living, Rows, rows
  <2>2. n \in Nat /\ m \in Nat /\ Cardinality(rows) = n + m
    BY <1>4, <2>1, FilesCounted DEF n, m, rows
  <2>3. /\ Cardinality(Living') = Cardinality(Living) - n
        /\ Cardinality(Rows') = Cardinality(Rows) - Cardinality(rows)
        /\ Cardinality(Rows) \in Nat /\ Cardinality(Living) \in Nat
    BY <1>12, <2>1, FilesCounted DEF n
  <2>4. filesCount'[Root] = filesCount[Root] - n
    <3>1. filesCount'[Root] = count[Root] /\ filesCount[Root] \in Int
      BY <1>0, <1>2, <1>5 DEF TypeOK
    <3>2. CASE IsAlive(d)
      <4>1. p \in Dirs /\ HasRow(p)
        BY <1>0, <1>1, <3>2 DEF Rooted, TypeOK, HasRow, IsAlive, d, p
      <4>2. -n \in Int
        BY <2>2
      <4>3. count[Root] = filesCount[Root] + (-n)
        BY <1>0, <4>1, <4>2, RootAdjusted DEF OnlyOne, IInv, count
      <4> QED BY <2>2, <3>1, <4>3
    <3>3. CASE ~IsAlive(d)
      <4>1. \A x \in Below(d) : ~IsAlive(x)
        BY <1>0, <1>1, <3>3, SubtreeRows
      <4>2. live = {}
        BY <1>0, <4>1 DEF FilesAlive, TrashClosed
      <4>3. n = 0
        BY <4>2, FS_EmptySet DEF n
      <4> QED BY <3>1, <4>3 DEF count, Adjusted
    <3> QED BY <3>2, <3>3
  <2>5. used' = used - n - m
    BY <1>5
  <2> QED BY <1>0, <2>2, <2>3, <2>4, <2>5 DEF Counted
<1>14. LinksFollow'
  <2>1. \A x \in Dirs : /\ x \in Below(d) => link'[x] = "none"
                        /\ x \notin Below(d) => link'[x] = link[x]
    <3>1. \A x \in Dirs : x \notin rows
      BY <1>4
    <3> QED BY <1>5, <3>1
  <2>2. \A f \in Files : /\ f \in rows => link'[f] = "none"
                         /\ f \notin rows => link'[f] = link[f]
    BY <1>2, <1>5
  <2>3. \A x \in Dirs : /\ link'[x] = "on"  => IsAlive(x)'
                        /\ link'[x] = "off" => InTrash(x)'
    BY <1>0, <1>6, <2>1 DEF LinksFollow, IsAlive, InTrash
  <2>4. \A f \in Files : /\ link'[f] = "on"  => fileAt'[f] = Alive
                         /\ link'[f] = "off" => fileAt'[f] \in Times
    BY <1>0, <1>7, <2>2 DEF LinksFollow
  <2> QED BY <2>3, <2>4 DEF LinksFollow
<1>15. Paired'
  BY <1>5, <1>12, Returned DEF Paired, OnlyOne
<1> QED BY <1>9, <1>10, <1>11, <1>13, <1>14, <1>15 DEF Consistent

\* One file goes to the trash or comes back, in a directory that is alive.
LEMMA FileStepAlone ==
    ASSUME NEW r \in Reqs, IInv, Consistent, Paired, NEW f \in Files,
           FileSoftDelete(r, f) \/ FileRestore(r, f), TypeOK'
    PROVE  Consistent' /\ Paired'
<1> DEFINE d == fileIn[f]
<1> USE StampFacts, ConstantsOK
<1>0. TypeOK /\ Rooted /\ TrashClosed /\ Dated /\ Counted /\ LinksFollow
  BY DEF IInv, Consistent
<1>1. /\ d \in Dirs /\ HasRow(d) /\ IsAlive(d)
      /\ UNCHANGED <<parent, dirAt, fileIn, used, objects, req>>
  BY <1>0 DEF FileSoftDelete, FileRestore, TrashClosed, TypeOK, tree, HasRow, IsAlive
<1>2. \A x : /\ Below(x)' = Below(x) /\ IsAlive(x)' = IsAlive(x) /\ InTrash(x)' = InTrash(x)
             /\ HasRow(x)' = HasRow(x)
  BY <1>1 DEF Below, DownClosed, IsAlive, InTrash, HasRow
<1>3. \A x \in Dirs : InTrash(x) => d \notin Below(x)
  BY <1>0, <1>1, SubtreeRows DEF InTrash, IsAlive
<1>4. \A g \in Files \ {f} : fileAt'[g] = fileAt[g]
  BY <1>0 DEF FileSoftDelete, FileRestore, TypeOK
<1>5. fileAt[f] # None /\ fileAt'[f] # None
  BY <1>0 DEF FileSoftDelete, FileRestore, TypeOK, Now
<1>6. Rooted'
  BY <1>0, <1>1, <1>2 DEF Rooted
<1>7. TrashClosed'
  BY <1>0, <1>1, <1>2, <1>4 DEF TrashClosed
<1>8. Dated'
  BY <1>0, <1>1, <1>2, <1>3, <1>4 DEF Dated
<1>9. Rows' = Rows
  BY <1>4, <1>5 DEF Rows
<1>10. Paired'
  BY <1>1, <1>9 DEF Paired, Incoming, At
<1>11. Living \in SUBSET Files /\ filesCount[Root] \in Int /\ Cardinality(Living) \in Nat
  BY <1>0, FilesCounted DEF Living, TypeOK
<1>12. \A x \in Dirs : link'[x] = link[x]
  BY <1>0 DEF FileSoftDelete, FileRestore, Switched, TypeOK
<1>13. \A g \in Files \ {f} : link'[g] = link[g]
  BY <1>0 DEF FileSoftDelete, FileRestore, Switched, TypeOK
<1>14. CASE FileSoftDelete(r, f)
  <2>1. f \in Living /\ fileAt'[f] \in Times /\ filesCount' = Adjusted(d, -1) /\ link'[f] # "on"
    BY <1>0, <1>14 DEF FileSoftDelete, Now, Living, Switched, TypeOK, LinkStates
  <2>2. Living' = Living \ {f}
    BY <1>4, <2>1 DEF Living
  <2>3. Cardinality(Living') = Cardinality(Living) - 1
    BY <1>11, <2>1, <2>2, FilesCounted
  <2>4. filesCount'[Root] = filesCount[Root] + (-1)
    BY <1>0, <1>1, <2>1, RootAdjusted DEF IInv
  <2>5. Counted'
    BY <1>0, <1>1, <1>9, <1>11, <2>3, <2>4 DEF Counted
  <2>6. LinksFollow'
    BY <1>0, <1>2, <1>4, <1>12, <1>13, <2>1 DEF LinksFollow
  <2> QED BY <1>6, <1>7, <1>8, <1>10, <2>5, <2>6 DEF Consistent
<1>15. CASE FileRestore(r, f)
  <2>1. f \in Files \ Living /\ fileAt'[f] = Alive /\ filesCount' = Adjusted(d, 1) /\ link'[f] # "off"
    BY <1>0, <1>15 DEF FileRestore, Living, Switched, TypeOK, LinkStates
  <2>2. Living' = Living \cup {f}
    BY <1>4, <2>1 DEF Living
  <2>3. Cardinality(Living') = Cardinality(Living) + 1
    BY <1>11, <2>1, <2>2, FilesCounted
  <2>4. filesCount'[Root] = filesCount[Root] + 1
    BY <1>0, <1>1, <2>1, RootAdjusted DEF IInv
  <2>5. Counted'
    BY <1>0, <1>1, <1>9, <1>11, <2>3, <2>4 DEF Counted
  <2>6. LinksFollow'
    BY <1>0, <1>2, <1>4, <1>12, <1>13, <2>1 DEF LinksFollow
  <2> QED BY <1>6, <1>7, <1>8, <1>10, <2>5, <2>6 DEF Consistent
<1> QED BY <1>14, <1>15

\* A link is created for what is alive.
LEMMA CreateLinkAlone ==
    ASSUME NEW r \in Reqs, IInv, Consistent, Paired, NEW t \in Dirs \cup Files, CreateLink(r, t)
    PROVE  Consistent' /\ Paired'
<1> USE StampFacts, ConstantsOK
<1>1. UNCHANGED <<parent, dirAt, fileIn, fileAt, filesCount, used, objects, req>>
  BY DEF CreateLink, tree, files
<1>2. Paired' /\ Rooted' /\ TrashClosed' /\ Dated' /\ Counted'
  BY <1>1 DEF Paired, Consistent, Rooted, TrashClosed, Dated, Counted, Rows, Living, Incoming, At,
         Below, DownClosed, IsAlive, InTrash, HasRow
<1>3. LinksFollow'
  <2>1. link' = [link EXCEPT ![t] = "on"] /\ (IF t \in Dirs THEN IsAlive(t) ELSE fileAt[t] = Alive)
    BY DEF CreateLink
  <2>2. LinksFollow /\ link \in [Dirs \cup Files -> LinkStates]
    BY DEF Consistent, IInv, TypeOK
  <2> QED BY <1>1, <2>1, <2>2 DEF LinksFollow, IsAlive, InTrash
<1> QED BY <1>2, <1>3 DEF Consistent

\* Init, and every step of the one request.
LEMMA InitAlone == Init => AloneInv
<1> SUFFICES ASSUME Init PROVE AloneInv
  OBVIOUS
<1> USE StampFacts, ConstantsOK DEF Init
<1>1. OneRequest /\ AsRead /\ Incoming = {}
  BY IdleAsRead DEF OneRequest, AsRead, Incoming, At, Idle
<1>2. Rooted /\ TrashClosed /\ Dated /\ LinksFollow
  BY DEF Rooted, TrashClosed, Dated, LinksFollow, IsAlive, InTrash, HasRow
<1>3. Rows = {} /\ Living = {}
  BY DEF Rows, Living
<1>4. Counted /\ Paired
  BY <1>1, <1>3, FS_EmptySet DEF Counted, Paired
<1> QED BY <1>1, <1>2, <1>4, InitIInv DEF AloneInv, Consistent

LEMMA StepAlone == AloneInv /\ [Next]_vars => AloneInv'
<1> SUFFICES ASSUME AloneInv, [Next]_vars, alone' PROVE AloneInv'
  BY DEF AloneInv
<1>1. CASE UNCHANGED vars
  <2>1. IInv'
    <3>1. NoSecondMove
      BY <1>1 DEF AloneInv, OneRequest, NoSecondMove, At, Idle, vars
    <3> QED BY <1>1, <3>1, StepKeeps DEF AloneInv, vars
  <2>2. OneRequest' /\ Paired' /\ AsRead'
    BY <1>1 DEF AloneInv, vars, OneRequest, Paired, Incoming, Rows, AsRead, TargetAsRead,
           SubtreeAsRead, At, FilesAlive, FilesTrashed, Below, DownClosed, IsAlive, InTrash, HasRow
  <2>3. Consistent'
    BY <1>1 DEF AloneInv, vars, Consistent, Rooted, TrashClosed, Dated, Counted, LinksFollow,
           Living, Rows, Below, DownClosed, IsAlive, InTrash, HasRow
  <2> QED BY <2>1, <2>2, <2>3 DEF AloneInv
<1>2. CASE Next
  <2>1. alone /\ UNCHANGED alone
    BY <1>2 DEF Next
  <2>2. IInv /\ OneRequest /\ Consistent /\ Paired /\ AsRead /\ TypeOK
    BY <2>1 DEF AloneInv, IInv
  <2>3. PICK r \in Reqs : Start(r) \/ Proceed(r) \/ OneStep(r) \/ Refused(r)
    BY <1>2, <2>1 DEF Next, HardDeleteFails
  <2>4. (\A q \in Reqs \ {r} : req[q] = Idle /\ req'[q] = Idle) /\ OneRequest'
    BY <2>1, <2>2, <2>3, OthersIdle
  <2>5. OnlyOne(r)
    BY <2>2, <2>4 DEF OnlyOne
  <2>6. IInv' /\ TypeOK'
    <3>1. NoSecondMove
      BY <2>2 DEF OneRequest, NoSecondMove, At, Idle
    <3> QED BY <1>2, <2>2, <3>1, StepKeeps DEF IInv
  <2>7. Consistent' /\ Paired' /\ AsRead'
    <3>1. CASE Reads(r)
      BY <2>2, <2>4, <3>1, ReadsAlone
    <3>2. CASE InsertDir(r)
      BY <2>5, <2>6, <3>2, InsertDirAlone, Returned DEF InsertDir
    <3>3. CASE InsertFile(r)
      BY <2>5, <2>6, <3>3, InsertFileAlone, Returned DEF InsertFile
    <3>4. ASSUME NEW f \in Files, NEW p \in Dirs, Upload(r, f, p)
          PROVE  Consistent' /\ Paired' /\ AsRead'
      BY <2>5, <3>4, UploadAlone
    <3>5. CASE UpdateNameAndParent(r)
      BY <2>5, <2>6, <3>5, MoveAlone, Returned DEF UpdateNameAndParent
    <3>6. CASE SoftDeleteSubtree(r)
      BY <2>5, <2>6, <3>6, SoftDeleteAlone, Returned DEF SoftDeleteSubtree
    <3>7. CASE RestoreSubtree(r)
      BY <2>5, <2>6, <3>7, RestoreAlone, Returned DEF RestoreSubtree
    <3>8. CASE HardDelete(r)
      BY <2>5, <2>6, <3>8, HardDeleteAlone, Returned DEF HardDelete
    <3>9. ~ParentGone(r)
      BY <2>2, StampFacts DEF ParentGone, AsRead, TargetAsRead, At, IsAlive, HasRow
    <3>10. ASSUME OneStep(r) PROVE Consistent' /\ Paired' /\ AsRead'
      <4>1. UNCHANGED req /\ \A q \in Reqs : req'[q] = Idle
        BY <2>1, <3>10 DEF OneStep, Quiet, FileSoftDelete, FileRestore, CreateLink
      <4>2. AsRead'
        BY <4>1, IdleAsRead DEF AsRead
      <4> QED BY <2>2, <2>6, <3>10, <4>2, FileStepAlone, CreateLinkAlone DEF OneStep
    <3>11. \/ Reads(r) \/ InsertDir(r) \/ InsertFile(r) \/ UpdateNameAndParent(r)
           \/ SoftDeleteSubtree(r) \/ RestoreSubtree(r) \/ HardDelete(r) \/ OneStep(r)
           \/ \E f \in Files, p \in Dirs : Upload(r, f, p)
      BY <2>3, <3>9, Zenon DEF Start, Proceed, Reads
    <3> QED BY <3>1, <3>2, <3>3, <3>4, <3>5, <3>6, <3>7, <3>8, <3>10, <3>11
  <2> QED BY <2>4, <2>6, <2>7 DEF AloneInv
<1> QED BY <1>1, <1>2

\* Requests one at a time, through the trash and back in any order, over any
\* directories and files: nothing alive is below a directory in the trash,
\* files_count of the root and storage_used are exact, rows and objects are
\* paired, and a link works exactly while what it opens is not in the trash.
THEOREM ConsistentAloneHolds == Spec => []ConsistentAlone
<1>1. Init => AloneInv
  BY InitAlone
<1>2. AloneInv /\ [Next]_vars => AloneInv'
  BY StepAlone
<1>3. AloneInv => ConsistentAlone
  <2> SUFFICES ASSUME AloneInv, alone PROVE TrashIsClosed /\ RootCountExact /\ UsedIsRows /\ LinksFollowTrash
    BY DEF ConsistentAlone
  <2>1. TrashIsClosed /\ RootCountExact /\ LinksFollowTrash
    BY DEF AloneInv, Consistent, TrashClosed, Counted, LinksFollow, Living,
           TrashIsClosed, RootCountExact, LinksFollowTrash
  <2>2. Quiet => Incoming = {}
    BY DEF Quiet, Incoming, At, Idle
  <2>3. UsedIsRows
    BY <2>2 DEF AloneInv, Consistent, Counted, Paired, Rows, UsedIsRows
  <2> QED BY <2>1, <2>3
<1> QED BY <1>1, <1>2, <1>3, PTL DEF Spec
=============================================================================
