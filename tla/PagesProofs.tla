----------------------------- MODULE PagesProofs -----------------------------
(***************************************************************************)
(* The pages of a directory, of a share link and of a file, and the dialog *)
(* with the links, for any directories, items, passwords, files, links and *)
(* requests.  Whatever comes in between, the breadcrumbs are those of the  *)
(* contents, nothing is undone twice at once, and a page is about its      *)
(* address; and to a user who waits for the answers each shows what the    *)
(* server has.                                                             *)
(***************************************************************************)
EXTENDS Pages, FiniteSetTheorems, SequenceTheorems, WellFoundedInduction, TLAPS

-----------------------------------------------------------------------------
(* Pages of a list: S is what the list holds, P the first n of it by rank.  *)

LEMMA NatHasMin ==
    ASSUME NEW T \in SUBSET Nat, T # {}
    PROVE  \E m \in T : \A n \in T : m <= n
<1> DEFINE R == {p \in Nat \X Nat : p[1] < p[2]}
<1>1. IsWellFoundedOn(R, Nat)
  BY NatLessThanWellFounded DEF OpToRel
<1>2. \A x, y \in Nat : <<y, x>> \in R <=> y < x
  OBVIOUS
<1> HIDE DEF R
<1>3. PICK x \in T : \A y \in T : ~ (<<y, x>> \in R)
  BY <1>1, WFMin
<1>4. ASSUME NEW y \in T PROVE x <= y
  <2>1. x \in Nat /\ y \in Nat /\ ~ (y < x)
    BY <1>2, <1>3
  <2> QED
    BY <2>1
<1> QED
  BY <1>4

\* Whoever comes no later than e has no more before it than e has.
LEMMA FewerBefore ==
    ASSUME NEW S, IsFiniteSet(S), NEW rank, \A i \in S : rank[i] \in Nat, NEW n \in Nat,
           NEW e \in S, NEW f \in S, rank[f] <= rank[e],
           Cardinality({i \in S : rank[i] < rank[e]}) < n
    PROVE  Cardinality({i \in S : rank[i] < rank[f]}) < n
<1> DEFINE E == {i \in S : rank[i] < rank[e]}
           F == {i \in S : rank[i] < rank[f]}
<1>1. F \in SUBSET E
  OBVIOUS
<1>2. IsFiniteSet(E)
  BY FS_Subset
<1>3. IsFiniteSet(F) /\ Cardinality(F) <= Cardinality(E)
  BY <1>1, <1>2, FS_Subset
<1>4. Cardinality(E) \in Nat /\ Cardinality(F) \in Nat
  BY <1>2, <1>3, FS_CardinalityType
<1>5. Cardinality(E) < n
  OBVIOUS
<1> HIDE DEF E, F
<1>6. Cardinality(F) < n
  BY <1>3, <1>4, <1>5
<1> QED
  BY <1>6 DEF F

FirstRanked(S, rank, n) == {i \in S : Cardinality({j \in S : rank[j] < rank[i]}) < n}

LEMMA FirstComesFirst ==
    ASSUME NEW S, IsFiniteSet(S), NEW rank, \A i \in S : rank[i] \in Nat, NEW n \in Nat \ {0},
           NEW P, P = FirstRanked(S, rank, n)
    PROVE  /\ P \subseteq S
           /\ \A e \in P, f \in S \ P : rank[e] < rank[f]
           /\ S # {} => P # {}
<1>1. P \subseteq S
  BY DEF FirstRanked
<1>2. ASSUME NEW e \in P, NEW f \in S \ P PROVE rank[e] < rank[f]
  <2> SUFFICES ASSUME rank[f] <= rank[e] PROVE f \in P
    BY <1>1
  <2>1. e \in S /\ Cardinality({i \in S : rank[i] < rank[e]}) < n
    BY DEF FirstRanked
  <2>2. Cardinality({i \in S : rank[i] < rank[f]}) < n
    BY <2>1, FewerBefore
  <2> QED
    BY <2>2 DEF FirstRanked
<1>3. ASSUME S # {} PROVE P # {}
  <2> DEFINE T == {rank[e] : e \in S}
  <2>1. T \in SUBSET Nat /\ T # {}
    BY <1>3
  <2> HIDE DEF T
  <2>2. PICK m \in T : \A k \in T : m <= k
    BY <2>1, NatHasMin
  <2>3. PICK e \in S : rank[e] = m
    BY <2>2 DEF T
  <2>4. \A f \in S : ~ (rank[f] < rank[e])
    <3> TAKE f \in S
    <3>1. rank[f] \in T /\ rank[f] \in Nat /\ m \in Nat
      BY <2>1 DEF T
    <3>2. m <= rank[f]
      BY <2>2, <3>1
    <3> QED
      BY <2>3, <3>1, <3>2
  <2>5. {f \in S : rank[f] < rank[e]} = {}
    BY <2>4
  <2>6. Cardinality({f \in S : rank[f] < rank[e]}) < n
    BY <2>5, FS_EmptySet
  <2> QED
    BY <2>6 DEF FirstRanked
<1> QED
  BY <1>1, <1>2, <1>3

\* A page that is not the whole list has a last row.
LEMMA PageHasLast ==
    ASSUME NEW S, NEW rank, \A i \in S : rank[i] \in Nat, NEW P, P \subseteq S, P # {}, P # S,
           \A e \in P, f \in S \ P : rank[e] < rank[f]
    PROVE  \E l \in P : /\ \A e \in P : rank[e] <= rank[l]
                       /\ \A f \in S \ P : rank[f] > rank[l]
<1>1. PICK t \in S \ P : TRUE
  OBVIOUS
<1> DEFINE T == {rank[t] - rank[e] : e \in P}
<1>2. T \in SUBSET Nat /\ T # {}
  <2>1. ASSUME NEW e \in P PROVE rank[t] - rank[e] \in Nat
    <3>1. rank[e] \in Nat /\ rank[t] \in Nat /\ rank[e] < rank[t]
      OBVIOUS
    <3> QED
      BY <3>1
  <2> QED
    BY <2>1
<1> HIDE DEF T
<1>3. PICK m \in T : \A n \in T : m <= n
  BY <1>2, NatHasMin
<1>4. PICK l \in P : rank[t] - rank[l] = m
  BY <1>3 DEF T
<1>5. \A e \in P : rank[e] <= rank[l]
  <2> TAKE e \in P
  <2>1. rank[t] - rank[e] \in T
    BY DEF T
  <2>2. rank[t] - rank[l] <= rank[t] - rank[e]
    BY <1>3, <1>4, <2>1
  <2>3. rank[t] \in Nat /\ rank[e] \in Nat /\ rank[l] \in Nat
    OBVIOUS
  <2> QED
    BY <2>2, <2>3
<1> QED
  BY <1>5

\* The cursor c of the page P of S is none when P is the rest of the list, and else the
\* last row of P.
IsCursor(S, P, rank, c, none) ==
    /\ P \subseteq S
    /\ c = none => P = S
    /\ c # none => /\ c \in S /\ \A e \in P : rank[e] <= rank[c]
                  /\ \A f \in S \ P : rank[f] > rank[c]

LEMMA CursorIsLast ==
    ASSUME NEW S, IsFiniteSet(S), NEW rank, \A i \in S : rank[i] \in Nat, NEW n \in Nat \ {0},
           NEW P, P = FirstRanked(S, rank, n), NEW none, none \notin S, NEW c,
           S = P => c = none,
           S # P /\ (\E l \in P : \A e \in P : rank[e] <= rank[l]) =>
               c \in P /\ \A e \in P : rank[e] <= rank[c]
    PROVE  IsCursor(S, P, rank, c, none)
<1>1. /\ P \subseteq S /\ \A e \in P, f \in S \ P : rank[e] < rank[f]
      /\ S # {} => P # {}
  BY FirstComesFirst
<1>2. CASE S = P
  BY <1>2 DEF IsCursor
<1>3. CASE S # P
  <2>1. PICK l \in P : /\ \A e \in P : rank[e] <= rank[l]
                      /\ \A f \in S \ P : rank[f] > rank[l]
    BY <1>1, <1>3, PageHasLast
  <2>2. c \in P /\ \A e \in P : rank[e] <= rank[c]
    BY <1>3, <2>1
  <2>3. rank[l] \in Nat /\ rank[c] \in Nat /\ rank[l] <= rank[c] /\ rank[c] <= rank[l]
    BY <1>1, <2>1, <2>2
  <2>4. rank[c] = rank[l] /\ c # none
    BY <1>1, <2>2, <2>3
  <2> QED
    BY <1>1, <2>1, <2>2, <2>4 DEF IsCursor
<1> QED
  BY <1>2, <1>3

\* What there is up to the cursor.
SoFar(T, rank, c, none) == {i \in T : c = none \/ rank[i] <= rank[c]}

\* It is the first page ...
LEMMA FirstSoFar ==
    ASSUME NEW T, NEW rank, \A i \in T : rank[i] \in Nat, NEW P, NEW none, NEW c,
           IsCursor(T, P, rank, c, none)
    PROVE  P = SoFar(T, rank, c, none)
<1>1. CASE c = none
  BY <1>1 DEF IsCursor, SoFar
<1>2. CASE c # none
  <2>1. P \subseteq T /\ c \in T /\ \A e \in P : rank[e] <= rank[c]
    BY <1>2 DEF IsCursor
  <2>2. ASSUME NEW f \in T \ P PROVE ~(rank[f] <= rank[c])
    <3>1. rank[f] > rank[c] /\ rank[f] \in Nat /\ rank[c] \in Nat
      BY <1>2, <2>1 DEF IsCursor
    <3> QED
      BY <3>1
  <2> QED
    BY <1>2, <2>1, <2>2 DEF SoFar
<1> QED
  BY <1>1, <1>2

\* ... and the page before with the next one appended, which holds nothing that is there.
LEMMA NextSoFar ==
    ASSUME NEW T, NEW rank, \A i \in T : rank[i] \in Nat, NEW none, NEW c, c # none,
           rank[c] \in Nat,
           NEW P, NEW d, IsCursor({i \in T : rank[i] > rank[c]}, P, rank, d, none)
    PROVE  /\ SoFar(T, rank, c, none) \cup P = SoFar(T, rank, d, none)
           /\ SoFar(T, rank, c, none) \cap P = {}
<1> DEFINE S == {i \in T : rank[i] > rank[c]}
<1>1. SoFar(T, rank, c, none) = {i \in T : rank[i] <= rank[c]}
  BY DEF SoFar
<1>2. /\ P \subseteq S /\ (d = none => P = S)
      /\ d # none => /\ d \in S /\ \A e \in P : rank[e] <= rank[d]
                    /\ \A f \in S \ P : rank[f] > rank[d]
  BY DEF IsCursor
<1>3. \A i \in T : i \in S <=> ~(rank[i] <= rank[c])
  OBVIOUS
<1>4. \A i \in S : i \in T
  OBVIOUS
<1> HIDE DEF S
<1>5. SoFar(T, rank, c, none) \cap P = {}
  BY <1>1, <1>2, <1>3
<1>6. CASE d = none
  BY <1>1, <1>2, <1>3, <1>4, <1>6 DEF SoFar
<1>7. CASE d # none
  <2>1. d \in T /\ rank[d] \in Nat /\ rank[c] < rank[d]
    BY <1>2, <1>4, <1>7 DEF S
  <2>2. ASSUME NEW i \in T
        PROVE  i \in SoFar(T, rank, c, none) \cup P <=> rank[i] <= rank[d]
    <3>1. rank[i] \in Nat
      OBVIOUS
    <3>2. CASE rank[i] <= rank[c]
      BY <1>1, <2>1, <3>1, <3>2
    <3>3. CASE i \in P
      BY <1>2, <1>7, <3>3
    <3>4. CASE i \in S \ P
      <4>1. ~(rank[i] <= rank[c]) /\ rank[i] > rank[d]
        BY <1>2, <1>3, <1>7, <3>4
      <4> QED
        BY <1>1, <2>1, <3>1, <3>4, <4>1
    <3> QED
      BY <1>3, <3>2, <3>3, <3>4
  <2>3. SoFar(T, rank, c, none) \cup P \subseteq T
    BY <1>1, <1>2, <1>4
  <2>4. SoFar(T, rank, d, none) = {i \in T : rank[i] <= rank[d]}
    BY <1>7 DEF SoFar
  <2>5. SoFar(T, rank, c, none) \cup P = {i \in T : rank[i] <= rank[d]}
    <3> DEFINE U == SoFar(T, rank, c, none) \cup P
    <3> HIDE DEF U
    <3>1. U \subseteq T /\ \A i \in T : i \in U <=> rank[i] <= rank[d]
      BY <2>2, <2>3 DEF U
    <3>2. U = {i \in T : rank[i] <= rank[d]}
      BY <3>1
    <3> QED
      BY <3>2 DEF U
  <2> QED
    BY <1>5, <2>4, <2>5
<1> QED
  BY <1>5, <1>6, <1>7

-----------------------------------------------------------------------------
(* DirectoryPage.                                                          *)

\* The cursors that the server hands out.
Cursors == {CursorOf(S) : S \in SUBSET Items} \cup {None}
PageRequest == [pc : {"idle", "op", "list", "listed", "path", "more", "listedMore"}, kind : Kinds,
            item : Items \cup {None}, dir : Dirs \cup {None}, to : Dirs \cup {None}, skip : BOOLEAN,
            page : SUBSET Items, next : Cursors]
Offer   == [kind : {"restore", "back"}, item : Items \cup {None}, dir : Dirs \cup {None}]

\* What of TypeOK the proofs need.
Typed ==
    /\ url \in Dirs /\ target \in Dirs \cup {None}
    /\ shown \in [dir : Dirs \cup {None}, items : SUBSET Items, twice : SUBSET Items, next : Cursors]
    /\ crumbLoad \in Reqs \cup {None} /\ undoing \in BOOLEAN
    /\ offers \subseteq Offer
    /\ modal \in [open : BOOLEAN, item : Items \cup {None}, selected : Dirs \cup {None}]
    /\ req \in [Reqs -> PageRequest]

IdleIsNone == \A r \in Reqs : req[r].pc = "idle" => req[r] = NoReq

\* The last call of loadBreadcrumbs is about the contents that the page has.
LastPath == crumbLoad # None => req[crumbLoad].pc = "path" /\ req[crumbLoad].dir = shown.dir
Crumbs   == crumbLoad = None => crumbs = shown.dir

\* One move is being undone at a time, and isUndoingRef says so.
OneBack ==
    /\ \A r \in Reqs : req[r].kind = "back" => undoing
    /\ \A r, s \in Reqs : req[r].kind = "back" /\ req[s].kind = "back" => r = s

\* What stands for the right to restore an item: a deletion that has taken effect and has
\* not offered it yet, the toast, the request that the toast sent.
HasRight(q, i) ==
    q.item = i /\ (\/ q.kind = "restore" /\ q.pc = "op"
                   \/ q.kind = "delete" /\ q.pc \in {"list", "listed", "path"})
Offers(o, i) == o.kind = "restore" /\ o.item = i

\* There is one of them for an item in the trash at most, and none for another item.
OneRight ==
    /\ \A r \in Reqs, i \in Items \cup {None} : HasRight(req[r], i) => i \in trash
    /\ \A o \in offers, i \in Items \cup {None} : Offers(o, i) => i \in trash
    /\ \A r, s \in Reqs, i \in Items \cup {None} : HasRight(req[r], i) /\ HasRight(req[s], i) => r = s
    /\ \A r \in Reqs, o \in offers, i \in Items \cup {None} : ~(HasRight(req[r], i) /\ Offers(o, i))
    /\ \A o, p \in offers, i \in Items \cup {None} : Offers(o, i) /\ Offers(p, i) => o = p

DirInv == Typed /\ IdleIsNone /\ LastPath /\ Crumbs /\ OneBack /\ OneRight

-----------------------------------------------------------------------------
LEMMA NoReqTyped == NoReq \in PageRequest
BY DEF NoReq, PageRequest, Cursors, Kinds

LEMMA DirInitOK == Init => DirInv
<1> SUFFICES ASSUME Init PROVE DirInv
  OBVIOUS
<1>1. PICK t \in Reqs : req = [s \in Reqs |-> IF s = t THEN [NoReq EXCEPT !.pc = "list", !.dir = url]
                                                      ELSE NoReq]
  BY DEF Init
<1>2. [NoReq EXCEPT !.pc = "list", !.dir = url] \in PageRequest
  BY DEF Init, NoReq, PageRequest, Cursors, Kinds
<1>3. \A r \in Reqs : req[r].kind = "load" /\ (req[r].pc = "idle" => req[r] = NoReq)
  BY <1>1 DEF NoReq
<1>4. Typed
  BY <1>1, <1>2, NoReqTyped DEF Init, Typed, Cursors, Closed
<1>5. IdleIsNone /\ LastPath /\ Crumbs
  BY <1>3 DEF Init, IdleIsNone, LastPath, Crumbs
<1>6. OneBack /\ OneRight
  BY <1>3 DEF Init, OneBack, OneRight, HasRight
<1> QED
  BY <1>4, <1>5, <1>6 DEF DirInv

LEMMA DirInvGives == DirInv => CrumbsFollowContents /\ UndoneOnce
<1> SUFFICES ASSUME DirInv PROVE CrumbsFollowContents /\ UndoneOnce
  OBVIOUS
<1>1. CrumbsFollowContents
  BY DEF DirInv, Crumbs, LastPath, CrumbsFollowContents
<1>2. UndoneOnce
  BY DEF DirInv, Typed, PageRequest, OneBack, OneRight, HasRight, UndoneOnce
<1> QED
  BY <1>1, <1>2

-----------------------------------------------------------------------------
(* Steps by what they do to requests and toasts.                            *)

\* No right to restore is made, and those that are left are about the trash.
LEMMA RightsKept ==
    ASSUME OneRight,
           \A r \in Reqs, i \in Items \cup {None} :
               HasRight(req'[r], i) => HasRight(req[r], i) /\ i \in trash',
           \A o \in offers', i \in Items \cup {None} : Offers(o, i) => o \in offers /\ i \in trash'
    PROVE  OneRight'
BY DEF OneRight

\* A request begins.
LEMMA StartKeeps ==
    ASSUME DirInv, NEW r \in Reqs, NEW q \in PageRequest, req[r].pc = "idle",
           req' = [req EXCEPT ![r] = q], q.pc \in {"op", "list", "more"},
           q.kind \notin {"back", "restore"}, q.kind = "delete" => q.pc = "op",
           url' \in Dirs, target' \in Dirs \cup {None},
           UNCHANGED <<shown, crumbs, crumbLoad, undoing, offers, modal, trash>>
    PROVE  DirInv'
<1>1. Typed'
  BY DEF DirInv, Typed
<1>2. \A s \in Reqs : req'[s] = IF s = r THEN q ELSE req[s]
  BY DEF DirInv, Typed
<1>3. IdleIsNone' /\ LastPath' /\ Crumbs'
  BY <1>2 DEF DirInv, Typed, IdleIsNone, LastPath, Crumbs
<1>4. OneBack'
  BY <1>2 DEF DirInv, OneBack
<1>5. OneRight'
  <2>1. \A s \in Reqs, i \in Items \cup {None} :
            HasRight(req'[s], i) => HasRight(req[s], i) /\ i \in trash'
    BY <1>2 DEF DirInv, HasRight, OneRight
  <2> QED
    BY <2>1, RightsKept DEF DirInv, OneRight
<1> QED
  BY <1>1, <1>3, <1>4, <1>5 DEF DirInv

\* The request of r goes on as q, with the same kind.
LEMMA ProceedElse ==
    ASSUME DirInv, NEW r \in Reqs, NEW q \in PageRequest, req[r].pc # "idle",
           req' = [req EXCEPT ![r] = q], q.pc # "idle", q.kind = req[r].kind,
           \/ crumbLoad # r /\ UNCHANGED <<crumbs, crumbLoad>> /\ shown'.dir = shown.dir
           \/ crumbLoad' = r /\ q.pc = "path" /\ q.dir = shown'.dir,
           undoing' = undoing
    PROVE  IdleIsNone' /\ LastPath' /\ Crumbs' /\ OneBack'
<1>1. \A s \in Reqs : req'[s] = IF s = r THEN q ELSE req[s]
  BY DEF DirInv, Typed
<1>2. IdleIsNone' /\ LastPath' /\ Crumbs'
  BY <1>1, DirectoryPageAssumption DEF DirInv, Typed, IdleIsNone, LastPath, Crumbs
<1>3. OneBack'
  BY <1>1 DEF DirInv, OneBack
<1> QED
  BY <1>2, <1>3

\* ... and without a new right.
LEMMA ProceedKeeps ==
    ASSUME DirInv, NEW r \in Reqs, NEW q \in PageRequest, req[r].pc # "idle",
           req' = [req EXCEPT ![r] = q], q.pc # "idle", q.kind = req[r].kind,
           \A i \in Items \cup {None} : HasRight(q, i) => HasRight(req[r], i),
           \/ crumbLoad # r /\ UNCHANGED <<crumbs, crumbLoad>> /\ shown'.dir = shown.dir
           \/ crumbLoad' = r /\ q.pc = "path" /\ q.dir = shown'.dir,
           Typed', undoing' = undoing,
           \A i \in trash : i \in trash',
           \A o \in offers' : o \in offers \/ o.kind = "back"
    PROVE  DirInv'
<1>1. \A s \in Reqs : req'[s] = IF s = r THEN q ELSE req[s]
  BY DEF DirInv, Typed
<1>2. \A s \in Reqs, i \in Items \cup {None} :
          HasRight(req'[s], i) => HasRight(req[s], i) /\ i \in trash'
  BY <1>1 DEF DirInv, OneRight
<1>3. \A o \in offers', i \in Items \cup {None} : Offers(o, i) => o \in offers /\ i \in trash'
  BY DEF DirInv, OneRight, Offers
<1>4. OneRight'
  BY <1>2, <1>3, RightsKept DEF DirInv
<1> QED
  BY <1>4, ProceedElse DEF DirInv

\* The request of r is over.
LEMMA EndElse ==
    ASSUME DirInv, NEW r \in Reqs, req[r].pc # "idle", req' = [req EXCEPT ![r] = NoReq],
           \/ crumbLoad # r /\ UNCHANGED <<crumbs, crumbLoad>> /\ shown'.dir = shown.dir
           \/ crumbLoad' = None /\ crumbs' = shown.dir /\ shown'.dir = shown.dir,
           undoing /\ req[r].kind # "back" => undoing'
    PROVE  IdleIsNone' /\ LastPath' /\ Crumbs' /\ OneBack'
<1>1. \A s \in Reqs : req'[s] = IF s = r THEN NoReq ELSE req[s]
  BY DEF DirInv, Typed
<1>2. IdleIsNone' /\ LastPath' /\ Crumbs'
  BY <1>1, DirectoryPageAssumption DEF DirInv, Typed, IdleIsNone, LastPath, Crumbs
<1>3. OneBack'
  <2>1. \A s \in Reqs : req'[s].kind = "back" => s # r /\ req[s].kind = "back"
    BY <1>1 DEF NoReq
  <2>2. CASE req[r].kind = "back"
    BY <2>1, <2>2 DEF DirInv, OneBack
  <2>3. CASE req[r].kind # "back"
    <3>1. undoing => undoing'
      BY <2>3
    <3> QED
      BY <2>1, <3>1 DEF DirInv, OneBack
  <2> QED
    BY <2>2, <2>3
<1> QED
  BY <1>2, <1>3

\* ... and leaves no toast that restores.
LEMMA EndKeeps ==
    ASSUME DirInv, NEW r \in Reqs, req[r].pc # "idle", req' = [req EXCEPT ![r] = NoReq],
           \/ crumbLoad # r /\ UNCHANGED <<crumbs, crumbLoad>> /\ shown'.dir = shown.dir
           \/ crumbLoad' = None /\ crumbs' = shown.dir /\ shown'.dir = shown.dir,
           Typed', undoing /\ req[r].kind # "back" => undoing',
           \A i \in trash : i \in trash' \/ HasRight(req[r], i),
           \A o \in offers' : o \in offers \/ o.kind = "back"
    PROVE  DirInv'
<1>1. \A s \in Reqs : req'[s] = IF s = r THEN NoReq ELSE req[s]
  BY DEF DirInv, Typed
<1>2. \A s \in Reqs, i \in Items \cup {None} :
          HasRight(req'[s], i) => HasRight(req[s], i) /\ i \in trash'
  <2>1. \A i \in Items \cup {None} : ~HasRight(NoReq, i)
    BY DEF HasRight, NoReq
  <2> QED
    BY <1>1, <2>1 DEF DirInv, OneRight
<1>3. \A o \in offers', i \in Items \cup {None} : Offers(o, i) => o \in offers /\ i \in trash'
  BY DEF DirInv, OneRight, Offers
<1>4. OneRight'
  BY <1>2, <1>3, RightsKept DEF DirInv
<1> QED
  BY <1>4, EndElse DEF DirInv

\* The right of a deletion becomes a toast.
LEMMA OfferKeeps ==
    ASSUME DirInv, NEW r \in Reqs, req[r].pc \in {"list", "listed", "path"}, req[r].kind = "delete",
           req' = [req EXCEPT ![r] = NoReq],
           \/ crumbLoad # r /\ UNCHANGED <<crumbs, crumbLoad>> /\ shown'.dir = shown.dir
           \/ crumbLoad' = None /\ crumbs' = shown.dir /\ shown'.dir = shown.dir,
           Typed', undoing => undoing', trash' = trash, offers' = offers \cup OfferOf(req[r])
    PROVE  DirInv'
<1> DEFINE j == req[r].item
           n == [kind |-> "restore", item |-> j, dir |-> req[r].dir]
<1>1. \A s \in Reqs : req'[s] = IF s = r THEN NoReq ELSE req[s]
  BY DEF DirInv, Typed
<1>2. \A i \in Items \cup {None} : ~HasRight(NoReq, i)
  BY DEF HasRight, NoReq
<1>3. j \in Items \cup {None} /\ HasRight(req[r], j)
  BY DEF HasRight, DirInv, Typed, PageRequest
<1>4. offers' = offers \cup {n} /\ \A i \in Items \cup {None} : Offers(n, i) <=> i = j
  BY DEF OfferOf, Offers
<1> HIDE DEF j, n
<1>5. OneRight'
  BY <1>1, <1>2, <1>3, <1>4 DEF DirInv, OneRight
<1> QED
  BY <1>5, EndElse DEF DirInv

-----------------------------------------------------------------------------
(* The steps of the page.                                                   *)

LEMMA StillKeeps ==
    ASSUME DirInv, Typed', offers' \subseteq offers,
           UNCHANGED <<shown, crumbs, crumbLoad, undoing, trash, req>>
    PROVE  DirInv'
<1>1. IdleIsNone' /\ LastPath' /\ Crumbs' /\ OneBack'
  BY DEF DirInv, IdleIsNone, LastPath, Crumbs, OneBack
<1>2. OneRight'
  BY RightsKept DEF DirInv, OneRight
<1> QED
  BY <1>1, <1>2 DEF DirInv

LEMMA NavigateKeeps == ASSUME DirInv, NEW r \in Reqs, NEW d \in Dirs, Navigate(r, d) PROVE DirInv'
<1> DEFINE q == [NoReq EXCEPT !.pc = "list", !.dir = d, !.skip = FALSE]
<1>1. q \in PageRequest /\ q.pc = "list" /\ q.kind = "load"
  BY DEF NoReq, PageRequest, Cursors, Kinds
<1>2. /\ req[r].pc = "idle" /\ req' = [req EXCEPT ![r] = q] /\ url' = d /\ target' = d
      /\ UNCHANGED <<shown, crumbs, crumbLoad, undoing, offers, modal, trash>>
  BY DEF Navigate, Free, LoadDirectory, serverVars
<1> HIDE DEF q
<1> QED
  BY <1>1, <1>2, StartKeeps

\* What Send makes.
LEMMA SendKeeps ==
    ASSUME DirInv, NEW r \in Reqs, NEW k \in Kinds \ {"back", "restore"},
           NEW i \in Items \cup {None},
           NEW d \in Dirs, NEW to \in Dirs \cup {None}, req[r].pc = "idle", Send(r, k, i, d, to),
           UNCHANGED <<url, target, shown, crumbs, crumbLoad, undoing, offers, modal, trash>>
    PROVE  DirInv'
<1> DEFINE q == [NoReq EXCEPT !.pc = "op", !.kind = k, !.item = i, !.dir = d, !.to = to]
<1>1. q \in PageRequest /\ q.pc = "op" /\ q.kind = k
  BY DEF NoReq, PageRequest, Cursors, Kinds
<1>2. req' = [req EXCEPT ![r] = q] /\ url' \in Dirs /\ target' \in Dirs \cup {None}
  BY DEF Send, DirInv, Typed
<1> HIDE DEF q
<1> QED
  BY <1>1, <1>2, StartKeeps

LEMMA AddKeeps ==
    ASSUME DirInv, NEW r \in Reqs, NEW k \in Adds, NEW i \in Items, Add(r, k, i) PROVE DirInv'
BY SendKeeps DEF Add, Free, serverVars, Kinds, Adds, DirInv, Typed

LEMMA DragKeeps == ASSUME DirInv, NEW r \in Reqs, NEW i \in Items, Drag(r, i) PROVE DirInv'
BY SendKeeps DEF Drag, Free, serverVars, Kinds, DirInv, Typed

LEMMA DeleteOrRenameKeeps ==
    ASSUME DirInv, NEW r \in Reqs, NEW k \in {"delete", "rename"}, NEW i \in Items,
           DeleteOrRename(r, k, i)
    PROVE  DirInv'
BY SendKeeps DEF DeleteOrRename, Free, serverVars, Kinds, DirInv, Typed

LEMMA DropKeeps ==
    ASSUME DirInv, NEW r \in Reqs, NEW i \in Items, NEW d \in Dirs, Drop(r, i, d) PROVE DirInv'
BY SendKeeps DEF Drop, Free, serverVars, Kinds, Moves, DirInv, Typed

LEMMA HandleMoveKeeps == ASSUME DirInv, NEW r \in Reqs, HandleMove(r) PROVE DirInv'
BY SendKeeps DEF HandleMove, Free, serverVars, Kinds, Moves, DirInv, Typed

LEMMA LoadMoreKeeps == ASSUME DirInv, NEW r \in Reqs, LoadMore(r) PROVE DirInv'
<1> DEFINE q == [NoReq EXCEPT !.pc = "more", !.dir = url, !.next = shown.next]
<1>1. q \in PageRequest /\ q.pc = "more" /\ q.kind = "load"
  BY DEF NoReq, PageRequest, Kinds, DirInv, Typed
<1>2. /\ req[r].pc = "idle" /\ req' = [req EXCEPT ![r] = q]
      /\ url' \in Dirs /\ target' \in Dirs \cup {None}
      /\ UNCHANGED <<shown, crumbs, crumbLoad, undoing, offers, modal, trash>>
  BY DEF LoadMore, Free, serverVars, DirInv, Typed
<1> HIDE DEF q
<1> QED
  BY <1>1, <1>2, StartKeeps

LEMMA DismissKeeps == ASSUME DirInv, NEW o \in offers, Dismiss(o) PROVE DirInv'
BY StillKeeps DEF Dismiss, serverVars, DirInv, Typed

LEMMA OpenModalKeeps == ASSUME DirInv, NEW i \in Items, OpenModal(i) PROVE DirInv'
BY StillKeeps DEF OpenModal, serverVars, DirInv, Typed

LEMMA NavigateToKeeps == ASSUME DirInv, NEW d \in Dirs, NavigateTo(d) PROVE DirInv'
BY StillKeeps DEF NavigateTo, serverVars, DirInv, Typed

LEMMA CloseModalKeeps == ASSUME DirInv, CloseModal PROVE DirInv'
BY StillKeeps DEF CloseModal, serverVars, DirInv, Typed

LEMMA ListKeeps == ASSUME DirInv, NEW r \in Reqs, List(r) PROVE DirInv'
<1> DEFINE S == Content(req[r].dir)
           P == FirstOf(S)
           c == CursorOf(S)
           q == [req[r] EXCEPT !.pc = "listed", !.page = P, !.next = c]
<1>1. P \in SUBSET Items /\ c \in Cursors
  BY DEF FirstOf, Content, Cursors
<1>2. req[r] \in PageRequest /\ req[r].pc = "list"
  BY DEF List, DirInv, Typed
<1>3. /\ req' = [req EXCEPT ![r] = q]
      /\ UNCHANGED <<url, target, shown, crumbs, crumbLoad, undoing, offers, modal, trash>>
  BY DEF List, serverVars, DirInv, Typed
<1> HIDE DEF P, c
<1>4. /\ q \in PageRequest /\ q.pc = "listed" /\ q.kind = req[r].kind
      /\ \A i \in Items \cup {None} : HasRight(q, i) => HasRight(req[r], i)
  BY <1>1, <1>2 DEF PageRequest, HasRight
<1> HIDE DEF q
<1>5. Typed'
  BY <1>3, <1>4 DEF DirInv, Typed
<1>6. crumbLoad # r /\ UNCHANGED <<crumbs, crumbLoad>> /\ shown'.dir = shown.dir
  BY <1>2, <1>3, DirectoryPageAssumption DEF DirInv, LastPath
<1>7. \A i \in trash : i \in trash'
  BY <1>3
<1>8. /\ undoing' = undoing /\ offers \subseteq offers'
      /\ \A o \in offers' : o \in offers \/ o.kind = "back"
  BY <1>3
<1>9. req[r].pc # "idle" /\ q.pc # "idle"
  BY <1>2, <1>4
<1> QED
  BY <1>3, <1>4, <1>5, <1>6, <1>7, <1>9, <1>8, ProceedKeeps

LEMMA ListMoreKeeps == ASSUME DirInv, NEW r \in Reqs, ListMore(r) PROVE DirInv'
<1> DEFINE S == After(Content(req[r].dir), req[r].next)
           P == FirstOf(S)
           c == CursorOf(S)
           q == [req[r] EXCEPT !.pc = "listedMore", !.page = P, !.next = c]
<1>1. P \in SUBSET Items /\ c \in Cursors
  BY DEF FirstOf, Content, After, Cursors
<1>2. req[r] \in PageRequest /\ req[r].pc = "more"
  BY DEF ListMore, DirInv, Typed
<1>3. /\ req' = [req EXCEPT ![r] = q]
      /\ UNCHANGED <<url, target, shown, crumbs, crumbLoad, undoing, offers, modal, trash>>
  BY DEF ListMore, serverVars, DirInv, Typed
<1> HIDE DEF P, c
<1>4. /\ q \in PageRequest /\ q.pc = "listedMore" /\ q.kind = req[r].kind
      /\ \A i \in Items \cup {None} : HasRight(q, i) => HasRight(req[r], i)
  BY <1>1, <1>2 DEF PageRequest, HasRight
<1> HIDE DEF q
<1>5. Typed'
  BY <1>3, <1>4 DEF DirInv, Typed
<1>6. crumbLoad # r /\ UNCHANGED <<crumbs, crumbLoad>> /\ shown'.dir = shown.dir
  BY <1>2, <1>3, DirectoryPageAssumption DEF DirInv, LastPath
<1>7. \A i \in trash : i \in trash'
  BY <1>3
<1>8. /\ undoing' = undoing /\ offers \subseteq offers'
      /\ \A o \in offers' : o \in offers \/ o.kind = "back"
  BY <1>3
<1>9. req[r].pc # "idle" /\ q.pc # "idle"
  BY <1>2, <1>4
<1> QED
  BY <1>3, <1>4, <1>5, <1>6, <1>7, <1>9, <1>8, ProceedKeeps

LEMMA ListedKeeps == ASSUME DirInv, NEW r \in Reqs, Listed(r) PROVE DirInv'
<1> DEFINE q == [req[r] EXCEPT !.pc = "path"]
<1>1. q.dir = req[r].dir
  BY DEF DirInv, Typed, PageRequest
<1>2. req[r] \in PageRequest /\ req[r].pc = "listed"
  BY DEF Listed, DirInv, Typed
<1>3. /\ req' = [req EXCEPT ![r] = q]
      /\ shown' = [dir |-> req[r].dir, items |-> req[r].page, twice |-> {}, next |-> req[r].next]
      /\ crumbLoad' = r /\ UNCHANGED <<url, target, undoing, offers, modal, trash>>
  BY DEF Listed, serverVars, DirInv, Typed
<1>4. /\ q \in PageRequest /\ q.pc = "path" /\ q.kind = req[r].kind
      /\ \A i \in Items \cup {None} : HasRight(q, i) => HasRight(req[r], i)
  BY <1>1, <1>2 DEF PageRequest, HasRight
<1> HIDE DEF q
<1>5. Typed'
  BY <1>2, <1>3, <1>4 DEF DirInv, Typed, PageRequest
<1>6. crumbLoad' = r /\ q.pc = "path" /\ q.dir = shown'.dir
  BY <1>1, <1>3, <1>4
<1>7. \A i \in trash : i \in trash'
  BY <1>3
<1>8. /\ undoing' = undoing /\ offers \subseteq offers'
      /\ \A o \in offers' : o \in offers \/ o.kind = "back"
  BY <1>3
<1>9. req[r].pc # "idle" /\ q.pc # "idle"
  BY <1>2, <1>4
<1> QED
  BY <1>3, <1>4, <1>5, <1>6, <1>7, <1>9, <1>8, ProceedKeeps

\* What the end of a request changes besides.
LEMMA EndTyped ==
    ASSUME DirInv, NEW r \in Reqs, req' = [req EXCEPT ![r] = NoReq], undoing' \in BOOLEAN,
           shown' \in [dir : Dirs \cup {None}, items : SUBSET Items, twice : SUBSET Items, next : Cursors],
           crumbLoad' \in {crumbLoad, None}, offers' \subseteq offers \cup OfferOf(req[r]),
           UNCHANGED <<url, target, modal>>
    PROVE  Typed'
<1>1. OfferOf(req[r]) \subseteq Offer
  BY DEF OfferOf, Offer, PageRequest, DirInv, Typed
<1> QED
  BY <1>1, NoReqTyped DEF DirInv, Typed

LEMMA ListedMoreKeeps == ASSUME DirInv, NEW r \in Reqs, ListedMore(r) PROVE DirInv'
<1> DEFINE q == req[r]
<1>1. /\ q \in PageRequest /\ q.pc = "listedMore" /\ req' = [req EXCEPT ![r] = NoReq]
      /\ shown' = [shown EXCEPT !.items = @ \cup q.page, !.next = q.next,
                                !.twice = @ \cup (shown.items \cap q.page)]
      /\ UNCHANGED <<url, target, crumbs, crumbLoad, undoing, offers, modal, trash>>
  BY DEF ListedMore, serverVars, DirInv, Typed
<1>2. /\ shown' \in [dir : Dirs \cup {None}, items : SUBSET Items, twice : SUBSET Items, next : Cursors]
      /\ shown'.dir = shown.dir
  BY <1>1 DEF DirInv, Typed, PageRequest
<1>3. q.pc = "listedMore" /\ UNCHANGED <<crumbs, crumbLoad, undoing, offers, trash, url, target,
                                         modal>>
  BY <1>1
<1>4. crumbLoad # r /\ UNCHANGED <<crumbs, crumbLoad>> /\ shown'.dir = shown.dir
  BY <1>2, <1>3, DirectoryPageAssumption DEF DirInv, LastPath
<1>5. Typed'
  BY <1>1, <1>2, <1>3, EndTyped DEF DirInv, Typed
<1>6. /\ req[r].pc # "idle"
      /\ undoing /\ req[r].kind # "back" => undoing'
      /\ \A i \in trash : i \in trash' \/ HasRight(req[r], i)
      /\ \A o \in offers' : o \in offers \/ o.kind = "back"
  BY <1>3
<1> QED
  BY <1>1, <1>4, <1>5, <1>6, EndKeeps

LEMMA ListMoreFailsKeeps == ASSUME DirInv, NEW r \in Reqs, ListMoreFails(r) PROVE DirInv'
<1>1. /\ req[r].pc = "more" /\ req' = [req EXCEPT ![r] = NoReq]
      /\ UNCHANGED <<url, target, shown, crumbs, crumbLoad, undoing, offers, modal, trash>>
  BY DEF ListMoreFails, serverVars
<1>2. crumbLoad # r /\ UNCHANGED <<crumbs, crumbLoad>> /\ shown'.dir = shown.dir
  BY <1>1, DirectoryPageAssumption DEF DirInv, LastPath
<1>3. Typed'
  BY <1>1, EndTyped DEF DirInv, Typed
<1>4. /\ req[r].pc # "idle"
      /\ undoing /\ req[r].kind # "back" => undoing'
      /\ \A i \in trash : i \in trash' \/ HasRight(req[r], i)
      /\ \A o \in offers' : o \in offers \/ o.kind = "back"
  BY <1>1
<1> QED
  BY <1>1, <1>2, <1>3, <1>4, EndKeeps

LEMMA FailKeeps == ASSUME DirInv, NEW r \in Reqs, Fail(r) PROVE DirInv'
<1>1. /\ req[r].pc = "op" /\ req' = [req EXCEPT ![r] = NoReq]
      /\ undoing' = (undoing /\ req[r].kind # "back")
      /\ UNCHANGED <<url, target, shown, crumbs, crumbLoad, offers, modal>>
  BY DEF Fail
<1>2. \A i \in trash : i \in trash' \/ HasRight(req[r], i)
  <2>1. CASE UNCHANGED serverVars
    BY <2>1 DEF serverVars
  <2>2. CASE Effect(req[r])
    BY <1>1, <2>2 DEF Effect, HasRight
  <2> QED
    BY <2>1, <2>2 DEF Fail
<1>3. crumbLoad # r /\ UNCHANGED <<crumbs, crumbLoad>> /\ shown'.dir = shown.dir
  BY <1>1, DirectoryPageAssumption DEF DirInv, LastPath
<1>4. Typed'
  BY <1>1, EndTyped DEF DirInv, Typed
<1>5. /\ req[r].pc # "idle"
      /\ undoing /\ req[r].kind # "back" => undoing'
      /\ \A o \in offers' : o \in offers \/ o.kind = "back"
  BY <1>1
<1> QED
  BY <1>1, <1>2, <1>3, <1>4, <1>5, EndKeeps

LEMMA FinishKeeps ==
    ASSUME DirInv, NEW r \in Reqs, req[r].pc \in {"list", "path"}, Finish(r),
           \/ crumbLoad # r /\ UNCHANGED <<crumbs, crumbLoad>> /\ shown'.dir = shown.dir
           \/ crumbLoad' = None /\ crumbs' = shown.dir /\ shown'.dir = shown.dir,
           UNCHANGED <<url, target, shown, modal, trash>>
    PROVE  DirInv'
<1>1. /\ req' = [req EXCEPT ![r] = NoReq] /\ undoing' = (undoing /\ req[r].kind # "back")
      /\ offers' = IF req[r].kind \in {"delete", "drop"} THEN offers \cup OfferOf(req[r]) ELSE offers
  BY DEF Finish
<1>2. shown' = shown /\ crumbLoad' \in {crumbLoad, None} /\ UNCHANGED <<url, target, modal>>
  OBVIOUS
<1>3. Typed'
  BY <1>1, <1>2, EndTyped DEF DirInv, Typed
<1>4. CASE req[r].kind = "delete"
  <2>1. undoing => undoing'
    BY <1>1, <1>4
  <2>2. offers' = offers \cup OfferOf(req[r]) /\ trash' = trash
    BY <1>1, <1>4
  <2> QED
    BY <1>1, <1>3, <1>4, <2>1, <2>2, OfferKeeps
<1>5. CASE req[r].kind # "delete"
  <2>1. undoing /\ req[r].kind # "back" => undoing'
    BY <1>1
  <2>2. \A o \in offers' : o \in offers \/ o.kind = "back"
    BY <1>1, <1>5 DEF OfferOf
  <2>3. \A i \in trash : i \in trash' \/ HasRight(req[r], i)
    OBVIOUS
  <2>4. req[r].pc # "idle"
    OBVIOUS
  <2> QED
    BY <1>1, <1>3, <2>1, <2>2, <2>3, <2>4, EndKeeps
<1> QED
  BY <1>4, <1>5

LEMMA PathKeeps == ASSUME DirInv, NEW r \in Reqs, Path(r) PROVE DirInv'
<1>1. req[r].pc \in {"list", "path"} /\ Finish(r)
  BY DEF Path
<1>2. UNCHANGED <<url, target, shown, modal, trash>>
  BY DEF Path, serverVars
<1>3. CASE crumbLoad = r
  <2>1. crumbLoad' = None /\ crumbs' = shown.dir /\ shown'.dir = shown.dir
    BY <1>2, <1>3, DirectoryPageAssumption DEF Path, DirInv, LastPath
  <2> QED
    BY <1>1, <1>2, <2>1, FinishKeeps
<1>4. CASE crumbLoad # r
  <2>1. UNCHANGED <<crumbs, crumbLoad>> /\ shown'.dir = shown.dir
    BY <1>2, <1>4 DEF Path
  <2> QED
    BY <1>1, <1>2, <1>4, <2>1, FinishKeeps
<1> QED
  BY <1>3, <1>4

LEMMA ListFailsKeeps == ASSUME DirInv, NEW r \in Reqs, ListFails(r) PROVE DirInv'
<1>1. req[r].pc \in {"list", "path"} /\ Finish(r)
  BY DEF ListFails
<1>2. UNCHANGED <<url, target, shown, modal, trash>>
  BY DEF ListFails, serverVars
<1>3. crumbLoad # r /\ UNCHANGED <<crumbs, crumbLoad>> /\ shown'.dir = shown.dir
  BY DirectoryPageAssumption DEF ListFails, DirInv, LastPath
<1> QED
  BY <1>1, <1>2, <1>3, FinishKeeps

LEMMA DoneKeeps == ASSUME DirInv, NEW r \in Reqs, Done(r) PROVE DirInv'
<1> DEFINE j == req[r].item
           d == IF req[r].kind = "drag" THEN url ELSE req[r].dir
           q == [req[r] EXCEPT !.pc = "list", !.dir = d, !.skip = (req[r].kind # "drag")]
<1>1. /\ req[r] \in PageRequest /\ req[r].pc = "op" /\ j \in Items \cup {None}
      /\ d \in Dirs \cup {None}
  BY DEF Done, DirInv, Typed, PageRequest
<1>2. /\ req' = [req EXCEPT ![r] = q] /\ target' = d
      /\ UNCHANGED <<url, shown, crumbs, crumbLoad, undoing>>
  BY DEF Done, LoadDirectory
<1>3. /\ q \in PageRequest /\ q.pc = "list" /\ q.kind = req[r].kind /\ q.item = j
      /\ \A i \in Items \cup {None} : HasRight(q, i) <=> req[r].kind = "delete" /\ i = j
      /\ \A i \in Items \cup {None} : HasRight(req[r], i) <=> req[r].kind = "restore" /\ i = j
  BY <1>1 DEF PageRequest, HasRight
<1>4. /\ req[r].kind = "delete"  => trash' = trash \cup {j} /\ j \notin trash
      /\ req[r].kind = "restore" => trash' = trash \ {j}
      /\ req[r].kind \notin {"delete", "restore"} => trash' = trash
  BY DEF Done, Effect, Allowed, Moves
<1>5. /\ \A o \in offers' : o \in offers \/ o.kind = "back"
      /\ offers \subseteq offers' /\ offers' \subseteq Offer
  <2>1. offers' = IF req[r].kind = "modal" THEN offers \cup OfferOf(req[r]) ELSE offers
    BY DEF Done
  <2>2. req[r].kind = "modal" => OfferOf(req[r]) \subseteq {o \in Offer : o.kind = "back"}
    BY <1>1 DEF OfferOf, Offer, PageRequest
  <2>3. offers \subseteq Offer
    BY DEF DirInv, Typed
  <2> QED
    BY <2>1, <2>2, <2>3
<1>6. modal' \in [open : BOOLEAN, item : Items \cup {None}, selected : Dirs \cup {None}]
  <2>1. modal' = IF req[r].kind = "modal" THEN [modal EXCEPT !.open = FALSE] ELSE modal
    BY DEF Done
  <2> QED
    BY <2>1 DEF DirInv, Typed
<1>7. crumbLoad # r /\ UNCHANGED <<crumbs, crumbLoad>> /\ shown'.dir = shown.dir
  BY <1>1, <1>2, DirectoryPageAssumption DEF DirInv, LastPath
<1> HIDE DEF q, j, d
<1>8. Typed'
  BY <1>1, <1>2, <1>3, <1>5, <1>6 DEF DirInv, Typed
<1>9. req[r].pc # "idle" /\ q.pc # "idle" /\ undoing' = undoing
  BY <1>1, <1>2, <1>3
<1>10. IdleIsNone' /\ LastPath' /\ Crumbs' /\ OneBack'
  BY <1>2, <1>3, <1>7, <1>9, ProceedElse
<1>11. \A s \in Reqs : req'[s] = IF s = r THEN q ELSE req[s]
  BY <1>2 DEF DirInv, Typed
<1>12. \A o \in offers', i \in Items \cup {None} : Offers(o, i) => o \in offers
  BY <1>5 DEF Offers
<1>13. CASE req[r].kind = "delete"
  <2>1. trash' = trash \cup {j} /\ j \notin trash
    BY <1>4, <1>13
  <2>2. \A i \in Items \cup {None} : HasRight(q, i) <=> i = j
    BY <1>3, <1>13
  <2>3. OneRight'
    BY <1>1, <1>11, <1>12, <2>1, <2>2 DEF DirInv, OneRight
  <2> QED
    BY <1>8, <1>10, <2>3 DEF DirInv
<1>14. CASE req[r].kind # "delete"
  <2>1. \A i \in trash : i \in trash' \/ (req[r].kind = "restore" /\ i = j)
    <3>1. CASE req[r].kind = "restore"
      BY <1>4, <3>1
    <3>2. CASE req[r].kind # "restore"
      BY <1>4, <1>14, <3>2
    <3> QED
      BY <3>1, <3>2
  <2>2. \A s \in Reqs, i \in Items \cup {None} :
            HasRight(req'[s], i) => HasRight(req[s], i) /\ i \in trash'
    BY <1>3, <1>11, <1>14, <2>1 DEF DirInv, OneRight
  <2>3. \A o \in offers', i \in Items \cup {None} : Offers(o, i) => o \in offers /\ i \in trash'
    BY <1>3, <1>12, <2>1 DEF DirInv, OneRight
  <2>4. OneRight'
    BY <2>2, <2>3, RightsKept DEF DirInv
  <2> QED
    BY <1>8, <1>10, <2>4 DEF DirInv
<1> QED
  BY <1>13, <1>14

LEMMA UndoKeeps == ASSUME DirInv, NEW r \in Reqs, NEW o \in offers, Undo(r, o) PROVE DirInv'
<1> DEFINE q == [NoReq EXCEPT !.pc = "op", !.kind = o.kind, !.item = o.item, !.dir = o.dir, !.to = o.dir]
<1>1. o \in Offer /\ req[r].pc = "idle"
  BY DEF Undo, Free, DirInv, Typed
<1>2. /\ req' = [req EXCEPT ![r] = q] /\ offers' = offers \ {o}
      /\ undoing' = (undoing \/ o.kind = "back") /\ (o.kind = "back" => ~undoing)
      /\ UNCHANGED <<url, target, shown, crumbs, crumbLoad, modal, trash>>
  BY DEF Undo, Send, serverVars
<1>3. /\ q \in PageRequest /\ q.pc = "op" /\ q.kind = o.kind
      /\ \A i \in Items \cup {None} : HasRight(q, i) => Offers(o, i)
  BY <1>1 DEF PageRequest, NoReq, HasRight, Offers, Offer, Kinds, Moves, Cursors
<1> HIDE DEF q
<1>4. \A s \in Reqs : req'[s] = IF s = r THEN q ELSE req[s]
  BY <1>2 DEF DirInv, Typed
<1>5. Typed'
  BY <1>2, <1>3 DEF DirInv, Typed
<1>6. IdleIsNone' /\ LastPath' /\ Crumbs'
  BY <1>1, <1>2, <1>3, <1>4, DirectoryPageAssumption
     DEF DirInv, Typed, IdleIsNone, LastPath, Crumbs
<1>7. OneBack'
  <2>1. undoing \/ o.kind = "back" => undoing'
    BY <1>2
  <2>2. o.kind = "back" => \A s \in Reqs : req[s].kind # "back"
    BY <1>2 DEF DirInv, OneBack
  <2> QED
    BY <1>3, <1>4, <2>1, <2>2 DEF DirInv, OneBack
<1>8. OneRight'
  BY <1>2, <1>3, <1>4 DEF DirInv, OneRight
<1> QED
  BY <1>5, <1>6, <1>7, <1>8 DEF DirInv

-----------------------------------------------------------------------------
LEMMA DirNextKeeps == DirInv /\ [Next]_vars => DirInv'
<1> SUFFICES ASSUME DirInv, [Next]_vars PROVE DirInv'
  OBVIOUS
<1>1. ASSUME NEW r \in Reqs, Begin(r) PROVE DirInv'
  BY <1>1, NavigateKeeps, AddKeeps, DragKeeps, DeleteOrRenameKeeps, DropKeeps, UndoKeeps,
     LoadMoreKeeps, HandleMoveKeeps DEF Begin
<1>2. ASSUME NEW r \in Reqs, Continue(r) PROVE DirInv'
  BY <1>2, DoneKeeps, FailKeeps, ListKeeps, ListedKeeps, PathKeeps, ListFailsKeeps, ListMoreKeeps,
     ListedMoreKeeps, ListMoreFailsKeeps DEF Continue
<1>3. CASE UNCHANGED vars
  <2>1. /\ UNCHANGED <<url, target, shown, crumbs, crumbLoad, undoing, offers, modal, trash, req>>
        /\ offers' \subseteq offers
    BY <1>3 DEF vars
  <2>2. Typed'
    BY <2>1 DEF DirInv, Typed
  <2> QED
    BY <2>1, <2>2, StillKeeps
<1> QED
  BY <1>1, <1>2, <1>3, DismissKeeps, OpenModalKeeps, NavigateToKeeps, CloseModalKeeps DEF Next

LEMMA DirInvHolds == Spec => []DirInv
  BY DirInitOK, DirNextKeeps, PTL DEF Spec

\* Whatever loads of whatever directories are under way, and in whatever order they are
\* answered, the breadcrumbs end up with the contents (breadcrumbLoadIdRef).
THEOREM CrumbsCorrect == Spec => []CrumbsFollowContents
  BY DirInvGives, DirInvHolds, PTL

\* Toasts undo moves one at a time and never restore an item twice at once (isUndoingRef, and
\* the toast that goes away when it is clicked).
THEOREM NothingUndoneTwice == Spec => []UndoneOnce
  BY DirInvGives, DirInvHolds, PTL

-----------------------------------------------------------------------------
(* A user who waits for the answers.                                        *)

\* The contents of a directory up to the cursor c.
UpTo(d, c) == {i \in Content(d) : c = None \/ Order[i] <= Order[c]}

\* The page has what there is in the directory of the address.
ShowsUrl == shown.dir = url /\ shown.twice = {} /\ shown.items = UpTo(url, shown.next)

\* What a request that r makes or has made is about.
OfUrl(r)     == req[r].pc # "idle" => req[r].dir = url
PageIsDue(r) == req[r].pc = "listed" =>
                   req[r].page = FirstOf(Content(url)) /\ req[r].next = CursorOf(Content(url))
MoreIsDue(r) ==
    /\ req[r].pc \in {"more", "listedMore"} => shown.next # None /\ ShowsUrl
    /\ req[r].pc = "more" => req[r].next = shown.next
    /\ req[r].pc = "listedMore" =>
          /\ req[r].page = FirstOf(After(Content(url), shown.next))
          /\ req[r].next = CursorOf(After(Content(url), shown.next))

\* One request at a time, about the directory of the address, as the toasts are; the page
\* is wrong only while its list is loaded.
Awaited ==
    /\ target = url
    /\ \A o \in offers : o.dir = url
    /\ \A r, s \in Reqs : req[r].pc # "idle" /\ req[s].pc # "idle" => r = s
    /\ ~error /\ (\A r \in Reqs : req[r].pc \notin {"list", "listed"}) => ShowsUrl
    /\ \A r \in Reqs : OfUrl(r) /\ PageIsDue(r) /\ MoreIsDue(r)

LEMMA AwaitedGives == ASSUME patient => Awaited PROVE ShowsServer
BY DEF Awaited, ShowsServer, ShowsUrl, UpTo, Quiet

LEMMA AwaitedInit == Init => Awaited
<1> SUFFICES ASSUME Init PROVE Awaited
  OBVIOUS
<1>1. PICK t \in Reqs : req = [s \in Reqs |-> IF s = t THEN [NoReq EXCEPT !.pc = "list", !.dir = url]
                                                      ELSE NoReq]
  BY DEF Init
<1>2. /\ \A r \in Reqs : r # t => req[r].pc = "idle"
      /\ req[t].pc = "list" /\ req[t].dir = url
  BY <1>1 DEF NoReq
<1>3. target = url /\ offers = {}
  BY DEF Init
<1> QED
  BY <1>2, <1>3 DEF Awaited, OfUrl, PageIsDue, MoreIsDue

-----------------------------------------------------------------------------
\* The cursor of a list of items.
LEMMA CursorOfIsLast ==
    ASSUME NEW S \in SUBSET Items
    PROVE  IsCursor(S, FirstOf(S), Order, CursorOf(S), None)
<1> DEFINE P == FirstOf(S)
           c == CursorOf(S)
<1>1. /\ \A i \in S : Order[i] \in Nat
      /\ IsFiniteSet(S) /\ PageSize \in Nat \ {0} /\ None \notin S
  BY DirectoryPageAssumption, FS_Subset
<1>2. P = FirstRanked(S, Order, PageSize)
  BY DEF FirstOf, FirstRanked
<1>3. /\ S = P => c = None
      /\ S # P => c = LastItem(P)
  BY DEF CursorOf
<1> HIDE DEF P, c
<1>4. (\E l \in P : \A e \in P : Order[e] <= Order[l]) =>
         LastItem(P) \in P /\ \A e \in P : Order[e] <= Order[LastItem(P)]
  BY DEF LastItem
<1>5. IsCursor(S, P, Order, c, None)
  BY <1>1, <1>2, <1>3, <1>4, CursorIsLast
<1> QED
  BY <1>5 DEF P, c

LEMMA UpToIsSoFar == \A d, c : UpTo(d, c) = SoFar(Content(d), Order, c, None)
BY DEF UpTo, SoFar

LEMMA ContentTyped == \A d : Content(d) \in SUBSET Items /\ \A i \in Content(d) : Order[i] \in Nat
BY DirectoryPageAssumption DEF Content

LEMMA FirstPageShows == \A d : FirstOf(Content(d)) = UpTo(d, CursorOf(Content(d)))
<1> TAKE d
<1>1. IsCursor(Content(d), FirstOf(Content(d)), Order, CursorOf(Content(d)), None)
  BY ContentTyped, CursorOfIsLast
<1>2. FirstOf(Content(d)) = SoFar(Content(d), Order, CursorOf(Content(d)), None)
  BY <1>1, ContentTyped, FirstSoFar
<1> QED
  BY <1>2, UpToIsSoFar

LEMMA NextPageShows ==
    ASSUME NEW d, NEW c \in Items
    PROVE  LET S == After(Content(d), c) IN
           /\ UpTo(d, c) \cup FirstOf(S) = UpTo(d, CursorOf(S))
           /\ UpTo(d, c) \cap FirstOf(S) = {}
<1> DEFINE S == After(Content(d), c)
<1>1. c # None /\ Order[c] \in Nat
  BY DirectoryPageAssumption
<1>2. S = {i \in Content(d) : Order[i] > Order[c]} /\ S \in SUBSET Items
  BY <1>1, ContentTyped DEF After
<1> HIDE DEF S
<1>3. IsCursor(S, FirstOf(S), Order, CursorOf(S), None)
  BY <1>2, CursorOfIsLast
<1>4. IsCursor({i \in Content(d) : Order[i] > Order[c]}, FirstOf(S), Order, CursorOf(S), None)
  BY <1>2, <1>3
<1>5. /\ SoFar(Content(d), Order, c, None) \cup FirstOf(S) = SoFar(Content(d), Order, CursorOf(S), None)
      /\ SoFar(Content(d), Order, c, None) \cap FirstOf(S) = {}
  BY <1>1, <1>4, ContentTyped, NextSoFar
<1> QED
  BY <1>5, UpToIsSoFar DEF S

\* The cursors that are handed out are items.
LEMMA CursorsAreItems == Cursors \subseteq Items \cup {None}
<1>1. ASSUME NEW S \in SUBSET Items PROVE CursorOf(S) \in Items \cup {None}
  BY CursorOfIsLast DEF IsCursor
<1> QED
  BY <1>1 DEF Cursors

-----------------------------------------------------------------------------
\* What the page has stays right when neither it nor the server changes.
LEMMA SameShows ==
    ASSUME UNCHANGED <<place, trash, shown, url>>
    PROVE  /\ ShowsUrl => ShowsUrl'
           /\ \A r \in Reqs : req'[r] = req[r] =>
                 /\ OfUrl(r) => OfUrl(r)'
                 /\ PageIsDue(r) => PageIsDue(r)'
                 /\ MoreIsDue(r) => MoreIsDue(r)'
BY DEF ShowsUrl, UpTo, Content, OfUrl, PageIsDue, MoreIsDue

\* A request is sent to the server, or for more.
LEMMA BeginAwaited ==
    ASSUME DirInv, Awaited, Quiet, NEW r \in Reqs, NEW q \in PageRequest,
           req' = [req EXCEPT ![r] = q], q.dir = url,
           \/ q.pc = "op"
           \/ q.pc = "more" /\ ~error /\ shown.next # None /\ q.next = shown.next,
           offers' \subseteq offers,
           UNCHANGED <<place, trash, url, shown, error, target>>
    PROVE  Awaited'
<1>1. \A s \in Reqs : req'[s] = IF s = r THEN q ELSE req[s]
  BY DEF DirInv, Typed
<1>2. \A s \in Reqs \ {r} : req'[s].pc = "idle"
  BY <1>1 DEF Quiet
<1>3. ~error => ShowsUrl'
  <2>1. ~error => ShowsUrl
    BY DEF Awaited, Quiet
  <2> QED
    BY <2>1, SameShows
<1>4. \A s \in Reqs : OfUrl(s)' /\ PageIsDue(s)' /\ MoreIsDue(s)'
  BY <1>1, <1>2, <1>3 DEF OfUrl, PageIsDue, MoreIsDue
<1> QED
  BY <1>1, <1>2, <1>3, <1>4 DEF Awaited

\* A list is asked for, by a page that does nothing else.
LEMMA ListAwaited ==
    ASSUME DirInv, NEW r \in Reqs, NEW q, req' = [req EXCEPT ![r] = q], q.pc = "list", q.dir = url',
           \A s \in Reqs \ {r} : req[s].pc = "idle", target' = url', \A o \in offers' : o.dir = url'
    PROVE  Awaited'
<1>1. \A s \in Reqs : req'[s] = IF s = r THEN q ELSE req[s]
  BY DEF DirInv, Typed
<1>2. \A s \in Reqs : OfUrl(s)' /\ PageIsDue(s)' /\ MoreIsDue(s)'
  BY <1>1 DEF OfUrl, PageIsDue, MoreIsDue
<1> QED
  BY <1>1, <1>2 DEF Awaited

\* The request is over.
LEMMA EndAwaited ==
    ASSUME DirInv, NEW r \in Reqs, req' = [req EXCEPT ![r] = NoReq],
           \A s \in Reqs \ {r} : req[s].pc = "idle", target' = url', \A o \in offers' : o.dir = url',
           error' \/ ShowsUrl'
    PROVE  Awaited'
<1>1. \A s \in Reqs : req'[s].pc = "idle"
  BY DEF DirInv, Typed, NoReq
<1>2. \A s \in Reqs : OfUrl(s)' /\ PageIsDue(s)' /\ MoreIsDue(s)'
  BY <1>1 DEF OfUrl, PageIsDue, MoreIsDue
<1> QED
  BY <1>1, <1>2 DEF Awaited

\* Nothing of it changes.
LEMMA StillAwaited ==
    ASSUME Awaited, UNCHANGED <<place, trash, url, shown, error, target, req>>,
                                offers' \subseteq offers
    PROVE  Awaited'
<1>1. ASSUME NEW r \in Reqs PROVE OfUrl(r)' /\ PageIsDue(r)' /\ MoreIsDue(r)'
  <2>1. OfUrl(r) /\ PageIsDue(r) /\ MoreIsDue(r)
    BY DEF Awaited
  <2>2. req'[r] = req[r]
    OBVIOUS
  <2> QED
    BY <2>1, <2>2, SameShows
<1>2. ShowsUrl => ShowsUrl'
  BY SameShows
<1>3. \A o \in offers' : o.dir = url'
  BY DEF Awaited
<1> QED
  BY <1>1, <1>2, <1>3 DEF Awaited

-----------------------------------------------------------------------------
LEMMA NavigateAwaited ==
    ASSUME DirInv, Awaited, patient, NEW r \in Reqs, NEW d, Navigate(r, d)
    PROVE  Awaited'
<1> DEFINE q == [NoReq EXCEPT !.pc = "list", !.dir = d, !.skip = FALSE]
<1>1. q.pc = "list" /\ q.dir = d
  BY DEF NoReq
<1>2. /\ req' = [req EXCEPT ![r] = q] /\ url' = d /\ target' = d /\ offers' = {} /\ Quiet
  BY DEF Navigate, LoadDirectory, Ready
<1> HIDE DEF q
<1> QED
  BY <1>1, <1>2, ListAwaited DEF Quiet

LEMMA SendAwaited ==
    ASSUME DirInv, Awaited, Quiet, NEW r \in Reqs, NEW k \in Kinds, NEW i \in Items \cup {None},
           NEW d, NEW to \in Dirs \cup {None}, Send(r, k, i, d, to), d = url,
           offers' \subseteq offers, UNCHANGED <<place, trash, url, shown, error, target>>
    PROVE  Awaited'
<1> DEFINE q == [NoReq EXCEPT !.pc = "op", !.kind = k, !.item = i, !.dir = d, !.to = to]
<1>1. url \in Dirs
  BY DEF DirInv, Typed
<1>2. q \in PageRequest /\ q.pc = "op" /\ q.dir = url
  BY <1>1 DEF NoReq, PageRequest, Cursors, Kinds
<1>3. req' = [req EXCEPT ![r] = q]
  BY DEF Send
<1> HIDE DEF q
<1> QED
  BY <1>2, <1>3, BeginAwaited

LEMMA AddAwaited ==
    ASSUME DirInv, Awaited, patient, NEW r \in Reqs, NEW k \in Adds, NEW i \in Items, Add(r, k,
           i) PROVE Awaited'
BY SendAwaited DEF Add, Usable, Ready, serverVars, Kinds, Adds, DirInv, Typed

LEMMA DragAwaited ==
    ASSUME DirInv, Awaited, patient, NEW r \in Reqs, NEW i \in Items, Drag(r, i) PROVE Awaited'
BY SendAwaited DEF Drag, Ready, serverVars, Kinds, DirInv, Typed

LEMMA DeleteOrRenameAwaited ==
    ASSUME DirInv, Awaited, patient, NEW r \in Reqs, NEW k \in {"delete", "rename"},
           NEW i \in Items,
           DeleteOrRename(r, k, i)
    PROVE  Awaited'
BY SendAwaited DEF DeleteOrRename, Usable, Ready, serverVars, Kinds, DirInv, Typed

LEMMA DropAwaited ==
    ASSUME DirInv, Awaited, patient, NEW r \in Reqs, NEW i \in Items, NEW d \in Dirs, Drop(r, i, d)
    PROVE  Awaited'
BY SendAwaited DEF Drop, Usable, Ready, serverVars, Kinds, Moves, DirInv, Typed

LEMMA HandleMoveAwaited ==
    ASSUME DirInv, Awaited, patient, NEW r \in Reqs, HandleMove(r) PROVE Awaited'
BY SendAwaited DEF HandleMove, Ready, serverVars, Kinds, Moves, DirInv, Typed

LEMMA UndoAwaited ==
    ASSUME DirInv, Awaited, patient, NEW r \in Reqs, NEW o \in offers, Undo(r, o) PROVE Awaited'
<1>1. o.kind \in Kinds /\ o.item \in Items \cup {None} /\ o.dir \in Dirs \cup {None} /\ o.dir = url
  BY DEF DirInv, Typed, Offer, Kinds, Moves, Awaited
<1>2. /\ Send(r, o.kind, o.item, o.dir, o.dir) /\ offers' \subseteq offers /\ Quiet
      /\ UNCHANGED <<place, trash, url, shown, error, target>>
  BY DEF Undo, Ready, serverVars
<1> QED
  BY <1>1, <1>2, SendAwaited

LEMMA LoadMoreAwaited == ASSUME DirInv, Awaited, patient, NEW r \in Reqs, LoadMore(r) PROVE Awaited'
<1> DEFINE q == [NoReq EXCEPT !.pc = "more", !.dir = url, !.next = shown.next]
<1>1. q \in PageRequest /\ q.pc = "more" /\ q.dir = url /\ q.next = shown.next
  BY DEF NoReq, PageRequest, Kinds, DirInv, Typed
<1>2. /\ req' = [req EXCEPT ![r] = q] /\ Quiet /\ ~error /\ shown.next # None
      /\ UNCHANGED <<place, trash, url, shown, error, target, offers>>
  BY DEF LoadMore, Visible, Ready, serverVars
<1> HIDE DEF q
<1> QED
  BY <1>1, <1>2, BeginAwaited

-----------------------------------------------------------------------------
LEMMA OthersWait ==
    ASSUME Awaited, NEW r \in Reqs, req[r].pc # "idle"
    PROVE  req[r].dir = url /\ \A s \in Reqs \ {r} : req[s].pc = "idle"
BY DEF Awaited, OfUrl

LEMMA DoneAwaited == ASSUME DirInv, Awaited, NEW r \in Reqs, Done(r) PROVE Awaited'
<1> DEFINE d == IF req[r].kind = "drag" THEN url ELSE req[r].dir
           q == [req[r] EXCEPT !.pc = "list", !.dir = d, !.skip = (req[r].kind # "drag")]
<1>1. req[r] \in PageRequest /\ req[r].pc = "op"
  BY DEF Done, DirInv, Typed
<1>2. /\ req' = [req EXCEPT ![r] = q] /\ target' = d /\ url' = url
  BY DEF Done, LoadDirectory
<1>3. d = url /\ \A s \in Reqs \ {r} : req[s].pc = "idle"
  BY <1>1, OthersWait
<1>4. q.pc = "list" /\ q.dir = url
  BY <1>1, <1>3 DEF PageRequest
<1>5. \A o \in offers' : o.dir = url
  <2>1. \A o \in OfferOf(req[r]) : o.dir = url
    BY <1>1, OthersWait DEF OfferOf
  <2> QED
    BY <2>1 DEF Done, Awaited
<1> HIDE DEF q, d
<1> QED
  BY <1>2, <1>3, <1>4, <1>5, ListAwaited

LEMMA FailAwaited == ASSUME DirInv, Awaited, patient, NEW r \in Reqs, Fail(r) PROVE Awaited'
<1>1. /\ req[r].pc = "op" /\ req' = [req EXCEPT ![r] = NoReq]
      /\ error' = (error \/ req[r].kind \in {"create", "delete"})
      /\ UNCHANGED <<place, trash, url, shown, target, offers>>
  BY DEF Fail, serverVars
<1>2. \A s \in Reqs \ {r} : req[s].pc = "idle"
  BY <1>1, OthersWait
<1>3. ~error => ShowsUrl
  BY <1>1, <1>2 DEF Awaited
<1>4. error' \/ ShowsUrl'
  BY <1>1, <1>3, SameShows
<1> QED
  BY <1>1, <1>2, <1>4, EndAwaited DEF Awaited

LEMMA ListAnswerAwaited == ASSUME DirInv, Awaited, NEW r \in Reqs, List(r) PROVE Awaited'
<1> DEFINE P == FirstOf(Content(req[r].dir))
           c == CursorOf(Content(req[r].dir))
<1>1. /\ req[r].pc = "list" /\ req' = [req EXCEPT ![r].pc = "listed", ![r].page = P, ![r].next = c]
      /\ UNCHANGED <<place, trash, url, shown, error, target, offers>>
  BY DEF List, serverVars
<1>2. req[r].dir = url /\ \A s \in Reqs \ {r} : req[s].pc = "idle"
  BY <1>1, OthersWait
<1>3. P = FirstOf(Content(url)) /\ c = CursorOf(Content(url))
  BY <1>2
<1> HIDE DEF P, c
<1>4. /\ req'[r].pc = "listed" /\ req'[r].page = P /\ req'[r].next = c /\ req'[r].dir = url
      /\ \A s \in Reqs \ {r} : req'[s].pc = "idle"
  BY <1>1, <1>2 DEF DirInv, Typed, PageRequest
<1>5. PageIsDue(r)'
  <2>1. Content(url)' = Content(url)
    BY <1>1 DEF Content
  <2> QED
    BY <1>1, <1>3, <1>4, <2>1 DEF PageIsDue
<1>6. \A s \in Reqs : OfUrl(s)' /\ PageIsDue(s)' /\ MoreIsDue(s)'
  BY <1>1, <1>4, <1>5 DEF OfUrl, PageIsDue, MoreIsDue
<1> QED
  BY <1>1, <1>4, <1>6 DEF Awaited

LEMMA ListedAwaited == ASSUME DirInv, Awaited, NEW r \in Reqs, Listed(r) PROVE Awaited'
<1>1. /\ req[r].pc = "listed" /\ req' = [req EXCEPT ![r].pc = "path"]
      /\ shown' = [dir |-> req[r].dir, items |-> req[r].page, twice |-> {}, next |-> req[r].next]
      /\ UNCHANGED <<place, trash, url, error, target, offers>>
  BY DEF Listed, serverVars
<1>2. /\ req[r].dir = url /\ \A s \in Reqs \ {r} : req[s].pc = "idle"
      /\ req[r].page = UpTo(url, req[r].next)
  BY <1>1, OthersWait, FirstPageShows DEF Awaited, PageIsDue
<1>3. ShowsUrl'
  BY <1>1, <1>2 DEF ShowsUrl, UpTo, Content
<1>4. /\ req'[r].pc = "path" /\ req'[r].dir = url
      /\ \A s \in Reqs \ {r} : req'[s].pc = "idle"
  BY <1>1, <1>2 DEF DirInv, Typed, PageRequest
<1>5. \A s \in Reqs : OfUrl(s)' /\ PageIsDue(s)' /\ MoreIsDue(s)'
  BY <1>1, <1>4 DEF OfUrl, PageIsDue, MoreIsDue
<1> QED
  BY <1>1, <1>3, <1>4, <1>5 DEF Awaited

LEMMA FinishAwaited ==
    ASSUME DirInv, Awaited, NEW r \in Reqs, req[r].pc # "idle", Finish(r),
           UNCHANGED <<place, trash, url, shown, target>>, error' \/ ShowsUrl
    PROVE  Awaited'
<1>1. req[r].dir = url /\ \A s \in Reqs \ {r} : req[s].pc = "idle"
  BY OthersWait
<1>2. /\ req' = [req EXCEPT ![r] = NoReq]
      /\ \A o \in offers' : o.dir = url
  BY <1>1 DEF Finish, OfferOf, Awaited
<1>3. error' \/ ShowsUrl'
  BY SameShows
<1> QED
  BY <1>1, <1>2, <1>3, EndAwaited DEF Awaited

LEMMA PathAwaited == ASSUME DirInv, Awaited, NEW r \in Reqs, Path(r) PROVE Awaited'
<1>1. /\ req[r].pc = "path" /\ Finish(r)
      /\ UNCHANGED <<place, trash, url, shown, target, error>>
  BY DEF Path, serverVars
<1>2. error \/ ShowsUrl
  BY <1>1, OthersWait DEF Awaited
<1> QED
  BY <1>1, <1>2, FinishAwaited

LEMMA ListFailsAwaited == ASSUME DirInv, Awaited, NEW r \in Reqs, ListFails(r) PROVE Awaited'
BY FinishAwaited DEF ListFails, serverVars

LEMMA ListMoreAwaited == ASSUME DirInv, Awaited, NEW r \in Reqs, ListMore(r) PROVE Awaited'
<1> DEFINE P == FirstOf(After(Content(req[r].dir), req[r].next))
           c == CursorOf(After(Content(req[r].dir), req[r].next))
<1>1. /\ req[r].pc = "more" /\ req' = [req EXCEPT ![r].pc = "listedMore", ![r].page = P, ![r].next = c]
      /\ UNCHANGED <<place, trash, url, shown, error, target, offers>>
  BY DEF ListMore, serverVars
<1>2. /\ req[r].dir = url /\ \A s \in Reqs \ {r} : req[s].pc = "idle"
      /\ req[r].next = shown.next /\ shown.next # None /\ ShowsUrl
  BY <1>1, OthersWait DEF Awaited, MoreIsDue
<1>3. P = FirstOf(After(Content(url), shown.next)) /\ c = CursorOf(After(Content(url), shown.next))
  BY <1>2
<1> HIDE DEF P, c
<1>4. /\ req'[r].pc = "listedMore" /\ req'[r].page = P /\ req'[r].next = c /\ req'[r].dir = url
      /\ \A s \in Reqs \ {r} : req'[s].pc = "idle"
  BY <1>1, <1>2 DEF DirInv, Typed, PageRequest
<1>5. Content(url)' = Content(url) /\ ShowsUrl'
  BY <1>1, <1>2, SameShows DEF Content
<1>6. MoreIsDue(r)'
  BY <1>1, <1>2, <1>3, <1>4, <1>5 DEF MoreIsDue, After
<1>7. \A s \in Reqs : OfUrl(s)' /\ PageIsDue(s)' /\ MoreIsDue(s)'
  BY <1>1, <1>4, <1>6 DEF OfUrl, PageIsDue, MoreIsDue
<1> QED
  BY <1>1, <1>4, <1>5, <1>7 DEF Awaited

LEMMA ListedMoreAwaited == ASSUME DirInv, Awaited, NEW r \in Reqs, ListedMore(r) PROVE Awaited'
<1> DEFINE c == shown.next
           S == After(Content(url), c)
<1>1. /\ req[r].pc = "listedMore" /\ req' = [req EXCEPT ![r] = NoReq]
      /\ shown' = [shown EXCEPT !.items = @ \cup req[r].page, !.next = req[r].next,
                                !.twice = @ \cup (shown.items \cap req[r].page)]
      /\ UNCHANGED <<place, trash, url, error, target, offers>>
  BY DEF ListedMore, serverVars
<1>2. /\ \A s \in Reqs \ {r} : req[s].pc = "idle"
      /\ req[r].page = FirstOf(S) /\ req[r].next = CursorOf(S)
      /\ c # None /\ ShowsUrl
  BY <1>1, OthersWait DEF Awaited, MoreIsDue
<1>3. c \in Items
  BY <1>2, CursorsAreItems DEF DirInv, Typed
<1>4. UpTo(url, c) \cup FirstOf(S) = UpTo(url, CursorOf(S)) /\ UpTo(url, c) \cap FirstOf(S) = {}
  BY <1>3, NextPageShows
<1>5. /\ shown'.dir = shown.dir /\ shown'.items = shown.items \cup req[r].page
      /\ shown'.next = req[r].next /\ shown'.twice = shown.twice \cup (shown.items \cap req[r].page)
  BY <1>1 DEF DirInv, Typed
<1>6. /\ shown'.dir = url /\ shown'.twice = {} /\ shown'.items = UpTo(url, shown'.next)
  BY <1>2, <1>4, <1>5 DEF ShowsUrl
<1>7. ShowsUrl'
  BY <1>1, <1>6 DEF ShowsUrl, UpTo, Content
<1> QED
  BY <1>1, <1>2, <1>7, EndAwaited DEF Awaited

LEMMA ListMoreFailsAwaited ==
    ASSUME DirInv, Awaited, NEW r \in Reqs, ListMoreFails(r)
    PROVE  Awaited'
<1>1. /\ req[r].pc = "more" /\ req' = [req EXCEPT ![r] = NoReq]
      /\ UNCHANGED <<place, trash, url, shown, error, target, offers>>
  BY DEF ListMoreFails, serverVars
<1>2. ShowsUrl' /\ \A s \in Reqs \ {r} : req[s].pc = "idle"
  BY <1>1, OthersWait, SameShows DEF Awaited, MoreIsDue
<1> QED
  BY <1>1, <1>2, EndAwaited DEF Awaited

LEMMA DismissAwaited == ASSUME Awaited, NEW o, Dismiss(o) PROVE Awaited'
BY StillAwaited DEF Dismiss, serverVars

LEMMA ModalAwaited ==
    ASSUME Awaited, (\E i \in Items : OpenModal(i)) \/ (\E d \in Dirs : NavigateTo(d)) \/ CloseModal
    PROVE  Awaited'
BY StillAwaited DEF OpenModal, NavigateTo, CloseModal, serverVars

-----------------------------------------------------------------------------
LEMMA PatientStays == [Next]_vars => patient' = patient
BY DEF Next, vars, Begin, Continue, Navigate, Add, Drag, DeleteOrRename, Drop, Undo,
       Dismiss, Done, Fail,
       List, Listed, Path, ListFails, LoadMore, ListMore, ListedMore, ListMoreFails, OpenModal,
       NavigateTo, HandleMove, CloseModal, rest

LEMMA AwaitedStays == DirInv /\ (patient => Awaited) /\ [Next]_vars => (patient' => Awaited')
<1> SUFFICES ASSUME DirInv, Awaited, patient, [Next]_vars PROVE Awaited'
  BY PatientStays
<1>1. ASSUME NEW r \in Reqs, Begin(r) PROVE Awaited'
  BY <1>1, NavigateAwaited, AddAwaited, DragAwaited, DeleteOrRenameAwaited, DropAwaited,
     UndoAwaited,
     LoadMoreAwaited, HandleMoveAwaited DEF Begin
<1>2. ASSUME NEW r \in Reqs, Continue(r) PROVE Awaited'
  BY <1>2, DoneAwaited, FailAwaited, ListAnswerAwaited, ListedAwaited, PathAwaited,
     ListFailsAwaited,
     ListMoreAwaited, ListedMoreAwaited, ListMoreFailsAwaited DEF Continue
<1>3. CASE UNCHANGED vars
  BY <1>3, StillAwaited DEF vars
<1> QED
  BY <1>1, <1>2, <1>3, DismissAwaited, ModalAwaited DEF Next

LEMMA AwaitedHolds == Spec => [](patient => Awaited)
<1>1. Init => (patient => Awaited)
  BY AwaitedInit
<1> QED
  BY <1>1, AwaitedStays, DirInvHolds, PTL DEF Spec

\* For a user who waits for the answers, the page shows the directory of the address as the
\* server has it up to the cursor, whatever is added, moved, deleted, undone or loaded further.
THEOREM ShowsServerHolds == Spec => []ShowsServer
BY AwaitedHolds, AwaitedGives, PTL

-----------------------------------------------------------------------------
(* SharedViews.                                                            *)

GetsOK == get = [k \in Gets |-> get[k]]

\* The directory of the address is there, up to the cursor.
PathLoaded ==
    /\ data = Folder(path) /\ trail = path
    /\ docs = {d \in Docs : FolderOf[d] = data
                          /\ (docsCursor = NoDoc \/ DocRank[d] <= DocRank[docsCursor])}

Locked == secret /\ saved # "right"

\* SharePage has one request under way: the first, which knows of no password, or that of
\* the form.
FileSettles == view = "file" =>
    /\ path = <<>> /\ saved = "none" /\ (needsPassword => secret) /\ (data = NoFolder \/ PathLoaded)
    /\ \A j, k \in Gets : get[j].pc # "idle" /\ get[k].pc # "idle" => j = k
    /\ \A k \in Gets : get[k].pc # "idle" =>
          /\ get[k].pc = "fetch" /\ get[k].path = path
          /\ IF get[k].given THEN FormShown /\ ~get[k].gate
                             ELSE data = NoFolder /\ get[k].gate
    /\ GuestQuiet /\ ~failed /\ data = NoFolder => FormShown

\* What SharedDirectoryPage has under way is about the address, with the password that
\* was saved.
DirectorySettles == view = "directory" =>
    /\ saved \in Passwords /\ (Locked => data = NoFolder)
    /\ \A k \in Gets : get[k].pc # "idle" =>
          /\ get[k].path = path /\ get[k].password = saved
          /\ get[k].pc = "fetch" => (get[k].gate <=> saved = "none")
          /\ get[k].pc # "fetch" =>
                /\ get[k].pc = "more" /\ PathLoaded /\ ~Locked
                /\ get[k].from = docsCursor /\ docsCursor # NoDoc
                /\ \A j \in Gets \ {k} : get[j].pc = "idle"
    /\ GuestQuiet /\ ~failed => IF Locked THEN FormShown \/ saved = "wrong" ELSE PathLoaded

ViewInv ==
    /\ view \in {"file", "directory"} /\ docsCursor \in Docs \cup {NoDoc} /\ password \in Passwords
    /\ GetsOK
    /\ guestWaits => FileSettles /\ DirectorySettles

-----------------------------------------------------------------------------
(* SharedViews.                                                            *)

DocsSoFar(f, c) == {d \in Docs : FolderOf[d] = f /\ (c = NoDoc \/ DocRank[d] <= DocRank[c])}
DocsOf(f)       == {d \in Docs : FolderOf[d] = f}

LEMMA SoFarOfFolder ==
    ASSUME NEW f, NEW c
    PROVE  DocsSoFar(f, c) = SoFar(DocsOf(f), DocRank, c, NoDoc)
BY DEF DocsSoFar, SoFar, DocsOf

LEMMA NextCursorIsLast ==
    ASSUME NEW S \in SUBSET Docs
    PROVE  IsCursor(S, FirstDocs(S), DocRank, NextCursor(S), NoDoc)
<1> DEFINE P == FirstDocs(S)
           c == NextCursor(S)
<1>1. /\ \A i \in S : DocRank[i] \in Nat
      /\ IsFiniteSet(S) /\ DocLimit \in Nat \ {0} /\ NoDoc \notin S
  BY SharedViewsAssumption, FS_Subset
<1>2. P = FirstRanked(S, DocRank, DocLimit)
  BY DEF FirstDocs, FirstRanked
<1>3. /\ S = P => c = NoDoc
      /\ S # P => c = LastDoc(P)
  BY DEF NextCursor
<1> HIDE DEF P, c
<1>4. (\E l \in P : \A e \in P : DocRank[e] <= DocRank[l]) =>
         LastDoc(P) \in P /\ \A e \in P : DocRank[e] <= DocRank[LastDoc(P)]
  BY DEF LastDoc
<1>5. IsCursor(S, P, DocRank, c, NoDoc)
  BY <1>1, <1>2, <1>3, <1>4, CursorIsLast
<1> QED
  BY <1>5 DEF P, c

LEMMA NextCursorTyped == ASSUME NEW S \in SUBSET Docs PROVE NextCursor(S) \in Docs \cup {NoDoc}
BY NextCursorIsLast DEF IsCursor

\* The first page of a folder.
LEMMA FirstPage ==
    ASSUME NEW f
    PROVE  LET all == Beyond(f, NoDoc) IN
           NextCursor(all) \in Docs \cup {NoDoc} /\ FirstDocs(all) = DocsSoFar(f, NextCursor(all))
<1> DEFINE all == Beyond(f, NoDoc)
<1>1. all = DocsOf(f) /\ all \in SUBSET Docs
  BY DEF Beyond, DocsOf
<1> HIDE DEF all
<1>2. IsCursor(all, FirstDocs(all), DocRank, NextCursor(all), NoDoc)
  BY <1>1, NextCursorIsLast
<1>3. NextCursor(all) \in Docs \cup {NoDoc}
  BY <1>1, <1>2 DEF IsCursor
<1>4. \A i \in all : DocRank[i] \in Nat
  BY <1>1, SharedViewsAssumption
<1>5. FirstDocs(all) = SoFar(all, DocRank, NextCursor(all), NoDoc)
  BY <1>2, <1>4, FirstSoFar
<1>6. FirstDocs(all) = DocsSoFar(f, NextCursor(all))
  BY <1>1, <1>5, SoFarOfFolder
<1> QED
  BY <1>3, <1>6 DEF all

\* The next one is appended.
LEMMA NextPage ==
    ASSUME NEW f, NEW c \in Docs
    PROVE  LET further == Beyond(f, c) IN
           /\ NextCursor(further) \in Docs \cup {NoDoc}
           /\ DocsSoFar(f, c) \cup FirstDocs(further) = DocsSoFar(f, NextCursor(further))
<1> DEFINE further == Beyond(f, c)
<1>1. /\ c # NoDoc /\ DocRank[c] \in Nat
      /\ \A i \in DocsOf(f) : DocRank[i] \in Nat
  BY SharedViewsAssumption DEF DocsOf
<1>2. /\ further = {i \in DocsOf(f) : DocRank[i] > DocRank[c]}
      /\ further \in SUBSET Docs
  BY <1>1 DEF Beyond, DocsOf
<1> HIDE DEF further
<1>3. IsCursor(further, FirstDocs(further), DocRank, NextCursor(further), NoDoc)
  BY <1>2, NextCursorIsLast
<1>4. NextCursor(further) \in Docs \cup {NoDoc}
  BY <1>2, <1>3 DEF IsCursor
<1>5. SoFar(DocsOf(f), DocRank, c, NoDoc) \cup FirstDocs(further)
      = SoFar(DocsOf(f), DocRank, NextCursor(further), NoDoc)
  <2>1. IsCursor({i \in DocsOf(f) : DocRank[i] > DocRank[c]}, FirstDocs(further), DocRank,
                 NextCursor(further), NoDoc)
    BY <1>2, <1>3
  <2> QED
    BY <1>1, <2>1, NextSoFar
<1> QED
  BY <1>4, <1>5, SoFarOfFolder DEF further

-----------------------------------------------------------------------------
LEMMA FetchSlot ==
    ASSUME GetsOK, NEW k \in Gets, NEW p, NEW pw, Fetch(k, p, pw)
    PROVE  /\ GetsOK' /\ \A j \in Gets \ {k} : get'[j] = get[j]
           /\ get'[k].pc = "fetch" /\ get'[k].path = p /\ get'[k].password = pw
           /\ get'[k].gate = (pw = "none") /\ get'[k].given = FALSE
BY DEF Fetch, NoGet, GetsOK

\* An answer ends its request.
LEMMA EndSlot ==
    ASSUME GetsOK, NEW k \in Gets, get' = [get EXCEPT ![k] = NoGet]
    PROVE  /\ GetsOK' /\ \A j \in Gets \ {k} : get'[j] = get[j]
           /\ get'[k].pc = "idle"
BY DEF NoGet, GetsOK

LEMMA ViewInitOK == ViewInit => ViewInv
<1> SUFFICES ASSUME ViewInit PROVE ViewInv
  OBVIOUS
<1>1. PICK k \in Gets : get = [j \in Gets |-> IF j = k THEN
            [NoGet EXCEPT !.pc = "fetch", !.path = path, !.gate = TRUE] ELSE NoGet]
  BY DEF ViewInit
<1>2. /\ \A j \in Gets \ {k} : get[j].pc = "idle"
      /\ get[k].pc = "fetch" /\ get[k].path = path /\ get[k].gate = TRUE /\ get[k].given = FALSE
      /\ get[k].password = "none"
  BY <1>1 DEF NoGet
<1>3. GetsOK
  BY <1>1 DEF GetsOK
<1>4. FileSettles
  BY <1>2 DEF ViewInit, FileSettles, GuestQuiet
<1>5. DirectorySettles
  BY <1>2 DEF ViewInit, DirectorySettles, GuestQuiet, Passwords
<1> QED
  BY <1>3, <1>4, <1>5 DEF ViewInv, ViewInit, Passwords

LEMMA ViewInvGives == ViewInv => ViewFollowsAddress
<1> SUFFICES ASSUME ViewInv, guestWaits, GuestQuiet, ~failed PROVE ViewFollowsAddress
  BY DEF ViewFollowsAddress
<1>1. CASE view = "file"
  BY <1>1 DEF ViewInv, FileSettles, ViewFollowsAddress, PathLoaded, FormShown
<1>2. CASE view = "directory"
  BY <1>2 DEF ViewInv, DirectorySettles, ViewFollowsAddress, PathLoaded, Locked
<1> QED
  BY <1>1, <1>2 DEF ViewInv

-----------------------------------------------------------------------------
(* Requests are sent.                                                      *)

\* The contents of a directory are shown: those of the address.
LEMMA ShownIsLoaded ==
    ASSUME ViewInv, guestWaits, GuestReady, DirectoryShown
    PROVE  ~Locked /\ PathLoaded
BY DEF ViewInv, DirectorySettles, DirectoryShown, GuestReady

LEMMA RefetchKeeps ==
    ASSUME ViewInv, NEW k \in Gets, view = "directory", GuestReady, Refetch(k, path'),
           UNCHANGED fixed
    PROVE  ViewInv'
<1>1. /\ docsCursor' = docsCursor /\ saved' = saved /\ data' = (IF saved = "none" THEN NoFolder ELSE data)
      /\ Fetch(k, path', saved) /\ password' \in Passwords
      /\ view' = "directory" /\ secret' = secret /\ guestWaits' = guestWaits
  BY DEF Refetch, fixed, Passwords
<1>2. /\ GetsOK' /\ \A j \in Gets \ {k} : get'[j] = get[j]
      /\ get'[k].pc = "fetch" /\ get'[k].path = path' /\ get'[k].password = saved
      /\ get'[k].gate = (saved = "none")
  BY <1>1 DEF ViewInv, Fetch, NoGet, GetsOK
<1>3. ASSUME guestWaits PROVE DirectorySettles'
  <2>1. \A j \in Gets \ {k} : get'[j].pc = "idle"
    BY <1>2, <1>3 DEF GuestReady, GuestQuiet
  <2>2. saved' \in Passwords /\ (Locked' => data' = NoFolder)
    BY <1>1, <1>3 DEF ViewInv, DirectorySettles, Locked
  <2>3. ~GuestQuiet'
    BY <1>2 DEF GuestQuiet
  <2> QED
    BY <1>1, <1>2, <2>1, <2>2, <2>3 DEF DirectorySettles
<1>4. FileSettles'
  BY <1>1 DEF FileSettles
<1> QED
  BY <1>1, <1>2, <1>3, <1>4 DEF ViewInv

LEMMA RenewTokenKeeps == ASSUME ViewInv, NEW k \in Gets, RenewToken(k) PROVE ViewInv'
<1>1. CASE view = "directory" /\ Refetch(k, path)
  BY <1>1, RefetchKeeps DEF RenewToken, GuestReady
<1>2. CASE view = "file" /\ Fetch(k, <<>>, "none") /\ UNCHANGED fetched
  <2>1. view' = "file" /\ ~guestWaits' /\ docsCursor' = docsCursor /\ password' = password
    BY <1>2 DEF RenewToken, fetched, fixed, form
  <2> QED
    BY <1>2, <2>1, FetchSlot DEF ViewInv
<1> QED
  BY <1>1, <1>2 DEF RenewToken

LEMMA EnterKeeps == ASSUME ViewInv, NEW k \in Gets, NEW g, Enter(k, g) PROVE ViewInv'
BY RefetchKeeps DEF Enter, DirectoryShown

LEMMA GoBackKeeps == ASSUME ViewInv, NEW k \in Gets, GoBack(k) PROVE ViewInv'
BY RefetchKeeps DEF GoBack

LEMMA ClimbKeeps == ASSUME ViewInv, NEW k \in Gets, NEW i, Climb(k, i) PROVE ViewInv'
<1>1. CASE path' # path
  BY <1>1, RefetchKeeps DEF Climb, DirectoryShown
<1>2. CASE path' = path
  <2>1. /\ view = "directory" /\ i < Len(trail) /\ DirectoryShown /\ GuestReady
        /\ path' = (IF i < Len(path) THEN SubSeq(path, 1, i) ELSE path) /\ trail' = SubSeq(trail, 1, i)
        /\ UNCHANGED <<view, secret, guestWaits, data, docs, docsCursor, failed, needsPassword,
                       password, saved, get>>
    BY <1>2 DEF Climb, fixed, form, DirectoryShown
  <2>2. guestWaits => trail' = path'
    <3>1. guestWaits => trail = path
      BY <2>1, ShownIsLoaded DEF PathLoaded
    <3> QED
      BY <2>1, <3>1
  <2>3. ASSUME guestWaits PROVE DirectorySettles'
    <3>1. PathLoaded => PathLoaded'
      BY <1>2, <2>1, <2>2, <2>3 DEF PathLoaded
    <3> QED
      BY <1>2, <2>1, <2>3, <3>1 DEF ViewInv, DirectorySettles, Locked, GuestQuiet, FormShown
  <2> QED
    BY <2>1, <2>3 DEF ViewInv, FileSettles, GetsOK
<1> QED
  BY <1>1, <1>2

LEMMA TypeKeeps == ASSUME ViewInv, NEW pw \in Passwords, Type(pw) PROVE ViewInv'
<1>1. /\ UNCHANGED <<view, secret, guestWaits, path, data, docs, docsCursor, trail, failed,
                     needsPassword,
                     saved, get>>
      /\ password' \in Passwords
  BY DEF Type, fixed, fetched, waiting
<1>2. FileSettles => FileSettles'
  BY <1>1 DEF FileSettles, PathLoaded, GuestQuiet, FormShown
<1>3. DirectorySettles => DirectorySettles'
  BY <1>1 DEF DirectorySettles, PathLoaded, GuestQuiet, FormShown, Locked
<1> QED
  BY <1>1, <1>2, <1>3 DEF ViewInv, GetsOK

LEMMA SubmitForFileKeeps == ASSUME ViewInv, NEW k \in Gets, SubmitForFile(k) PROVE ViewInv'
<1>1. /\ view = "file" /\ FormShown /\ GuestReady
      /\ get' = [get EXCEPT ![k] = [NoGet EXCEPT !.pc = "fetch", !.password = password, !.given = TRUE]]
      /\ UNCHANGED <<view, secret, guestWaits, path, data, docs, docsCursor, trail, failed,
                     needsPassword,
                     password, saved>>
  BY DEF SubmitForFile, fixed, fetched, waiting
<1>2. /\ GetsOK' /\ \A j \in Gets \ {k} : get'[j] = get[j]
      /\ get'[k].pc = "fetch" /\ get'[k].path = <<>> /\ get'[k].given = TRUE /\ get'[k].gate = FALSE
  BY <1>1 DEF ViewInv, NoGet, GetsOK
<1>3. ASSUME guestWaits PROVE FileSettles'
  <2>1. \A j \in Gets \ {k} : get'[j].pc = "idle"
    BY <1>1, <1>2, <1>3 DEF GuestReady, GuestQuiet
  <2> QED
    BY <1>1, <1>2, <1>3, <2>1 DEF ViewInv, FileSettles, PathLoaded, FormShown, GuestQuiet
<1> QED
  BY <1>1, <1>2, <1>3 DEF ViewInv, DirectorySettles

LEMMA SubmitForDirectoryKeeps ==
    ASSUME ViewInv, NEW k \in Gets, NEW j \in Gets, SubmitForDirectory(k, j)
    PROVE  ViewInv'
<1> DEFINE sent == [NoGet EXCEPT !.pc = "fetch", !.path = path, !.password = password]
<1>1. /\ view = "directory" /\ FormShown /\ GuestReady /\ password # "none" /\ k # j
      /\ get' = [get EXCEPT ![k] = [sent EXCEPT !.given = TRUE],
                            ![j] = IF password = saved THEN @ ELSE sent]
      /\ saved' = password /\ password' \in {password, "none"}
      /\ UNCHANGED <<view, secret, guestWaits, path, data, docs, docsCursor, trail>>
  BY DEF SubmitForDirectory, fixed, fetched
<1>2. /\ GetsOK' /\ \A h \in Gets \ {k, j} : get'[h] = get[h]
      /\ get'[k] = [sent EXCEPT !.given = TRUE]
      /\ get'[j] = IF password = saved THEN get[j] ELSE sent
  BY <1>1 DEF ViewInv, GetsOK
<1>3. ASSUME guestWaits PROVE DirectorySettles'
  <2>1. ASSUME NEW q, q \in {sent, [sent EXCEPT !.given = TRUE]}
        PROVE  q.pc = "fetch" /\ q.path = path /\ q.password = password /\ q.gate = FALSE
    BY <2>1 DEF NoGet
  <2> HIDE DEF sent
  <2>2. \A h \in Gets : get'[h].pc = "idle" \/ get'[h] \in {sent, [sent EXCEPT !.given = TRUE]}
    BY <1>1, <1>2, <1>3 DEF GuestReady, GuestQuiet
  <2>3. get'[k].pc = "fetch"
    BY <1>2, <2>1
  <2>4. ~GuestQuiet'
    BY <2>3 DEF GuestQuiet
  <2> QED
    BY <1>1, <1>3, <2>1, <2>4, <2>2 DEF ViewInv, DirectorySettles, FormShown
<1> QED
  BY <1>1, <1>2, <1>3 DEF ViewInv, FileSettles, Passwords

LEMMA MoreDocsKeeps == ASSUME ViewInv, NEW k \in Gets, MoreDocs(k) PROVE ViewInv'
<1>1. /\ view = "directory" /\ DirectoryShown /\ GuestReady /\ docsCursor # NoDoc
      /\ get' = [get EXCEPT ![k] = [NoGet EXCEPT !.pc = "more", !.path = path, !.password = saved,
                                                 !.from = docsCursor]]
      /\ UNCHANGED <<view, secret, guestWaits, path, data, docs, docsCursor, trail, failed,
                     needsPassword,
                     password, saved>>
  BY DEF MoreDocs, fixed, fetched, form, DirectoryShown
<1>2. /\ GetsOK' /\ \A j \in Gets \ {k} : get'[j] = get[j]
      /\ get'[k].pc = "more" /\ get'[k].path = path
      /\ get'[k].password = saved /\ get'[k].from = docsCursor
  BY <1>1 DEF ViewInv, NoGet, GetsOK
<1>3. ASSUME guestWaits PROVE DirectorySettles'
  <2>1. ~Locked' /\ PathLoaded'
    BY <1>1, <1>3, ShownIsLoaded DEF Locked, PathLoaded
  <2>2. \A j \in Gets \ {k} : get'[j].pc = "idle"
    BY <1>1, <1>2, <1>3 DEF GuestReady, GuestQuiet
  <2>3. ~GuestQuiet'
    BY <1>2 DEF GuestQuiet
  <2> QED
    BY <1>1, <1>2, <1>3, <2>1, <2>2, <2>3 DEF ViewInv, DirectorySettles
<1> QED
  BY <1>1, <1>2, <1>3 DEF ViewInv, FileSettles

-----------------------------------------------------------------------------
(* Answers.                                                                *)

\* The only request of SharePage, or one of those of SharedDirectoryPage, is over.
LEMMA EndedIs ==
    ASSUME ViewInv, NEW k \in Gets, Ended(k)
    PROVE  GetsOK' /\ get'[k].pc = "idle" /\ \A j \in Gets \ {k} : get'[j] = get[j]
BY EndSlot DEF ViewInv, Ended

LEMMA OpenedKeeps == ASSUME ViewInv, NEW k \in Gets, Opened(k) PROVE ViewInv'
<1> DEFINE all == Beyond(Folder(get[k].path), NoDoc)
<1>1. /\ get[k].pc = "fetch" /\ Admits(get[k].password)
      /\ data' = Folder(get[k].path) /\ docs' = FirstDocs(all) /\ docsCursor' = NextCursor(all)
      /\ trail' = get[k].path
      /\ needsPassword' = (needsPassword /\ view = "file" /\ ~get[k].given)
      /\ UNCHANGED <<view, secret, guestWaits, path, failed, password, saved>>
  BY DEF Opened, fixed
<1>2. GetsOK' /\ get'[k].pc = "idle" /\ \A j \in Gets \ {k} : get'[j] = get[j]
  BY EndedIs DEF Opened
<1>3. /\ NextCursor(all) \in Docs \cup {NoDoc}
      /\ FirstDocs(all) = DocsSoFar(Folder(get[k].path), NextCursor(all))
  BY FirstPage
<1> HIDE DEF all
<1>4. get[k].path = path => PathLoaded'
  BY <1>1, <1>3 DEF PathLoaded, DocsSoFar
<1>5. ASSUME guestWaits, view = "file" PROVE FileSettles'
  <2>1. /\ PathLoaded' /\ data' = Top /\ data' # NoFolder
        /\ \A j \in Gets : get'[j].pc = "idle"
    BY <1>1, <1>2, <1>4, <1>5, SharedViewsAssumption DEF ViewInv, FileSettles, Folder
  <2> QED
    BY <1>1, <1>5, <2>1 DEF ViewInv, FileSettles
<1>6. ASSUME guestWaits, view = "directory" PROVE DirectorySettles'
  <2>1. PathLoaded' /\ ~Locked'
    BY <1>1, <1>4, <1>6 DEF ViewInv, DirectorySettles, Admits, Locked
  <2>2. \A j \in Gets : get'[j].pc # "idle" => get'[j] = get[j] /\ get[j].pc = "fetch"
    BY <1>1, <1>2, <1>6 DEF ViewInv, DirectorySettles
  <2> QED
    BY <1>1, <1>6, <2>1, <2>2 DEF ViewInv, DirectorySettles
<1> QED
  BY <1>1, <1>2, <1>3, <1>5, <1>6 DEF ViewInv, FileSettles, DirectorySettles

LEMMA WrongPasswordKeeps == ASSUME ViewInv, NEW k \in Gets, WrongPassword(k) PROVE ViewInv'
<1>1. /\ get[k].pc = "fetch" /\ ~Admits(get[k].password)
      /\ IF get[k].gate THEN needsPassword' = TRUE ELSE needsPassword' = needsPassword
      /\ UNCHANGED <<view, secret, guestWaits, path, data, docs, docsCursor, trail, failed,
                     password, saved>>
  BY DEF WrongPassword, fixed, fetched
<1>2. GetsOK' /\ get'[k].pc = "idle" /\ \A j \in Gets \ {k} : get'[j] = get[j]
  BY EndedIs DEF WrongPassword
<1>3. ASSUME guestWaits, view = "file" PROVE FileSettles'
  <2>1. /\ \A j \in Gets : get'[j].pc = "idle"
        /\ secret /\ FormShown' /\ (PathLoaded => PathLoaded')
    BY <1>1, <1>2, <1>3 DEF ViewInv, FileSettles, Admits, FormShown, PathLoaded
  <2> QED
    BY <1>1, <1>3, <2>1 DEF ViewInv, FileSettles
<1>4. ASSUME guestWaits, view = "directory" PROVE DirectorySettles'
  <2>1. Locked /\ Locked' /\ data' = NoFolder /\ (FormShown' \/ saved' = "wrong")
    BY <1>1, <1>4 DEF ViewInv, DirectorySettles, Admits, FormShown, Locked, Passwords
  <2> QED
    BY <1>1, <1>2, <1>4, <2>1 DEF ViewInv, DirectorySettles
<1> QED
  BY <1>1, <1>2, <1>3, <1>4 DEF ViewInv, FileSettles, DirectorySettles

LEMMA GetFailsKeeps == ASSUME ViewInv, NEW k \in Gets, GetFails(k) PROVE ViewInv'
<1>1. /\ get[k].pc = "fetch" /\ (failed' \/ (view = "file" /\ get[k].given))
      /\ UNCHANGED <<view, secret, guestWaits, path, data, docs, docsCursor, trail, needsPassword,
                     password,
                     saved>>
  BY DEF GetFails, fixed, fetched
<1>2. GetsOK' /\ get'[k].pc = "idle" /\ \A j \in Gets \ {k} : get'[j] = get[j]
  BY EndedIs DEF GetFails
<1>3. ASSUME guestWaits, view = "file" PROVE FileSettles'
  <2>1. /\ \A j \in Gets : get'[j].pc = "idle"
        /\ failed' \/ FormShown'
        /\ PathLoaded => PathLoaded'
    BY <1>1, <1>2, <1>3 DEF ViewInv, FileSettles, FormShown, PathLoaded
  <2> QED
    BY <1>1, <1>3, <2>1 DEF ViewInv, FileSettles, PathLoaded
<1>4. ASSUME guestWaits, view = "directory" PROVE DirectorySettles'
  <2>1. \A j \in Gets : get'[j].pc # "idle" => get'[j] = get[j] /\ get[j].pc = "fetch"
    BY <1>1, <1>2, <1>4 DEF ViewInv, DirectorySettles
  <2> QED
    BY <1>1, <1>4, <2>1 DEF ViewInv, DirectorySettles, Locked
<1> QED
  BY <1>1, <1>2, <1>3, <1>4 DEF ViewInv, FileSettles, DirectorySettles

LEMMA MoreArrivedKeeps == ASSUME ViewInv, NEW k \in Gets, MoreArrived(k) PROVE ViewInv'
<1> DEFINE further == Beyond(Folder(get[k].path), get[k].from)
<1>1. /\ get[k].pc = "more"
      /\ docs' = docs \cup FirstDocs(further) /\ docsCursor' = NextCursor(further)
      /\ UNCHANGED <<view, secret, guestWaits, path, data, trail, failed, needsPassword, password,
                     saved>>
      /\ get' = [get EXCEPT ![k] = NoGet]
  BY DEF MoreArrived, fixed, form
<1>2. GetsOK' /\ get'[k].pc = "idle" /\ \A j \in Gets \ {k} : get'[j] = get[j]
  BY <1>1, EndSlot DEF ViewInv
<1>3. NextCursor(further) \in Docs \cup {NoDoc}
  BY NextCursorTyped DEF Beyond
<1>4. ASSUME guestWaits, view = "directory" PROVE DirectorySettles'
  <2>1. /\ PathLoaded /\ ~Locked /\ get[k].from = docsCursor /\ docsCursor \in Docs /\ get[k].path = path
        /\ saved \in Passwords
    BY <1>1, <1>4 DEF ViewInv, DirectorySettles
  <2>2. \A j \in Gets : get'[j].pc = "idle"
    BY <1>1, <1>2, <1>4 DEF ViewInv, DirectorySettles
  <2>3. docs = DocsSoFar(data, docsCursor) /\ data = Folder(path)
    BY <2>1 DEF PathLoaded, DocsSoFar
  <2>4. docs' = DocsSoFar(data, NextCursor(further))
    BY <1>1, <2>1, <2>3, NextPage
  <2> HIDE DEF further
  <2>5. PathLoaded'
    BY <1>1, <2>1, <2>4 DEF PathLoaded, DocsSoFar
  <2> QED
    BY <1>1, <1>4, <2>1, <2>2, <2>5 DEF DirectorySettles, Locked
<1>5. ~ (guestWaits /\ view = "file")
  BY <1>1 DEF ViewInv, FileSettles
<1> QED
  BY <1>1, <1>2, <1>3, <1>4, <1>5 DEF ViewInv, FileSettles, DirectorySettles

LEMMA MoreFailedKeeps == ASSUME ViewInv, NEW k \in Gets, MoreFailed(k) PROVE ViewInv'
<1>1. /\ get[k].pc = "more"
      /\ UNCHANGED <<view, secret, guestWaits, path, data, docs, docsCursor, trail, failed,
                     needsPassword,
                     password, saved>>
      /\ get' = [get EXCEPT ![k] = NoGet]
  BY DEF MoreFailed, fixed, fetched, form
<1>2. GetsOK' /\ get'[k].pc = "idle" /\ \A j \in Gets \ {k} : get'[j] = get[j]
  BY <1>1, EndSlot DEF ViewInv
<1>3. ASSUME guestWaits, view = "directory" PROVE DirectorySettles'
  <2>1. PathLoaded /\ ~Locked /\ \A j \in Gets : get'[j].pc = "idle"
    BY <1>1, <1>2, <1>3 DEF ViewInv, DirectorySettles
  <2> QED
    BY <1>1, <1>3, <2>1 DEF ViewInv, DirectorySettles, Locked, PathLoaded
<1>4. ~ (guestWaits /\ view = "file")
  BY <1>1 DEF ViewInv, FileSettles
<1> QED
  BY <1>1, <1>2, <1>3, <1>4 DEF ViewInv, FileSettles, DirectorySettles

LEMMA ViewStutter == ASSUME ViewInv, UNCHANGED viewVars PROVE ViewInv'
<1>1. UNCHANGED <<view, secret, guestWaits, path, data, docs, docsCursor, trail, failed,
                  needsPassword, password,
                 saved, get>>
  BY DEF viewVars
<1> QED
  BY <1>1
     DEF ViewInv, GetsOK, FileSettles, DirectorySettles, PathLoaded, GuestQuiet,
         FormShown, Locked

LEMMA ViewStepKeeps == ViewInv /\ [ViewNext]_viewVars => ViewInv'
<1> SUFFICES ASSUME ViewInv, [ViewNext]_viewVars PROVE ViewInv'
  OBVIOUS
<1>1. ASSUME NEW k \in Gets, GetStep(k) PROVE ViewInv'
  BY <1>1, OpenedKeeps, WrongPasswordKeeps, GetFailsKeeps, MoreArrivedKeeps,
     MoreFailedKeeps
     DEF GetStep
<1>2. ASSUME NEW k \in Gets, RenewToken(k) \/ GoBack(k) \/ SubmitForFile(k) \/ MoreDocs(k) PROVE ViewInv'
  BY <1>2, RenewTokenKeeps, GoBackKeeps, SubmitForFileKeeps, MoreDocsKeeps
<1> QED
  BY <1>1, <1>2, SubmitForDirectoryKeeps, EnterKeeps, ClimbKeeps, TypeKeeps, ViewStutter
     DEF ViewNext

LEMMA ViewInvHolds == ViewSpec => []ViewInv
BY ViewInitOK, ViewStepKeeps, PTL DEF ViewSpec

\* What a page of a share link shows follows its address, and its password: for a user who
\* waits, any folders, any documents, and any number of requests under way.
THEOREM ViewFollowsAddressHolds == ViewSpec => []ViewFollowsAddress
BY ViewInvHolds, ViewInvGives, PTL

-----------------------------------------------------------------------------
(* FileView.                                                               *)

Live(r) == run[r].mounted

\* Of the runs only one has not been cleaned up, and it is about the address.
OneRun ==
    /\ \A r \in Runs : Live(r) => run[r].pc # "idle" /\ run[r].of = id /\ id # NoFile
    /\ \A q, r \in Runs : Live(q) /\ Live(r) => q = r

\* While it is under way the page loads; past its first answer the file is that of the address.
LiveRun ==
    \A r \in Runs : Live(r) =>
        /\ fileLoading /\ ~fileError /\ ~iframeError
        /\ run[r].pc # "metadata" => file = id

OwnersAsked == \A r \in Runs : run[r].pc = "owner" => run[r].of \in Foreign

\* What the page shows when it neither loads nor reports an error.
Shown ==
    id # NoFile =>
        /\ ~fileLoading /\ ~fileError => file = id
        /\ owner # NoFile => owner = id /\ owner \in Foreign

\* Who waits for answers has one thing under way at a time, and none on other pages.
OneAtATime ==
    viewerWaits =>
        /\ \A q, r \in Runs : run[q].pc # "idle" /\ run[r].pc # "idle" => q = r
        /\ \A r \in Runs : run[r].pc # "idle" => Live(r) /\ op.pc = "idle"
        /\ op.pc # "idle" => id # NoFile /\ ~fileLoading /\ ~fileError
                             /\ op.of = file /\ op.mounted

ShownWhole ==
    /\ previewType = id
    /\ canPreview = (id \in Viewable \ Problematic /\ ~iframeError)

\* ... and so sees one file only: its name, its type, its preview.
OneFileShown ==
    viewerWaits /\ id # NoFile =>
        /\ ~fileLoading /\ ~fileError => ShownWhole /\ shownName = names[id]
        /\ \A r \in Runs :
              /\ run[r].pc \notin {"idle", "metadata"} => shownName = names[id]
              /\ run[r].pc \in {"content", "directory"} => ShownWhole

FileInv == FileTypeOK /\ OneRun /\ LiveRun /\ OwnersAsked /\ Shown /\ OneAtATime /\ OneFileShown

-----------------------------------------------------------------------------
(* What a step does to the runs, run by run.                                *)

Pcs    == {"idle", "metadata", "owner", "content", "directory"}
RunsOK == run \in [Runs -> [pc : Pcs, of : Files \cup {NoFile}, mounted : BOOLEAN]]

Cleaned(q) == run'[q].pc = run[q].pc /\ run'[q].of = run[q].of /\ ~run'[q].mounted

AllCleaned == RunsOK' /\ \A q \in Runs : Cleaned(q)

Anew(r, f) ==
    /\ RunsOK'
    /\ run[r].pc = "idle" /\ run'[r].pc = "metadata" /\ run'[r].of = f /\ run'[r].mounted
    /\ \A q \in Runs \ {r} : Cleaned(q)
    /\ owner' = NoFile
    /\ fileLoading' = TRUE /\ fileError' = FALSE /\ canPreview' = TRUE /\ iframeError' = FALSE

GoesOn(r, pc) ==
    /\ RunsOK'
    /\ run'[r].pc = pc
    /\ pc = "idle" => ~run'[r].mounted
    /\ pc # "idle" => run'[r].of = run[r].of /\ run'[r].mounted = run[r].mounted
    /\ \A q \in Runs \ {r} : run'[q] = run[q]

LEMMA UnmountCleans == ASSUME FileTypeOK, Unmount PROVE AllCleaned
BY DEF FileTypeOK, Unmount, AllCleaned, Cleaned, RunsOK, Pcs

LEMMA RerunIsAnew ==
    ASSUME FileTypeOK, NEW r \in Runs, NEW f \in Files, Rerun(r, f)
    PROVE  Anew(r, f)
BY DEF FileTypeOK, Rerun, Anew, Cleaned, RunsOK, Pcs

LEMMA ToGoesOn ==
    ASSUME FileTypeOK, NEW r \in Runs, NEW pc \in Pcs, To(r, pc)
    PROVE  GoesOn(r, pc)
BY DEF FileTypeOK, To, NoRun, GoesOn, RunsOK, Pcs

-----------------------------------------------------------------------------
LEMMA FileInitOK == FileInit => FileInv
<1> SUFFICES ASSUME FileInit PROVE FileInv
  OBVIOUS
<1>1. \A r \in Runs : run[r].pc = "idle" /\ ~run[r].mounted
  BY DEF FileInit, NoRun
<1>2. FileTypeOK
  BY FileViewAssumption DEF FileInit, FileTypeOK, NoRun, NoOp
<1>3. OneRun /\ LiveRun /\ OwnersAsked
  BY <1>1 DEF OneRun, LiveRun, OwnersAsked, Live
<1>4. Shown /\ OneAtATime /\ OneFileShown
  BY <1>1 DEF FileInit, NoOp, Shown, OneAtATime, OneFileShown
<1> QED
  BY <1>2, <1>3, <1>4 DEF FileInv

LEMMA FileInvGives == FileInv => FileFollowsAddress
BY DEF FileInv, FileFollowsAddress, FileOpen, FileQuiet, Shown, OneFileShown, ShownWhole

-----------------------------------------------------------------------------
(* Every step keeps the invariant.                                          *)

LEMMA VisitKeeps == ASSUME FileInv, NEW r \in Runs, NEW f \in Files, Visit(r, f) PROVE FileInv'
<1>1. FileTypeOK /\ OneRun /\ LiveRun /\ OwnersAsked /\ Shown /\ OneAtATime /\ OneFileShown
  BY DEF FileInv
<1>2. /\ id = NoFile /\ id' = f /\ Anew(r, f)
      /\ file' = NoFile /\ shownName' = "old" /\ fileUrl' = NoFile /\ directory' = NoFile
      /\ previewType' = NoFile /\ deleteOpen' = FALSE /\ deleting' = FALSE
      /\ convertOpen' = FALSE /\ converting' = FALSE /\ UNCHANGED <<names, viewerWaits, op>>
  BY <1>1, RerunIsAnew DEF Visit
<1>3. FileTypeOK'
  <2>1. RunsOK'
    BY <1>1, <1>2 DEF Anew, Cleaned, RunsOK, Pcs
  <2>2. /\ names' \in [Files -> {"old", "new"}] /\ shownName' \in {"old", "new"}
        /\ {id, file, owner, fileUrl, directory, previewType}' \subseteq Files \cup {NoFile}
    BY <1>1, <1>2 DEF Anew, Cleaned, RunsOK, Pcs, FileTypeOK, OneRun, Live
  <2>3. /\ {viewerWaits, fileLoading, fileError, canPreview, iframeError}' \subseteq BOOLEAN
        /\ {deleteOpen, deleting, convertOpen, converting}' \subseteq BOOLEAN
    BY <1>1, <1>2 DEF Anew, Cleaned, RunsOK, Pcs, FileTypeOK
  <2>4. op' \in [pc : {"idle", "rename", "delete", "convert"}, of : Files \cup {NoFile},
                mounted : BOOLEAN]
    BY <1>1, <1>2 DEF Anew, Cleaned, RunsOK, Pcs, FileTypeOK
  <2> QED
    BY <2>1, <2>2, <2>3, <2>4 DEF FileTypeOK, RunsOK, Pcs
<1>4. OneRun'
  BY FileViewAssumption, <1>1, <1>2 DEF Anew, Cleaned, RunsOK, Pcs, OneRun, Live
<1>5. LiveRun'
  BY FileViewAssumption, <1>1, <1>2
     DEF Anew, Cleaned, RunsOK, Pcs, OneRun, LiveRun, Live, FileTypeOK
<1>6. OwnersAsked'
  BY FileViewAssumption, <1>1, <1>2 DEF Anew, Cleaned, RunsOK, Pcs, OwnersAsked, FileTypeOK
<1>7. Shown'
  BY FileViewAssumption, <1>1, <1>2
     DEF Anew, Cleaned, RunsOK, Pcs, Shown, OneRun, LiveRun, OwnersAsked, Live, FileTypeOK
<1>8. OneAtATime'
  BY FileViewAssumption, <1>1, <1>2
     DEF Anew, Cleaned, RunsOK, Pcs, OneAtATime, OneRun, LiveRun, Live, Shown, FileTypeOK
<1>9. OneFileShown'
  BY FileViewAssumption, <1>1, <1>2
     DEF Anew, Cleaned, RunsOK, Pcs, OneFileShown, ShownWhole, OneAtATime, Shown, OneRun,
         LiveRun, Live, FileTypeOK
<1> QED
  BY <1>3, <1>4, <1>5, <1>6, <1>7, <1>8, <1>9 DEF FileInv

LEMMA JumpKeeps == ASSUME FileInv, NEW r \in Runs, NEW f \in Files, Jump(r, f) PROVE FileInv'
<1>1. FileTypeOK /\ OneRun /\ LiveRun /\ OwnersAsked /\ Shown /\ OneAtATime /\ OneFileShown
  BY DEF FileInv
<1>a. Anew(r, f)
  BY <1>1, RerunIsAnew DEF Jump
<1>3. /\ id # NoFile /\ ViewerReady /\ id' = f
      /\ UNCHANGED <<names, viewerWaits, file, shownName, fileUrl, directory, previewType,
                     dialogs, op>>
  BY Zenon DEF Jump
<1>4. FileTypeOK'
  <2>1. RunsOK'
    BY <1>1, <1>a, <1>3 DEF Anew, Cleaned, RunsOK, Pcs, dialogs, ViewerReady, FileQuiet
  <2>2. /\ names' \in [Files -> {"old", "new"}] /\ shownName' \in {"old", "new"}
        /\ {id, file, owner, fileUrl, directory, previewType}' \subseteq Files \cup {NoFile}
    BY <1>1, <1>a, <1>3
       DEF Anew, Cleaned, RunsOK, Pcs, dialogs, ViewerReady, FileQuiet, FileTypeOK,
           OneRun, Live
  <2>3. /\ {viewerWaits, fileLoading, fileError, canPreview, iframeError}' \subseteq BOOLEAN
        /\ {deleteOpen, deleting, convertOpen, converting}' \subseteq BOOLEAN
    BY <1>1, <1>a, <1>3
       DEF Anew, Cleaned, RunsOK, Pcs, dialogs, ViewerReady, FileQuiet, FileTypeOK
  <2>4. op' \in [pc : {"idle", "rename", "delete", "convert"}, of : Files \cup {NoFile},
                mounted : BOOLEAN]
    BY <1>1, <1>a, <1>3
       DEF Anew, Cleaned, RunsOK, Pcs, dialogs, ViewerReady, FileQuiet, FileTypeOK
  <2> QED
    BY <2>1, <2>2, <2>3, <2>4 DEF FileTypeOK, RunsOK, Pcs
<1>5. OneRun'
  BY FileViewAssumption, <1>1, <1>a, <1>3
     DEF Anew, Cleaned, RunsOK, Pcs, dialogs, ViewerReady, FileQuiet, OneRun, Live
<1>6. LiveRun'
  BY FileViewAssumption, <1>1, <1>a, <1>3
     DEF Anew, Cleaned, RunsOK, Pcs, dialogs, ViewerReady, FileQuiet, OneRun, LiveRun,
         Live, FileTypeOK
<1>7. OwnersAsked'
  BY FileViewAssumption, <1>1, <1>a, <1>3
     DEF Anew, Cleaned, RunsOK, Pcs, dialogs, ViewerReady, FileQuiet, OwnersAsked,
         FileTypeOK
<1>8. Shown'
  BY FileViewAssumption, <1>1, <1>a, <1>3
     DEF Anew, Cleaned, RunsOK, Pcs, dialogs, ViewerReady, FileQuiet, Shown, OneRun,
         LiveRun, OwnersAsked, Live, FileTypeOK
<1>9. OneAtATime'
  BY FileViewAssumption, <1>1, <1>a, <1>3
     DEF Anew, Cleaned, RunsOK, Pcs, dialogs, ViewerReady, FileQuiet, OneAtATime, OneRun,
         LiveRun, Live, Shown, FileTypeOK
<1>10. OneFileShown'
  BY FileViewAssumption, <1>1, <1>a, <1>3
     DEF Anew, Cleaned, RunsOK, Pcs, dialogs, ViewerReady, FileQuiet, OneFileShown,
         ShownWhole, OneAtATime, Shown, OneRun, LiveRun, Live, FileTypeOK
<1> QED
  BY <1>4, <1>5, <1>6, <1>7, <1>8, <1>9, <1>10 DEF FileInv

LEMMA RenewKeeps == ASSUME FileInv, NEW r \in Runs, Renew(r) PROVE FileInv'
<1>1. FileTypeOK /\ OneRun /\ LiveRun /\ OwnersAsked /\ Shown /\ OneAtATime /\ OneFileShown
  BY DEF FileInv
<1>a. Anew(r, id)
  BY <1>1, RerunIsAnew DEF Renew, FileTypeOK
<1>3. /\ id # NoFile /\ ViewerReady /\ id' = id
      /\ UNCHANGED <<names, viewerWaits, file, shownName, fileUrl, directory, previewType,
                     dialogs, op>>
  BY Zenon DEF Renew
<1>4. FileTypeOK'
  <2>1. RunsOK'
    BY <1>1, <1>a, <1>3 DEF Anew, Cleaned, RunsOK, Pcs, dialogs, ViewerReady, FileQuiet
  <2>2. /\ names' \in [Files -> {"old", "new"}] /\ shownName' \in {"old", "new"}
        /\ {id, file, owner, fileUrl, directory, previewType}' \subseteq Files \cup {NoFile}
    BY <1>1, <1>a, <1>3
       DEF Anew, Cleaned, RunsOK, Pcs, dialogs, ViewerReady, FileQuiet, FileTypeOK,
           OneRun, Live
  <2>3. /\ {viewerWaits, fileLoading, fileError, canPreview, iframeError}' \subseteq BOOLEAN
        /\ {deleteOpen, deleting, convertOpen, converting}' \subseteq BOOLEAN
    BY <1>1, <1>a, <1>3
       DEF Anew, Cleaned, RunsOK, Pcs, dialogs, ViewerReady, FileQuiet, FileTypeOK
  <2>4. op' \in [pc : {"idle", "rename", "delete", "convert"}, of : Files \cup {NoFile},
                mounted : BOOLEAN]
    BY <1>1, <1>a, <1>3
       DEF Anew, Cleaned, RunsOK, Pcs, dialogs, ViewerReady, FileQuiet, FileTypeOK
  <2> QED
    BY <2>1, <2>2, <2>3, <2>4 DEF FileTypeOK, RunsOK, Pcs
<1>5. OneRun'
  BY FileViewAssumption, <1>1, <1>a, <1>3
     DEF Anew, Cleaned, RunsOK, Pcs, dialogs, ViewerReady, FileQuiet, OneRun, Live
<1>6. LiveRun'
  BY FileViewAssumption, <1>1, <1>a, <1>3
     DEF Anew, Cleaned, RunsOK, Pcs, dialogs, ViewerReady, FileQuiet, OneRun, LiveRun,
         Live, FileTypeOK
<1>7. OwnersAsked'
  BY FileViewAssumption, <1>1, <1>a, <1>3
     DEF Anew, Cleaned, RunsOK, Pcs, dialogs, ViewerReady, FileQuiet, OwnersAsked,
         FileTypeOK
<1>8. Shown'
  BY FileViewAssumption, <1>1, <1>a, <1>3
     DEF Anew, Cleaned, RunsOK, Pcs, dialogs, ViewerReady, FileQuiet, Shown, OneRun,
         LiveRun, OwnersAsked, Live, FileTypeOK
<1>9. OneAtATime'
  BY FileViewAssumption, <1>1, <1>a, <1>3
     DEF Anew, Cleaned, RunsOK, Pcs, dialogs, ViewerReady, FileQuiet, OneAtATime, OneRun,
         LiveRun, Live, Shown, FileTypeOK
<1>10. OneFileShown'
  BY FileViewAssumption, <1>1, <1>a, <1>3
     DEF Anew, Cleaned, RunsOK, Pcs, dialogs, ViewerReady, FileQuiet, OneFileShown,
         ShownWhole, OneAtATime, Shown, OneRun, LiveRun, Live, FileTypeOK
<1> QED
  BY <1>4, <1>5, <1>6, <1>7, <1>8, <1>9, <1>10 DEF FileInv

LEMMA LeaveKeeps == ASSUME FileInv, Leave PROVE FileInv'
<1>1. FileTypeOK /\ OneRun /\ LiveRun /\ OwnersAsked /\ Shown /\ OneAtATime /\ OneFileShown
  BY DEF FileInv
<1>a. AllCleaned
  BY <1>1, UnmountCleans DEF Leave
<1>3. /\ ViewerReady /\ id' = NoFile /\ op' = [op EXCEPT !.mounted = FALSE]
      /\ UNCHANGED <<names, viewerWaits, display, status, dialogs>>
  BY Zenon DEF Leave
<1>4. FileTypeOK'
  <2>1. RunsOK'
    BY <1>1, <1>a, <1>3
       DEF AllCleaned, Cleaned, RunsOK, Pcs, ViewerReady, FileQuiet, display, status,
           dialogs
  <2>2. /\ names' \in [Files -> {"old", "new"}] /\ shownName' \in {"old", "new"}
        /\ {id, file, owner, fileUrl, directory, previewType}' \subseteq Files \cup {NoFile}
    BY <1>1, <1>a, <1>3
       DEF AllCleaned, Cleaned, RunsOK, Pcs, ViewerReady, FileQuiet, display, status,
           dialogs, FileTypeOK, OneRun, Live
  <2>3. /\ {viewerWaits, fileLoading, fileError, canPreview, iframeError}' \subseteq BOOLEAN
        /\ {deleteOpen, deleting, convertOpen, converting}' \subseteq BOOLEAN
    BY <1>1, <1>a, <1>3
       DEF AllCleaned, Cleaned, RunsOK, Pcs, ViewerReady, FileQuiet, display, status,
           dialogs, FileTypeOK
  <2>4. op' \in [pc : {"idle", "rename", "delete", "convert"}, of : Files \cup {NoFile},
                mounted : BOOLEAN]
    BY <1>1, <1>a, <1>3
       DEF AllCleaned, Cleaned, RunsOK, Pcs, ViewerReady, FileQuiet, display, status,
           dialogs, FileTypeOK
  <2> QED
    BY <2>1, <2>2, <2>3, <2>4 DEF FileTypeOK, RunsOK, Pcs
<1>5. OneRun'
  BY FileViewAssumption, <1>1, <1>a, <1>3
     DEF AllCleaned, Cleaned, RunsOK, Pcs, ViewerReady, FileQuiet, display, status,
         dialogs, OneRun, Live
<1>6. LiveRun'
  BY FileViewAssumption, <1>1, <1>a, <1>3
     DEF AllCleaned, Cleaned, RunsOK, Pcs, ViewerReady, FileQuiet, display, status,
         dialogs, OneRun, LiveRun, Live, FileTypeOK
<1>7. OwnersAsked'
  BY FileViewAssumption, <1>1, <1>a, <1>3
     DEF AllCleaned, Cleaned, RunsOK, Pcs, ViewerReady, FileQuiet, display, status,
         dialogs, OwnersAsked, FileTypeOK
<1>8. Shown'
  BY FileViewAssumption, <1>1, <1>a, <1>3
     DEF AllCleaned, Cleaned, RunsOK, Pcs, ViewerReady, FileQuiet, display, status,
         dialogs, Shown, OneRun, LiveRun, OwnersAsked, Live, FileTypeOK
<1>9. OneAtATime'
  BY FileViewAssumption, <1>1, <1>a, <1>3
     DEF AllCleaned, Cleaned, RunsOK, Pcs, ViewerReady, FileQuiet, display, status,
         dialogs, OneAtATime, OneRun, LiveRun, Live, Shown, FileTypeOK
<1>10. OneFileShown'
  BY FileViewAssumption, <1>1, <1>a, <1>3
     DEF AllCleaned, Cleaned, RunsOK, Pcs, ViewerReady, FileQuiet, display, status,
         dialogs, OneFileShown, ShownWhole, OneAtATime, Shown, OneRun, LiveRun, Live,
         FileTypeOK
<1> QED
  BY <1>4, <1>5, <1>6, <1>7, <1>8, <1>9, <1>10 DEF FileInv

LEMMA FileDeletedKeeps == ASSUME FileInv, FileDeleted PROVE FileInv'
<1>1. FileTypeOK /\ OneRun /\ LiveRun /\ OwnersAsked /\ Shown /\ OneAtATime /\ OneFileShown
  BY DEF FileInv
<1>2. /\ op.pc = "delete" /\ id' = NoFile /\ AllCleaned /\ op' = NoOp
      /\ {deleteOpen', deleting'} \subseteq BOOLEAN
      /\ UNCHANGED <<names, viewerWaits, display, status, convertOpen, converting>>
  BY <1>1, UnmountCleans DEF FileDeleted, FileTypeOK
<1>3. FileTypeOK'
  <2>1. RunsOK'
    BY <1>1, <1>2 DEF AllCleaned, Cleaned, RunsOK, Pcs, NoOp, display, status, dialogs
  <2>2. /\ names' \in [Files -> {"old", "new"}] /\ shownName' \in {"old", "new"}
        /\ {id, file, owner, fileUrl, directory, previewType}' \subseteq Files \cup {NoFile}
    BY <1>1, <1>2
       DEF AllCleaned, Cleaned, RunsOK, Pcs, NoOp, display, status, dialogs, FileTypeOK,
           OneRun, Live
  <2>3. /\ {viewerWaits, fileLoading, fileError, canPreview, iframeError}' \subseteq BOOLEAN
        /\ {deleteOpen, deleting, convertOpen, converting}' \subseteq BOOLEAN
    BY <1>1, <1>2 DEF AllCleaned, Cleaned, RunsOK, Pcs, NoOp, display, status, dialogs, FileTypeOK
  <2>4. op' \in [pc : {"idle", "rename", "delete", "convert"}, of : Files \cup {NoFile},
                mounted : BOOLEAN]
    BY <1>1, <1>2 DEF AllCleaned, Cleaned, RunsOK, Pcs, NoOp, display, status, dialogs, FileTypeOK
  <2> QED
    BY <2>1, <2>2, <2>3, <2>4 DEF FileTypeOK, RunsOK, Pcs
<1>4. OneRun'
  BY FileViewAssumption, <1>1, <1>2
     DEF AllCleaned, Cleaned, RunsOK, Pcs, NoOp, display, status, dialogs, OneRun, Live
<1>5. LiveRun'
  BY FileViewAssumption, <1>1, <1>2
     DEF AllCleaned, Cleaned, RunsOK, Pcs, NoOp, display, status, dialogs, OneRun,
         LiveRun, Live, FileTypeOK
<1>6. OwnersAsked'
  BY FileViewAssumption, <1>1, <1>2
     DEF AllCleaned, Cleaned, RunsOK, Pcs, NoOp, display, status, dialogs, OwnersAsked,
         FileTypeOK
<1>7. Shown'
  BY FileViewAssumption, <1>1, <1>2
     DEF AllCleaned, Cleaned, RunsOK, Pcs, NoOp, display, status, dialogs, Shown, OneRun,
         LiveRun, OwnersAsked, Live, FileTypeOK
<1>8. OneAtATime'
  BY FileViewAssumption, <1>1, <1>2
     DEF AllCleaned, Cleaned, RunsOK, Pcs, NoOp, display, status, dialogs, OneAtATime,
         OneRun, LiveRun, Live, Shown, FileTypeOK
<1>9. OneFileShown'
  BY FileViewAssumption, <1>1, <1>2
     DEF AllCleaned, Cleaned, RunsOK, Pcs, NoOp, display, status, dialogs, OneFileShown,
         ShownWhole, OneAtATime, Shown, OneRun, LiveRun, Live, FileTypeOK
<1> QED
  BY <1>3, <1>4, <1>5, <1>6, <1>7, <1>8, <1>9 DEF FileInv

LEMMA RenameKeeps == ASSUME FileInv, Rename PROVE FileInv'
<1>1. FileTypeOK /\ OneRun /\ LiveRun /\ OwnersAsked /\ Shown /\ OneAtATime /\ OneFileShown
  BY DEF FileInv
<1>2. /\ FileOpen /\ ViewerReady /\ op' = [pc |-> "rename", of |-> file, mounted |-> TRUE]
      /\ UNCHANGED <<names, viewerWaits, id, display, status, dialogs, run>>
  BY DEF Rename, Start, display, status, dialogs
<1>3. FileTypeOK'
  BY FileViewAssumption, <1>1, <1>2
     DEF ViewerReady, FileQuiet, FileOpen, display, status, dialogs, FileTypeOK
<1>4. OneRun'
  BY FileViewAssumption, <1>1, <1>2
     DEF ViewerReady, FileQuiet, FileOpen, display, status, dialogs, OneRun, Live
<1>5. LiveRun'
  BY FileViewAssumption, <1>1, <1>2
     DEF ViewerReady, FileQuiet, FileOpen, display, status, dialogs, OneRun, LiveRun,
         Live, FileTypeOK
<1>6. OwnersAsked'
  BY FileViewAssumption, <1>1, <1>2
     DEF ViewerReady, FileQuiet, FileOpen, display, status, dialogs, OwnersAsked,
         FileTypeOK
<1>7. Shown'
  BY FileViewAssumption, <1>1, <1>2
     DEF ViewerReady, FileQuiet, FileOpen, display, status, dialogs, Shown, OneRun,
         LiveRun, OwnersAsked, Live, FileTypeOK
<1>8. OneAtATime'
  BY FileViewAssumption, <1>1, <1>2
     DEF ViewerReady, FileQuiet, FileOpen, display, status, dialogs, OneAtATime, OneRun,
         LiveRun, Live, Shown, FileTypeOK
<1>9. OneFileShown'
  BY FileViewAssumption, <1>1, <1>2
     DEF ViewerReady, FileQuiet, FileOpen, display, status, dialogs, OneFileShown,
         ShownWhole, OneAtATime, Shown, OneRun, LiveRun, Live, FileTypeOK
<1> QED
  BY <1>3, <1>4, <1>5, <1>6, <1>7, <1>8, <1>9 DEF FileInv

LEMMA DeleteFileKeeps == ASSUME FileInv, DeleteFile PROVE FileInv'
<1>1. FileTypeOK /\ OneRun /\ LiveRun /\ OwnersAsked /\ Shown /\ OneAtATime /\ OneFileShown
  BY DEF FileInv
<1>2. /\ FileOpen /\ ViewerReady /\ op' = [pc |-> "delete", of |-> id, mounted |-> TRUE]
      /\ deleting' = TRUE
      /\ UNCHANGED <<names, viewerWaits, id, display, status, deleteOpen, convertOpen, converting,
                     run>>
  BY DEF DeleteFile, display, status
<1>3. FileTypeOK'
  BY FileViewAssumption, <1>1, <1>2
     DEF ViewerReady, FileQuiet, FileOpen, display, status, FileTypeOK
<1>4. OneRun'
  BY FileViewAssumption, <1>1, <1>2
     DEF ViewerReady, FileQuiet, FileOpen, display, status, OneRun, Live
<1>5. LiveRun'
  BY FileViewAssumption, <1>1, <1>2
     DEF ViewerReady, FileQuiet, FileOpen, display, status, OneRun, LiveRun, Live,
         FileTypeOK
<1>6. OwnersAsked'
  BY FileViewAssumption, <1>1, <1>2
     DEF ViewerReady, FileQuiet, FileOpen, display, status, OwnersAsked, FileTypeOK
<1>7. Shown'
  BY FileViewAssumption, <1>1, <1>2
     DEF ViewerReady, FileQuiet, FileOpen, display, status, Shown, OneRun, LiveRun,
         OwnersAsked, Live, FileTypeOK
<1>8. OneAtATime'
  BY FileViewAssumption, <1>1, <1>2
     DEF ViewerReady, FileQuiet, FileOpen, display, status, OneAtATime, OneRun, LiveRun,
         Live, Shown, FileTypeOK
<1>9. OneFileShown'
  BY FileViewAssumption, <1>1, <1>2
     DEF ViewerReady, FileQuiet, FileOpen, display, status, OneFileShown, ShownWhole,
         OneAtATime, Shown, OneRun, LiveRun, Live, FileTypeOK
<1> QED
  BY <1>3, <1>4, <1>5, <1>6, <1>7, <1>8, <1>9 DEF FileInv

LEMMA ConvertKeeps == ASSUME FileInv, Convert PROVE FileInv'
<1>1. FileTypeOK /\ OneRun /\ LiveRun /\ OwnersAsked /\ Shown /\ OneAtATime /\ OneFileShown
  BY DEF FileInv
<1>2. /\ FileOpen /\ ViewerReady /\ op' = [pc |-> "convert", of |-> file, mounted |-> TRUE]
      /\ converting' = TRUE
      /\ UNCHANGED <<names, viewerWaits, id, display, status, deleteOpen, deleting, convertOpen,
                     run>>
  BY DEF Convert, Start, display, status
<1>3. FileTypeOK'
  BY FileViewAssumption, <1>1, <1>2
     DEF ViewerReady, FileQuiet, FileOpen, display, status, FileTypeOK
<1>4. OneRun'
  BY FileViewAssumption, <1>1, <1>2
     DEF ViewerReady, FileQuiet, FileOpen, display, status, OneRun, Live
<1>5. LiveRun'
  BY FileViewAssumption, <1>1, <1>2
     DEF ViewerReady, FileQuiet, FileOpen, display, status, OneRun, LiveRun, Live,
         FileTypeOK
<1>6. OwnersAsked'
  BY FileViewAssumption, <1>1, <1>2
     DEF ViewerReady, FileQuiet, FileOpen, display, status, OwnersAsked, FileTypeOK
<1>7. Shown'
  BY FileViewAssumption, <1>1, <1>2
     DEF ViewerReady, FileQuiet, FileOpen, display, status, Shown, OneRun, LiveRun,
         OwnersAsked, Live, FileTypeOK
<1>8. OneAtATime'
  BY FileViewAssumption, <1>1, <1>2
     DEF ViewerReady, FileQuiet, FileOpen, display, status, OneAtATime, OneRun, LiveRun,
         Live, Shown, FileTypeOK
<1>9. OneFileShown'
  BY FileViewAssumption, <1>1, <1>2
     DEF ViewerReady, FileQuiet, FileOpen, display, status, OneFileShown, ShownWhole,
         OneAtATime, Shown, OneRun, LiveRun, Live, FileTypeOK
<1> QED
  BY <1>3, <1>4, <1>5, <1>6, <1>7, <1>8, <1>9 DEF FileInv

LEMMA AskKeeps == ASSUME FileInv, Ask PROVE FileInv'
<1>1. FileTypeOK /\ OneRun /\ LiveRun /\ OwnersAsked /\ Shown /\ OneAtATime /\ OneFileShown
  BY DEF FileInv
<1>2. /\ {deleteOpen', convertOpen'} \subseteq BOOLEAN
      /\ UNCHANGED <<names, viewerWaits, id, display, status, deleting, converting, run, op>>
  BY <1>1 DEF Ask, display, status, FileTypeOK
<1>3. FileTypeOK'
  BY FileViewAssumption, <1>1, <1>2 DEF display, status, FileTypeOK
<1>4. OneRun'
  BY FileViewAssumption, <1>1, <1>2 DEF display, status, OneRun, Live
<1>5. LiveRun'
  BY FileViewAssumption, <1>1, <1>2 DEF display, status, OneRun, LiveRun, Live, FileTypeOK
<1>6. OwnersAsked'
  BY FileViewAssumption, <1>1, <1>2 DEF display, status, OwnersAsked, FileTypeOK
<1>7. Shown'
  BY FileViewAssumption, <1>1, <1>2
     DEF display, status, Shown, OneRun, LiveRun, OwnersAsked, Live, FileTypeOK
<1>8. OneAtATime'
  BY FileViewAssumption, <1>1, <1>2
     DEF display, status, OneAtATime, OneRun, LiveRun, Live, Shown, FileTypeOK
<1>9. OneFileShown'
  BY FileViewAssumption, <1>1, <1>2
     DEF display, status, OneFileShown, ShownWhole, OneAtATime, Shown, OneRun, LiveRun,
         Live, FileTypeOK
<1> QED
  BY <1>3, <1>4, <1>5, <1>6, <1>7, <1>8, <1>9 DEF FileInv

LEMMA CancelKeeps == ASSUME FileInv, Cancel PROVE FileInv'
<1>1. FileTypeOK /\ OneRun /\ LiveRun /\ OwnersAsked /\ Shown /\ OneAtATime /\ OneFileShown
  BY DEF FileInv
<1>2. /\ {deleteOpen', convertOpen'} \subseteq BOOLEAN
      /\ UNCHANGED <<names, viewerWaits, id, display, status, deleting, converting, run, op>>
  BY <1>1 DEF Cancel, display, status, FileTypeOK
<1>3. FileTypeOK'
  BY FileViewAssumption, <1>1, <1>2 DEF display, status, FileTypeOK
<1>4. OneRun'
  BY FileViewAssumption, <1>1, <1>2 DEF display, status, OneRun, Live
<1>5. LiveRun'
  BY FileViewAssumption, <1>1, <1>2 DEF display, status, OneRun, LiveRun, Live, FileTypeOK
<1>6. OwnersAsked'
  BY FileViewAssumption, <1>1, <1>2 DEF display, status, OwnersAsked, FileTypeOK
<1>7. Shown'
  BY FileViewAssumption, <1>1, <1>2
     DEF display, status, Shown, OneRun, LiveRun, OwnersAsked, Live, FileTypeOK
<1>8. OneAtATime'
  BY FileViewAssumption, <1>1, <1>2
     DEF display, status, OneAtATime, OneRun, LiveRun, Live, Shown, FileTypeOK
<1>9. OneFileShown'
  BY FileViewAssumption, <1>1, <1>2
     DEF display, status, OneFileShown, ShownWhole, OneAtATime, Shown, OneRun, LiveRun,
         Live, FileTypeOK
<1> QED
  BY <1>3, <1>4, <1>5, <1>6, <1>7, <1>8, <1>9 DEF FileInv

LEMMA PreviewBreaksKeeps == ASSUME FileInv, PreviewBreaks PROVE FileInv'
<1>1. FileTypeOK /\ OneRun /\ LiveRun /\ OwnersAsked /\ Shown /\ OneAtATime /\ OneFileShown
  BY DEF FileInv
<1>2. /\ FileOpen /\ canPreview /\ canPreview' = FALSE /\ iframeError' = TRUE
      /\ UNCHANGED <<names, viewerWaits, id, display, fileLoading, fileError, dialogs, run, op>>
  BY DEF PreviewBreaks, display, dialogs
<1>3. FileTypeOK'
  BY FileViewAssumption, <1>1, <1>2 DEF FileOpen, display, dialogs, FileTypeOK
<1>4. OneRun'
  BY FileViewAssumption, <1>1, <1>2 DEF FileOpen, display, dialogs, OneRun, Live
<1>5. LiveRun'
  BY FileViewAssumption, <1>1, <1>2
     DEF FileOpen, display, dialogs, OneRun, LiveRun, Live, FileTypeOK
<1>6. OwnersAsked'
  BY FileViewAssumption, <1>1, <1>2 DEF FileOpen, display, dialogs, OwnersAsked, FileTypeOK
<1>7. Shown'
  BY FileViewAssumption, <1>1, <1>2
     DEF FileOpen, display, dialogs, Shown, OneRun, LiveRun, OwnersAsked, Live, FileTypeOK
<1>8. OneAtATime'
  BY FileViewAssumption, <1>1, <1>2
     DEF FileOpen, display, dialogs, OneAtATime, OneRun, LiveRun, Live, Shown, FileTypeOK
<1>9. OneFileShown'
  BY FileViewAssumption, <1>1, <1>2
     DEF FileOpen, display, dialogs, OneFileShown, ShownWhole, OneAtATime, Shown, OneRun,
         LiveRun, Live, FileTypeOK
<1> QED
  BY <1>3, <1>4, <1>5, <1>6, <1>7, <1>8, <1>9 DEF FileInv

LEMMA RenamedKeeps == ASSUME FileInv, Renamed PROVE FileInv'
<1>1. FileTypeOK /\ OneRun /\ LiveRun /\ OwnersAsked /\ Shown /\ OneAtATime /\ OneFileShown
  BY DEF FileInv
<1>2. /\ op.pc = "rename" /\ names' = [names EXCEPT ![op.of] = "new"] /\ op' = NoOp
      /\ shownName' = IF op.mounted /\ file # NoFile THEN "new" ELSE shownName
      /\ UNCHANGED <<viewerWaits, id, file, owner, fileUrl, directory, previewType, status,
                     dialogs, run>>
  BY DEF Renamed, status, dialogs
<1>3. FileTypeOK'
  BY FileViewAssumption, <1>1, <1>2 DEF NoOp, status, dialogs, FileTypeOK
<1>4. OneRun'
  BY FileViewAssumption, <1>1, <1>2 DEF NoOp, status, dialogs, OneRun, Live
<1>5. LiveRun'
  BY FileViewAssumption, <1>1, <1>2 DEF NoOp, status, dialogs, OneRun, LiveRun, Live, FileTypeOK
<1>6. OwnersAsked'
  BY FileViewAssumption, <1>1, <1>2 DEF NoOp, status, dialogs, OwnersAsked, FileTypeOK
<1>7. Shown'
  BY FileViewAssumption, <1>1, <1>2
     DEF NoOp, status, dialogs, Shown, OneRun, LiveRun, OwnersAsked, Live, FileTypeOK
<1>8. OneAtATime'
  BY FileViewAssumption, <1>1, <1>2
     DEF NoOp, status, dialogs, OneAtATime, OneRun, LiveRun, Live, Shown, FileTypeOK
<1>9. OneFileShown'
  BY FileViewAssumption, <1>1, <1>2
     DEF NoOp, status, dialogs, OneFileShown, ShownWhole, OneAtATime, Shown, OneRun,
         LiveRun, Live, FileTypeOK
<1> QED
  BY <1>3, <1>4, <1>5, <1>6, <1>7, <1>8, <1>9 DEF FileInv

LEMMA ConvertedKeeps == ASSUME FileInv, Converted PROVE FileInv'
<1>1. FileTypeOK /\ OneRun /\ LiveRun /\ OwnersAsked /\ Shown /\ OneAtATime /\ OneFileShown
  BY DEF FileInv
<1>2. /\ op' = NoOp /\ {convertOpen', converting'} \subseteq BOOLEAN
      /\ UNCHANGED <<names, viewerWaits, id, display, status, deleteOpen, deleting, run>>
  BY <1>1 DEF Converted, display, status, FileTypeOK
<1>3. FileTypeOK'
  BY FileViewAssumption, <1>1, <1>2 DEF NoOp, display, status, FileTypeOK
<1>4. OneRun'
  BY FileViewAssumption, <1>1, <1>2 DEF NoOp, display, status, OneRun, Live
<1>5. LiveRun'
  BY FileViewAssumption, <1>1, <1>2 DEF NoOp, display, status, OneRun, LiveRun, Live, FileTypeOK
<1>6. OwnersAsked'
  BY FileViewAssumption, <1>1, <1>2 DEF NoOp, display, status, OwnersAsked, FileTypeOK
<1>7. Shown'
  BY FileViewAssumption, <1>1, <1>2
     DEF NoOp, display, status, Shown, OneRun, LiveRun, OwnersAsked, Live, FileTypeOK
<1>8. OneAtATime'
  BY FileViewAssumption, <1>1, <1>2
     DEF NoOp, display, status, OneAtATime, OneRun, LiveRun, Live, Shown, FileTypeOK
<1>9. OneFileShown'
  BY FileViewAssumption, <1>1, <1>2
     DEF NoOp, display, status, OneFileShown, ShownWhole, OneAtATime, Shown, OneRun,
         LiveRun, Live, FileTypeOK
<1> QED
  BY <1>3, <1>4, <1>5, <1>6, <1>7, <1>8, <1>9 DEF FileInv

LEMMA OpFailsKeeps == ASSUME FileInv, OpFails PROVE FileInv'
<1>1. FileTypeOK /\ OneRun /\ LiveRun /\ OwnersAsked /\ Shown /\ OneAtATime /\ OneFileShown
  BY DEF FileInv
<1>2. /\ op' = NoOp /\ {deleting', converting'} \subseteq BOOLEAN
      /\ UNCHANGED <<names, viewerWaits, id, display, status, deleteOpen, convertOpen, run>>
  BY <1>1 DEF OpFails, display, status, FileTypeOK
<1>3. FileTypeOK'
  BY FileViewAssumption, <1>1, <1>2 DEF NoOp, display, status, FileTypeOK
<1>4. OneRun'
  BY FileViewAssumption, <1>1, <1>2 DEF NoOp, display, status, OneRun, Live
<1>5. LiveRun'
  BY FileViewAssumption, <1>1, <1>2 DEF NoOp, display, status, OneRun, LiveRun, Live, FileTypeOK
<1>6. OwnersAsked'
  BY FileViewAssumption, <1>1, <1>2 DEF NoOp, display, status, OwnersAsked, FileTypeOK
<1>7. Shown'
  BY FileViewAssumption, <1>1, <1>2
     DEF NoOp, display, status, Shown, OneRun, LiveRun, OwnersAsked, Live, FileTypeOK
<1>8. OneAtATime'
  BY FileViewAssumption, <1>1, <1>2
     DEF NoOp, display, status, OneAtATime, OneRun, LiveRun, Live, Shown, FileTypeOK
<1>9. OneFileShown'
  BY FileViewAssumption, <1>1, <1>2
     DEF NoOp, display, status, OneFileShown, ShownWhole, OneAtATime, Shown, OneRun,
         LiveRun, Live, FileTypeOK
<1> QED
  BY <1>3, <1>4, <1>5, <1>6, <1>7, <1>8, <1>9 DEF FileInv

LEMMA MetadataFailsKeeps == ASSUME FileInv, NEW r \in Runs, MetadataFails(r) PROVE FileInv'
<1>1. FileTypeOK /\ OneRun /\ LiveRun /\ OwnersAsked /\ Shown /\ OneAtATime /\ OneFileShown
  BY DEF FileInv
<1>2. /\ run[r].pc = "metadata" /\ GoesOn(r, "idle")
      /\ fileError' = (fileError \/ run[r].mounted) /\ fileLoading' = (fileLoading /\ ~run[r].mounted)
      /\ UNCHANGED <<names, viewerWaits, id, display, canPreview, iframeError, dialogs, op>>
  BY <1>1, ToGoesOn DEF MetadataFails, Pcs, display, dialogs
<1>3. FileTypeOK'
  <2>1. RunsOK'
    BY <1>1, <1>2 DEF GoesOn, RunsOK, Pcs, display, dialogs
  <2>2. /\ names' \in [Files -> {"old", "new"}] /\ shownName' \in {"old", "new"}
        /\ {id, file, owner, fileUrl, directory, previewType}' \subseteq Files \cup {NoFile}
    BY <1>1, <1>2 DEF GoesOn, RunsOK, Pcs, display, dialogs, FileTypeOK, OneRun, Live
  <2>3. /\ {viewerWaits, fileLoading, fileError, canPreview, iframeError}' \subseteq BOOLEAN
        /\ {deleteOpen, deleting, convertOpen, converting}' \subseteq BOOLEAN
    BY <1>1, <1>2 DEF GoesOn, RunsOK, Pcs, display, dialogs, FileTypeOK
  <2>4. op' \in [pc : {"idle", "rename", "delete", "convert"}, of : Files \cup {NoFile},
                mounted : BOOLEAN]
    BY <1>1, <1>2 DEF GoesOn, RunsOK, Pcs, display, dialogs, FileTypeOK
  <2> QED
    BY <2>1, <2>2, <2>3, <2>4 DEF FileTypeOK, RunsOK, Pcs
<1>4. OneRun'
  BY FileViewAssumption, <1>1, <1>2 DEF GoesOn, RunsOK, Pcs, display, dialogs, OneRun, Live
<1>5. LiveRun'
  BY FileViewAssumption, <1>1, <1>2
     DEF GoesOn, RunsOK, Pcs, display, dialogs, OneRun, LiveRun, Live, FileTypeOK
<1>6. OwnersAsked'
  BY FileViewAssumption, <1>1, <1>2
     DEF GoesOn, RunsOK, Pcs, display, dialogs, OwnersAsked, FileTypeOK
<1>7. Shown'
  BY FileViewAssumption, <1>1, <1>2
     DEF GoesOn, RunsOK, Pcs, display, dialogs, Shown, OneRun, LiveRun, OwnersAsked, Live,
         FileTypeOK
<1>8. OneAtATime'
  BY FileViewAssumption, <1>1, <1>2
     DEF GoesOn, RunsOK, Pcs, display, dialogs, OneAtATime, OneRun, LiveRun, Live, Shown,
         FileTypeOK
<1>9. OneFileShown'
  BY FileViewAssumption, <1>1, <1>2
     DEF GoesOn, RunsOK, Pcs, display, dialogs, OneFileShown, ShownWhole, OneAtATime,
         Shown, OneRun, LiveRun, Live, FileTypeOK
<1> QED
  BY <1>3, <1>4, <1>5, <1>6, <1>7, <1>8, <1>9 DEF FileInv

LEMMA ContentComesKeeps == ASSUME FileInv, NEW r \in Runs, ContentComes(r) PROVE FileInv'
<1>1. FileTypeOK /\ OneRun /\ LiveRun /\ OwnersAsked /\ Shown /\ OneAtATime /\ OneFileShown
  BY DEF FileInv
<1>2. /\ run[r].pc = "content" /\ GoesOn(r, "directory") /\ fileUrl' \in Files \cup {NoFile}
      /\ UNCHANGED <<names, viewerWaits, id, file, shownName, owner, directory, previewType,
                     status, dialogs, op>>
  BY <1>1, ToGoesOn DEF ContentComes, Pcs, FileTypeOK, status, dialogs
<1>3. FileTypeOK'
  <2>1. RunsOK'
    BY <1>1, <1>2 DEF GoesOn, RunsOK, Pcs, status, dialogs
  <2>2. /\ names' \in [Files -> {"old", "new"}] /\ shownName' \in {"old", "new"}
        /\ {id, file, owner, fileUrl, directory, previewType}' \subseteq Files \cup {NoFile}
    BY <1>1, <1>2 DEF GoesOn, RunsOK, Pcs, status, dialogs, FileTypeOK, OneRun, Live
  <2>3. /\ {viewerWaits, fileLoading, fileError, canPreview, iframeError}' \subseteq BOOLEAN
        /\ {deleteOpen, deleting, convertOpen, converting}' \subseteq BOOLEAN
    BY <1>1, <1>2 DEF GoesOn, RunsOK, Pcs, status, dialogs, FileTypeOK
  <2>4. op' \in [pc : {"idle", "rename", "delete", "convert"}, of : Files \cup {NoFile},
                mounted : BOOLEAN]
    BY <1>1, <1>2 DEF GoesOn, RunsOK, Pcs, status, dialogs, FileTypeOK
  <2> QED
    BY <2>1, <2>2, <2>3, <2>4 DEF FileTypeOK, RunsOK, Pcs
<1>4. OneRun'
  BY FileViewAssumption, <1>1, <1>2 DEF GoesOn, RunsOK, Pcs, status, dialogs, OneRun, Live
<1>5. LiveRun'
  BY FileViewAssumption, <1>1, <1>2
     DEF GoesOn, RunsOK, Pcs, status, dialogs, OneRun, LiveRun, Live, FileTypeOK
<1>6. OwnersAsked'
  BY FileViewAssumption, <1>1, <1>2
     DEF GoesOn, RunsOK, Pcs, status, dialogs, OwnersAsked, FileTypeOK
<1>7. Shown'
  BY FileViewAssumption, <1>1, <1>2
     DEF GoesOn, RunsOK, Pcs, status, dialogs, Shown, OneRun, LiveRun, OwnersAsked, Live,
         FileTypeOK
<1>8. OneAtATime'
  BY FileViewAssumption, <1>1, <1>2
     DEF GoesOn, RunsOK, Pcs, status, dialogs, OneAtATime, OneRun, LiveRun, Live, Shown,
         FileTypeOK
<1>9. OneFileShown'
  BY FileViewAssumption, <1>1, <1>2
     DEF GoesOn, RunsOK, Pcs, status, dialogs, OneFileShown, ShownWhole, OneAtATime,
         Shown, OneRun, LiveRun, Live, FileTypeOK
<1> QED
  BY <1>3, <1>4, <1>5, <1>6, <1>7, <1>8, <1>9 DEF FileInv

LEMMA DirectoryComesKeeps == ASSUME FileInv, NEW r \in Runs, DirectoryComes(r) PROVE FileInv'
<1>1. FileTypeOK /\ OneRun /\ LiveRun /\ OwnersAsked /\ Shown /\ OneAtATime /\ OneFileShown
  BY DEF FileInv
<1>2. /\ run[r].pc = "directory" /\ GoesOn(r, "idle") /\ directory' \in Files \cup {NoFile}
      /\ fileLoading' = (fileLoading /\ ~run[r].mounted)
      /\ UNCHANGED <<names, viewerWaits, id, file, shownName, owner, fileUrl, previewType,
                     fileError,
                     canPreview, iframeError, dialogs, op>>
  BY <1>1, ToGoesOn DEF DirectoryComes, Pcs, FileTypeOK, dialogs
<1>3. FileTypeOK'
  <2>1. RunsOK'
    BY <1>1, <1>2 DEF GoesOn, RunsOK, Pcs, dialogs
  <2>2. /\ names' \in [Files -> {"old", "new"}] /\ shownName' \in {"old", "new"}
        /\ {id, file, owner, fileUrl, directory, previewType}' \subseteq Files \cup {NoFile}
    BY <1>1, <1>2 DEF GoesOn, RunsOK, Pcs, dialogs, FileTypeOK, OneRun, Live
  <2>3. /\ {viewerWaits, fileLoading, fileError, canPreview, iframeError}' \subseteq BOOLEAN
        /\ {deleteOpen, deleting, convertOpen, converting}' \subseteq BOOLEAN
    BY <1>1, <1>2 DEF GoesOn, RunsOK, Pcs, dialogs, FileTypeOK
  <2>4. op' \in [pc : {"idle", "rename", "delete", "convert"}, of : Files \cup {NoFile},
                mounted : BOOLEAN]
    BY <1>1, <1>2 DEF GoesOn, RunsOK, Pcs, dialogs, FileTypeOK
  <2> QED
    BY <2>1, <2>2, <2>3, <2>4 DEF FileTypeOK, RunsOK, Pcs
<1>4. OneRun'
  BY FileViewAssumption, <1>1, <1>2 DEF GoesOn, RunsOK, Pcs, dialogs, OneRun, Live
<1>5. LiveRun'
  BY FileViewAssumption, <1>1, <1>2
     DEF GoesOn, RunsOK, Pcs, dialogs, OneRun, LiveRun, Live, FileTypeOK
<1>6. OwnersAsked'
  BY FileViewAssumption, <1>1, <1>2 DEF GoesOn, RunsOK, Pcs, dialogs, OwnersAsked, FileTypeOK
<1>7. Shown'
  BY FileViewAssumption, <1>1, <1>2
     DEF GoesOn, RunsOK, Pcs, dialogs, Shown, OneRun, LiveRun, OwnersAsked, Live,
         FileTypeOK
<1>8. OneAtATime'
  BY FileViewAssumption, <1>1, <1>2
     DEF GoesOn, RunsOK, Pcs, dialogs, OneAtATime, OneRun, LiveRun, Live, Shown,
         FileTypeOK
<1>9. OneFileShown'
  BY FileViewAssumption, <1>1, <1>2
     DEF GoesOn, RunsOK, Pcs, dialogs, OneFileShown, ShownWhole, OneAtATime, Shown,
         OneRun, LiveRun, Live, FileTypeOK
<1> QED
  BY <1>3, <1>4, <1>5, <1>6, <1>7, <1>8, <1>9 DEF FileInv

\* What AfterOwner does, by cases of the file and of what the run may still set.
LEMMA AfterOwnerDoes ==
    ASSUME FileTypeOK, NEW r \in Runs, run[r].pc # "idle", AfterOwner(r)
    PROVE  /\ GoesOn(r, IF run[r].of \in Problematic THEN "idle"
                        ELSE IF run[r].of \in Viewable THEN "content" ELSE "directory")
           /\ id = NoFile => UNCHANGED <<previewType, canPreview>>
           /\ id # NoFile => /\ previewType' = run[r].of
                             /\ canPreview' = (run[r].of \in Viewable /\ run[r].of \notin Problematic)
           /\ fileLoading' = (fileLoading /\ ~(run[r].of \in Problematic /\ run[r].mounted))
BY ToGoesOn DEF AfterOwner, Pcs, FileTypeOK

LEMMA OwnerComesKeeps == ASSUME FileInv, NEW r \in Runs, OwnerComes(r) PROVE FileInv'
<1>1. FileTypeOK /\ OneRun /\ LiveRun /\ OwnersAsked /\ Shown /\ OneAtATime /\ OneFileShown
  BY DEF FileInv
<1> DEFINE pc == IF run[r].of \in Problematic THEN "idle"
                ELSE IF run[r].of \in Viewable THEN "content" ELSE "directory"
<1>a. AfterOwner(r) /\ run[r].pc # "idle"
  BY DEF OwnerComes
<1>b. /\ GoesOn(r, pc)
      /\ id = NoFile => UNCHANGED <<previewType, canPreview>>
      /\ id # NoFile => /\ previewType' = run[r].of
                        /\ canPreview' = (run[r].of \in Viewable /\ run[r].of \notin Problematic)
      /\ fileLoading' = (fileLoading /\ ~(run[r].of \in Problematic /\ run[r].mounted))
  BY <1>1, <1>a, AfterOwnerDoes
<1>4. /\ run[r].pc = "owner" /\ owner' \in IF run[r].mounted THEN {run[r].of, owner} ELSE {owner}
      /\ UNCHANGED <<names, viewerWaits, id, file, shownName, fileUrl, directory, fileError,
                     iframeError, dialogs, op>>
  BY Zenon DEF OwnerComes
<1>5. FileTypeOK'
  <2>1. RunsOK'
    BY <1>1, <1>b, <1>4 DEF GoesOn, RunsOK, Pcs, dialogs
  <2>2. /\ names' \in [Files -> {"old", "new"}] /\ shownName' \in {"old", "new"}
        /\ {id, file, owner, fileUrl, directory, previewType}' \subseteq Files \cup {NoFile}
    BY <1>1, <1>b, <1>4 DEF GoesOn, RunsOK, Pcs, dialogs, FileTypeOK, OneRun, Live
  <2>3. /\ {viewerWaits, fileLoading, fileError, canPreview, iframeError}' \subseteq BOOLEAN
        /\ {deleteOpen, deleting, convertOpen, converting}' \subseteq BOOLEAN
    BY <1>1, <1>b, <1>4 DEF GoesOn, RunsOK, Pcs, dialogs, FileTypeOK
  <2>4. op' \in [pc : {"idle", "rename", "delete", "convert"}, of : Files \cup {NoFile},
                mounted : BOOLEAN]
    BY <1>1, <1>b, <1>4 DEF GoesOn, RunsOK, Pcs, dialogs, FileTypeOK
  <2> QED
    BY <2>1, <2>2, <2>3, <2>4 DEF FileTypeOK, RunsOK, Pcs
<1>6. OneRun'
  BY FileViewAssumption, <1>1, <1>b, <1>4 DEF GoesOn, RunsOK, Pcs, dialogs, OneRun, Live
<1>7. LiveRun'
  BY FileViewAssumption, <1>1, <1>b, <1>4
     DEF GoesOn, RunsOK, Pcs, dialogs, OneRun, LiveRun, Live, FileTypeOK
<1>8. OwnersAsked'
  BY FileViewAssumption, <1>1, <1>b, <1>4
     DEF GoesOn, RunsOK, Pcs, dialogs, OwnersAsked, FileTypeOK
<1>9. Shown'
  BY FileViewAssumption, <1>1, <1>b, <1>4
     DEF GoesOn, RunsOK, Pcs, dialogs, Shown, OneRun, LiveRun, OwnersAsked, Live,
         FileTypeOK
<1>10. OneAtATime'
  BY FileViewAssumption, <1>1, <1>b, <1>4
     DEF GoesOn, RunsOK, Pcs, dialogs, OneAtATime, OneRun, LiveRun, Live, Shown,
         FileTypeOK
<1>11. OneFileShown'
  BY FileViewAssumption, <1>1, <1>b, <1>4
     DEF GoesOn, RunsOK, Pcs, dialogs, OneFileShown, ShownWhole, OneAtATime, Shown,
         OneRun, LiveRun, Live, FileTypeOK
<1> QED
  BY <1>5, <1>6, <1>7, <1>8, <1>9, <1>10, <1>11 DEF FileInv

\* The answer that names the file is dropped, leads to its owner, or shows it at once.
LEMMA MetadataDropped == ASSUME FileInv, NEW r \in Runs, Metadata(r),
    ~run[r].mounted PROVE FileInv'
<1>1. FileTypeOK /\ OneRun /\ LiveRun /\ OwnersAsked /\ Shown /\ OneAtATime /\ OneFileShown
  BY DEF FileInv
<1>2. /\ run[r].pc = "metadata" /\ ~run[r].mounted /\ GoesOn(r, "idle")
      /\ UNCHANGED <<names, viewerWaits, id, owner, fileUrl, directory, fileError, iframeError,
                     dialogs, op, file, shownName, previewType, canPreview, fileLoading>>
  BY <1>1, ToGoesOn DEF Metadata, Pcs, dialogs
<1>3. FileTypeOK'
  <2>1. RunsOK'
    BY <1>1, <1>2 DEF GoesOn, RunsOK, Pcs, dialogs
  <2>2. /\ names' \in [Files -> {"old", "new"}] /\ shownName' \in {"old", "new"}
        /\ {id, file, owner, fileUrl, directory, previewType}' \subseteq Files \cup {NoFile}
    BY <1>1, <1>2 DEF GoesOn, RunsOK, Pcs, dialogs, FileTypeOK, OneRun, Live
  <2>3. /\ {viewerWaits, fileLoading, fileError, canPreview, iframeError}' \subseteq BOOLEAN
        /\ {deleteOpen, deleting, convertOpen, converting}' \subseteq BOOLEAN
    BY <1>1, <1>2 DEF GoesOn, RunsOK, Pcs, dialogs, FileTypeOK
  <2>4. op' \in [pc : {"idle", "rename", "delete", "convert"}, of : Files \cup {NoFile},
                mounted : BOOLEAN]
    BY <1>1, <1>2 DEF GoesOn, RunsOK, Pcs, dialogs, FileTypeOK
  <2> QED
    BY <2>1, <2>2, <2>3, <2>4 DEF FileTypeOK, RunsOK, Pcs
<1>4. OneRun'
  BY FileViewAssumption, <1>1, <1>2 DEF GoesOn, RunsOK, Pcs, dialogs, OneRun, Live
<1>5. LiveRun'
  BY FileViewAssumption, <1>1, <1>2
     DEF GoesOn, RunsOK, Pcs, dialogs, OneRun, LiveRun, Live, FileTypeOK
<1>6. OwnersAsked'
  BY FileViewAssumption, <1>1, <1>2 DEF GoesOn, RunsOK, Pcs, dialogs, OwnersAsked, FileTypeOK
<1>7. Shown'
  BY FileViewAssumption, <1>1, <1>2
     DEF GoesOn, RunsOK, Pcs, dialogs, Shown, OneRun, LiveRun, OwnersAsked, Live,
         FileTypeOK
<1>8. OneAtATime'
  BY FileViewAssumption, <1>1, <1>2
     DEF GoesOn, RunsOK, Pcs, dialogs, OneAtATime, OneRun, LiveRun, Live, Shown,
         FileTypeOK
<1>9. OneFileShown'
  BY FileViewAssumption, <1>1, <1>2
     DEF GoesOn, RunsOK, Pcs, dialogs, OneFileShown, ShownWhole, OneAtATime, Shown,
         OneRun, LiveRun, Live, FileTypeOK
<1> QED
  BY <1>3, <1>4, <1>5, <1>6, <1>7, <1>8, <1>9 DEF FileInv

LEMMA MetadataOfOthers == ASSUME FileInv, NEW r \in Runs, Metadata(r),
    run[r].mounted, run[r].of \in Foreign PROVE FileInv'
<1>1. FileTypeOK /\ OneRun /\ LiveRun /\ OwnersAsked /\ Shown /\ OneAtATime /\ OneFileShown
  BY DEF FileInv
<1>2. /\ run[r].pc = "metadata" /\ run[r].mounted /\ run[r].of \in Foreign /\ GoesOn(r, "owner")
      /\ viewerWaits => op.pc = "idle"
      /\ file' = run[r].of /\ shownName' = names[run[r].of]
      /\ UNCHANGED <<names, viewerWaits, id, owner, fileUrl, directory, fileError, iframeError,
                     dialogs, op, previewType, canPreview, fileLoading>>
  BY <1>1, ToGoesOn DEF Metadata, Pcs, dialogs, OneAtATime
<1>3. FileTypeOK'
  <2>1. RunsOK'
    BY <1>1, <1>2 DEF GoesOn, RunsOK, Pcs, dialogs
  <2>2. /\ names' \in [Files -> {"old", "new"}] /\ shownName' \in {"old", "new"}
        /\ {id, file, owner, fileUrl, directory, previewType}' \subseteq Files \cup {NoFile}
    BY <1>1, <1>2 DEF GoesOn, RunsOK, Pcs, dialogs, FileTypeOK, OneRun, Live
  <2>3. /\ {viewerWaits, fileLoading, fileError, canPreview, iframeError}' \subseteq BOOLEAN
        /\ {deleteOpen, deleting, convertOpen, converting}' \subseteq BOOLEAN
    BY <1>1, <1>2 DEF GoesOn, RunsOK, Pcs, dialogs, FileTypeOK
  <2>4. op' \in [pc : {"idle", "rename", "delete", "convert"}, of : Files \cup {NoFile},
                mounted : BOOLEAN]
    BY <1>1, <1>2 DEF GoesOn, RunsOK, Pcs, dialogs, FileTypeOK
  <2> QED
    BY <2>1, <2>2, <2>3, <2>4 DEF FileTypeOK, RunsOK, Pcs
<1>4. OneRun'
  BY FileViewAssumption, <1>1, <1>2 DEF GoesOn, RunsOK, Pcs, dialogs, OneRun, Live
<1>5. LiveRun'
  BY FileViewAssumption, <1>1, <1>2
     DEF GoesOn, RunsOK, Pcs, dialogs, OneRun, LiveRun, Live, FileTypeOK
<1>6. OwnersAsked'
  BY FileViewAssumption, <1>1, <1>2 DEF GoesOn, RunsOK, Pcs, dialogs, OwnersAsked, FileTypeOK
<1>7. Shown'
  BY FileViewAssumption, <1>1, <1>2
     DEF GoesOn, RunsOK, Pcs, dialogs, Shown, OneRun, LiveRun, OwnersAsked, Live,
         FileTypeOK
<1>8. OneAtATime'
  BY FileViewAssumption, <1>1, <1>2 DEF GoesOn, Live, dialogs, OneAtATime
<1>9. OneFileShown'
  BY FileViewAssumption, <1>1, <1>2
     DEF GoesOn, RunsOK, Pcs, dialogs, OneFileShown, ShownWhole, OneAtATime, Shown,
         OneRun, LiveRun, Live, FileTypeOK
<1> QED
  BY <1>3, <1>4, <1>5, <1>6, <1>7, <1>8, <1>9 DEF FileInv

LEMMA MetadataOfOwn == ASSUME FileInv, NEW r \in Runs, Metadata(r),
    run[r].mounted, run[r].of \notin Foreign PROVE FileInv'
<1>1. FileTypeOK /\ OneRun /\ LiveRun /\ OwnersAsked /\ Shown /\ OneAtATime /\ OneFileShown
  BY DEF FileInv
<1> DEFINE pc == IF run[r].of \in Problematic THEN "idle"
                ELSE IF run[r].of \in Viewable THEN "content" ELSE "directory"
<1>a. AfterOwner(r) /\ run[r].pc # "idle"
  BY DEF Metadata
<1>b. /\ GoesOn(r, pc)
      /\ id = NoFile => UNCHANGED <<previewType, canPreview>>
      /\ id # NoFile => /\ previewType' = run[r].of
                        /\ canPreview' = (run[r].of \in Viewable /\ run[r].of \notin Problematic)
      /\ fileLoading' = (fileLoading /\ ~(run[r].of \in Problematic /\ run[r].mounted))
  BY <1>1, <1>a, AfterOwnerDoes
<1>4. /\ run[r].pc = "metadata" /\ run[r].mounted
      /\ file' = run[r].of /\ shownName' = names[run[r].of]
      /\ UNCHANGED <<names, viewerWaits, id, owner, fileUrl, directory, fileError, iframeError,
                     dialogs, op>>
  BY Zenon DEF Metadata
<1>5. FileTypeOK'
  <2>1. RunsOK'
    BY <1>1, <1>b, <1>4 DEF GoesOn, RunsOK, Pcs, dialogs
  <2>2. /\ names' \in [Files -> {"old", "new"}] /\ shownName' \in {"old", "new"}
        /\ {id, file, owner, fileUrl, directory, previewType}' \subseteq Files \cup {NoFile}
    BY <1>1, <1>b, <1>4 DEF GoesOn, RunsOK, Pcs, dialogs, FileTypeOK, OneRun, Live
  <2>3. /\ {viewerWaits, fileLoading, fileError, canPreview, iframeError}' \subseteq BOOLEAN
        /\ {deleteOpen, deleting, convertOpen, converting}' \subseteq BOOLEAN
    BY <1>1, <1>b, <1>4 DEF GoesOn, RunsOK, Pcs, dialogs, FileTypeOK
  <2>4. op' \in [pc : {"idle", "rename", "delete", "convert"}, of : Files \cup {NoFile},
                mounted : BOOLEAN]
    BY <1>1, <1>b, <1>4 DEF GoesOn, RunsOK, Pcs, dialogs, FileTypeOK
  <2> QED
    BY <2>1, <2>2, <2>3, <2>4 DEF FileTypeOK, RunsOK, Pcs
<1>6. OneRun'
  BY FileViewAssumption, <1>1, <1>b, <1>4 DEF GoesOn, RunsOK, Pcs, dialogs, OneRun, Live
<1>7. LiveRun'
  BY FileViewAssumption, <1>1, <1>b, <1>4
     DEF GoesOn, RunsOK, Pcs, dialogs, OneRun, LiveRun, Live, FileTypeOK
<1>8. OwnersAsked'
  BY FileViewAssumption, <1>1, <1>b, <1>4
     DEF GoesOn, RunsOK, Pcs, dialogs, OwnersAsked, FileTypeOK
<1>9. Shown'
  BY FileViewAssumption, <1>1, <1>b, <1>4
     DEF GoesOn, RunsOK, Pcs, dialogs, Shown, OneRun, LiveRun, OwnersAsked, Live,
         FileTypeOK
<1>10. OneAtATime'
  BY FileViewAssumption, <1>1, <1>b, <1>4
     DEF GoesOn, RunsOK, Pcs, dialogs, OneAtATime, OneRun, LiveRun, Live, Shown,
         FileTypeOK
<1>11. OneFileShown'
  BY FileViewAssumption, <1>1, <1>b, <1>4
     DEF GoesOn, RunsOK, Pcs, dialogs, OneFileShown, ShownWhole, OneAtATime, Shown,
         OneRun, LiveRun, Live, FileTypeOK
<1> QED
  BY <1>5, <1>6, <1>7, <1>8, <1>9, <1>10, <1>11 DEF FileInv

LEMMA MetadataKeeps == ASSUME FileInv, NEW r \in Runs, Metadata(r) PROVE FileInv'
  BY MetadataDropped, MetadataOfOthers, MetadataOfOwn

LEMMA FileStutter == ASSUME FileInv, UNCHANGED fileVars PROVE FileInv'
  BY DEF fileVars, FileInv, FileTypeOK, OneRun, Live, LiveRun, OwnersAsked, Shown,
         OneAtATime, OneFileShown,
         ShownWhole

-----------------------------------------------------------------------------
\* The invariant holds in every state, and with it the types.
LEMMA FileNextKeeps == FileInv /\ [FileNext]_fileVars => FileInv'
<1> SUFFICES ASSUME FileInv, [FileNext]_fileVars PROVE FileInv'
  OBVIOUS
<1>1. CASE \E r \in Runs : RunStep(r)
  BY <1>1, MetadataKeeps, MetadataFailsKeeps, OwnerComesKeeps, ContentComesKeeps,
     DirectoryComesKeeps
     DEF RunStep
<1>2. CASE \E r \in Runs : Renew(r) \/ \E f \in Files : Visit(r, f) \/ Jump(r, f)
  BY <1>2, RenewKeeps, VisitKeeps, JumpKeeps
<1>3. CASE OpStep
  BY <1>3, RenamedKeeps, FileDeletedKeeps, ConvertedKeeps, OpFailsKeeps DEF OpStep
<1>4. CASE Leave \/ PreviewBreaks \/ Rename \/ Ask \/ Cancel \/ DeleteFile \/ Convert
  BY <1>4, LeaveKeeps, PreviewBreaksKeeps, RenameKeeps, AskKeeps, CancelKeeps, DeleteFileKeeps,
     ConvertKeeps
<1>5. CASE UNCHANGED fileVars
  BY <1>5, FileStutter
<1> QED
  BY <1>1, <1>2, <1>3, <1>4, <1>5 DEF FileNext

LEMMA FileInvHolds == FileSpec => []FileInv
  BY FileInitOK, FileNextKeeps, PTL DEF FileSpec

\* The types of FileView hold for any files and runs.
THEOREM FileTypeCorrect == FileSpec => []FileTypeOK
<1>1. FileInv => FileTypeOK
  BY DEF FileInv
<1> QED
  BY <1>1, FileInvHolds, PTL

\* FileViewPage, opened, left, and led from file to file while answers and renewals of the
\* access token come in any order, never shows what is of another file than the address.
THEOREM AddressIsFollowed == FileSpec => []FileFollowsAddress
  BY FileInvGives, FileInvHolds, PTL

-----------------------------------------------------------------------------
(* ShareDialog.                                                            *)

\* Links have an identity each, and there are finitely many.
LinksOK ==
    /\ links \subseteq Link /\ IsFiniteSet(links) /\ made \in Nat
    /\ \A l, m \in links : l.id = m.id => l = m
    /\ \A l \in links : l.id <= made

DialogCall == [pc : {"idle", "sent", "served", "failed"}, kind : CallKinds,
               link : [id : 0..MaxMade, forever : BOOLEAN], was : BOOLEAN, mine : BOOLEAN,
               got : SUBSET Link]
CallsOK == listed \subseteq Link /\ editing \in Link \cup {Absent} /\ call \in [Calls -> DialogCall]

Asks(k, kind)  == call[k].pc # "idle" /\ call[k].kind = kind
Owed(k, kind)  == call[k].pc = "served" /\ call[k].kind = kind

\* What the dialog and the page below it know of is there ...
Known  == /\ listed \subseteq links /\ (badge => links # {})
          /\ count \in Nat /\ count <= Cardinality(links)
\* ... and the dialog knows of everything.
Agrees == open /\ ~linkError => listed = links

\* One request, but for the list and the user that are loaded after a link is made again.
OneCall ==
    \A j, k \in Calls : call[j].pc # "idle" /\ call[k].pc # "idle" /\ j # k =>
        /\ call[j].kind \in {"load", "user"} /\ call[k].kind \in {"load", "user"}
        /\ call[j].kind # call[k].kind
Mounted == \A k \in Calls : call[k].pc # "idle" /\ call[k].kind # "user" => call[k].mine

\* What an answer that has not come yet will do.
WithoutLink(l) == {m \in listed : m.id # l.id}
WithLink(l)    == {IF m.id = l.id THEN l ELSE m : m \in listed}
AnswerTells(k) ==
    LET c == call[k] IN
    /\ Asks(k, "delete") /\ c.pc = "sent" => c.link \in listed /\ (c.was <=> Cardinality(listed) = 1)
    /\ Owed(k, "load") \/ Owed(k, "user") => c.got = links
    /\ Owed(k, "create") \/ Owed(k, "undo") => links # {}
    /\ Owed(k, "create") => c.got \subseteq links /\ count + 1 <= Cardinality(links)
    /\ Owed(k, "delete") =>
          /\ WithoutLink(c.link) \subseteq links /\ (badge /\ ~c.was => links # {})
          /\ count \in Nat /\ count <= Cardinality(links) + 1
          /\ open /\ ~linkError => WithoutLink(c.link) = links
    /\ Owed(k, "edit") =>
          /\ WithLink(c.link) \subseteq links /\ (badge => links # {})
          /\ count \in Nat /\ count <= Cardinality(links)
          /\ open /\ ~linkError => WithLink(c.link) = links

Settles ==
    /\ OneCall /\ Mounted /\ \A k \in Calls : AnswerTells(k)
    /\ (\A k \in Calls : ~Owed(k, "delete") /\ ~Owed(k, "edit")) => Known
    /\ (\A k \in Calls : \/ call[k].pc = "idle" \/ call[k].kind = "user"
                         \/ call[k].kind \in {"delete", "edit", "undo"} /\ call[k].pc # "served")
       => Agrees

DialogInv == LinksOK /\ CallsOK /\ (sharerWaits => Settles)

-----------------------------------------------------------------------------
(* What the actions do to the requests.                                    *)

LEMMA NoCallTyped == NoCall \in DialogCall /\ NoCall.pc = "idle"
<1>1. Absent \in [id : 0..MaxMade, forever : BOOLEAN]
  BY ShareDialogAssumption DEF Absent
<1> QED
  BY <1>1 DEF NoCall, DialogCall, CallKinds

Sent(k, kind, l, was) ==
    /\ call' \in [Calls -> DialogCall] /\ call[k].pc = "idle"
    /\ call'[k].pc = "sent" /\ call'[k].kind = kind /\ call'[k].link = l
    /\ call'[k].was = was /\ call'[k].mine = TRUE
    /\ \A j \in Calls \ {k} : call'[j] = call[j]

LEMMA RequestSlot ==
    ASSUME CallsOK, NEW k \in Calls, NEW kind \in CallKinds,
           NEW l \in [id : 0..MaxMade, forever : BOOLEAN], NEW was, was \in {TRUE, FALSE},
           Request(k, kind, l, was)
    PROVE  Sent(k, kind, l, was)
<1> DEFINE c == [NoCall EXCEPT !.pc = "sent", !.kind = kind, !.link = l, !.was = was, !.mine = TRUE]
<1>1. c.pc = "sent" /\ c.kind = kind /\ c.link = l /\ c.was = was /\ c.mine = TRUE
  BY DEF NoCall
<1>2. c \in DialogCall
  BY DEF NoCall, DialogCall
<1>3. call' = [call EXCEPT ![k] = c] /\ call[k].pc = "idle"
  BY DEF Request
<1> HIDE DEF c
<1>4. call'[k] = c /\ call' \in [Calls -> DialogCall] /\ \A j \in Calls \ {k} : call'[j] = call[j]
  BY <1>2, <1>3 DEF CallsOK
<1> QED
  BY <1>1, <1>3, <1>4 DEF Sent

LEMMA ReleaseSlot ==
    ASSUME CallsOK, NEW k \in Calls, Release(k)
    PROVE  /\ call' \in [Calls -> DialogCall] /\ call'[k].pc = "idle"
           /\ \A j \in Calls \ {k} : call'[j] = call[j]
BY NoCallTyped DEF CallsOK, Release

\* A request for the user.
Asking(k) ==
    /\ call' \in [Calls -> DialogCall]
    /\ call'[k].pc = "sent" /\ call'[k].kind = "user"
    /\ \A j \in Calls \ {k} : /\ call'[j].pc = call[j].pc /\ call'[j].kind = call[j].kind
                             /\ call'[j].link = call[j].link

LEMMA RefreshTyped ==
    ASSUME NEW q, q = [NoCall EXCEPT !.pc = "sent", !.kind = "user"]
    PROVE  q \in DialogCall /\ q.pc = "sent" /\ q.kind = "user"
BY NoCallTyped DEF NoCall, DialogCall, CallKinds

LEMMA RefreshSlot ==
    ASSUME CallsOK, NEW k \in Calls, call' = Refresh(call, k)
    PROVE  Asking(k)
<1> DEFINE q == [NoCall EXCEPT !.pc = "sent", !.kind = "user"]
<1>1. q \in DialogCall /\ q.pc = "sent" /\ q.kind = "user"
  BY RefreshTyped
<1>2. call' = [call EXCEPT ![k] = q]
  BY DEF Refresh
<1> HIDE DEF q
<1> QED
  BY <1>1, <1>2 DEF CallsOK, Asking

LEMMA UnmountedTyped ==
    ASSUME CallsOK
    PROVE  /\ Unmounted(call) \in [Calls -> DialogCall]
           /\ \A k \in Calls : /\ Unmounted(call)[k].pc = call[k].pc
                              /\ Unmounted(call)[k].kind = call[k].kind
                              /\ Unmounted(call)[k].link = call[k].link
<1>1. CASE kept
  BY <1>1 DEF Unmounted, CallsOK
<1>2. CASE ~kept
  <2>1. Unmounted(call) = [k \in Calls |-> [call[k] EXCEPT !.mine = FALSE]]
    BY <1>2 DEF Unmounted
  <2>2. ASSUME NEW q \in DialogCall
        PROVE  [q EXCEPT !.mine = FALSE] \in DialogCall /\ [q EXCEPT !.mine = FALSE].pc = q.pc
               /\ [q EXCEPT !.mine = FALSE].kind = q.kind
               /\ [q EXCEPT !.mine = FALSE].link = q.link
    BY DEF DialogCall
  <2>3. \A k \in Calls : call[k] \in DialogCall
    BY DEF CallsOK
  <2> QED
    BY <2>1, <2>2, <2>3
<1> QED
  BY <1>1, <1>2

LEMMA UnmountedRefreshSlot ==
    ASSUME CallsOK, NEW k \in Calls, call' = Refresh(Unmounted(call), k)
    PROVE  Asking(k)
<1> DEFINE q == [NoCall EXCEPT !.pc = "sent", !.kind = "user"]
           u == Unmounted(call)
<1>1. q \in DialogCall /\ q.pc = "sent" /\ q.kind = "user"
  BY RefreshTyped
<1>2. /\ u \in [Calls -> DialogCall]
      /\ \A j \in Calls : /\ u[j].pc = call[j].pc /\ u[j].kind = call[j].kind
                         /\ u[j].link = call[j].link
  BY UnmountedTyped
<1>3. call' = [u EXCEPT ![k] = q]
  BY DEF Refresh
<1> HIDE DEF q, u
<1> QED
  BY <1>1, <1>2, <1>3 DEF Asking

\* The server answers.
LEMMA ServeSlot ==
    ASSUME CallsOK, NEW k \in Calls, NEW got \in SUBSET Link,
           call' = [call EXCEPT ![k].pc = "served", ![k].got = got]
    PROVE  /\ call' \in [Calls -> DialogCall]
           /\ call'[k].pc = "served" /\ call'[k].got = got
           /\ call'[k].kind = call[k].kind /\ call'[k].link = call[k].link
           /\ call'[k].was = call[k].was /\ call'[k].mine = call[k].mine
           /\ \A j \in Calls \ {k} : call'[j] = call[j]
BY DEF CallsOK, DialogCall

-----------------------------------------------------------------------------
(* What is enough for Settles when one request is left, or none.           *)

LEMMA AloneSettles ==
    ASSUME NEW k \in Calls, \A j \in Calls \ {k} : call'[j].pc = "idle",
           call'[k].pc # "idle" /\ call'[k].kind # "user" => call'[k].mine,
           call'[k].pc # "idle" => AnswerTells(k)',
           \/ call'[k].pc = "served" /\ call'[k].kind \in {"delete", "edit"}
           \/ Known',
           \/ call'[k].pc # "idle" /\ call'[k].kind \in {"load", "create"}
           \/ call'[k].pc = "served" /\ call'[k].kind \in {"delete", "edit", "undo"}
           \/ Agrees'
    PROVE  Settles'
<1>1. \A j \in Calls : call'[j].pc = "idle" => AnswerTells(j)'
  BY DEF AnswerTells, Asks, Owed
<1>2. \A j \in Calls : AnswerTells(j)'
  BY <1>1
<1>3. OneCall' /\ Mounted'
  BY DEF OneCall, Mounted
<1> QED
  BY <1>2, <1>3 DEF Settles, Owed

\* Whoever waits has nothing under way.
LEMMA QuietSettles ==
    ASSUME DialogInv, sharerWaits, DialogQuiet
    PROVE  Known /\ Agrees
BY DEF DialogInv, Settles, DialogQuiet, Owed

LEMMA DialogInvGives == DialogInv => DialogSettles
<1> SUFFICES ASSUME DialogInv, sharerWaits, DialogQuiet PROVE DialogSettles
  BY DEF DialogSettles
<1> QED
  BY QuietSettles DEF DialogSettles, Known, Agrees

LEMMA OneLinkFinite ==
    \A S \in SUBSET Link : (\A l \in S : l.id = 1 /\ l.forever = TRUE) => IsFiniteSet(S)
<1> TAKE S \in SUBSET Link
<1> HAVE \A l \in S : l.id = 1 /\ l.forever = TRUE
<1>1. S \subseteq {[id |-> 1, forever |-> TRUE]}
  BY DEF Link
<1>2. IsFiniteSet({[id |-> 1, forever |-> TRUE]})
  BY FS_Singleton
<1> QED
  BY <1>1, <1>2, FS_Subset

LEMMA DialogInitOK == ShareInit => DialogInv
<1> SUFFICES ASSUME ShareInit PROVE DialogInv
  OBVIOUS
<1>1. /\ links = {l \in Link : l.id <= made /\ l.forever} /\ made \in 0..1
      /\ open = FALSE /\ listed = {} /\ editing = Absent
      /\ badge = (links # {}) /\ count = Cardinality(links)
      /\ call = [k \in Calls |-> NoCall]
  BY DEF ShareInit
<1>2. \A l \in links : l \in Link /\ l.id = 1 /\ l.forever = TRUE
  <2> TAKE l \in links
  <2>1. l \in Link /\ l.id <= made /\ l.forever
    BY <1>1
  <2>2. l.id \in 1..MaxMade /\ l.forever \in BOOLEAN
    BY <2>1 DEF Link
  <2> QED
    BY <1>1, <2>1, <2>2, ShareDialogAssumption
<1>3. LinksOK
  <2>1. IsFiniteSet(links)
    BY <1>2, OneLinkFinite
  <2>2. \A l, m \in links : l = m
    BY <1>2 DEF Link
  <2>3. \A l \in links : l.id <= made
    BY <1>1
  <2> QED
    BY <1>1, <1>2, <2>1, <2>2, <2>3 DEF LinksOK
<1>4. CallsOK /\ \A k \in Calls : call[k].pc = "idle"
  BY <1>1, NoCallTyped DEF CallsOK
<1>5. Known /\ Agrees
  <2>1. badge => links # {}
    BY <1>1
  <2>2. Cardinality(links) \in Nat
    BY <1>3, FS_CardinalityType DEF LinksOK
  <2>3. count \in Nat /\ count <= Cardinality(links) /\ listed = {} /\ ~open
    BY <1>1, <2>2
  <2> QED
    BY <2>1, <2>3 DEF Known, Agrees
<1>6. Settles
  BY <1>4, <1>5 DEF Settles, OneCall, Mounted, AnswerTells, Asks, Owed
<1> QED
  BY <1>3, <1>4, <1>6 DEF DialogInv

-----------------------------------------------------------------------------
(* What the user does.                                                     *)

\* Whether the link was the last one of the list.
SaysLast(was) == was = (Cardinality(listed) = 1)

\* A request that a dialog sends when nothing is under way, and what it changes.
LEMMA SendKeepsDialog ==
    ASSUME DialogInv, NEW k \in Calls, NEW kind \in CallKinds \ {"user"},
           NEW l \in [id : 0..MaxMade, forever : BOOLEAN], NEW was, Sent(k, kind, l, was),
           SharerReady, UNCHANGED <<links, made, sharerWaits, badge, count>>,
           listed' \subseteq listed, editing' \in {editing, Absent},
           \/ UNCHANGED <<open, listed, linkError>>
           \/ kind \in {"load", "create"},
           kind = "delete" => l \in listed /\ SaysLast(was)
    PROVE  DialogInv'
<1>1. /\ call' \in [Calls -> DialogCall] /\ call[k].pc = "idle"
      /\ call'[k].pc = "sent" /\ call'[k].kind = kind /\ call'[k].link = l
      /\ call'[k].was = was /\ call'[k].mine = TRUE
      /\ \A j \in Calls \ {k} : call'[j] = call[j]
  BY DEF Sent
<1>2. LinksOK' /\ CallsOK'
  BY <1>1 DEF DialogInv, LinksOK, CallsOK
<1>3. ASSUME sharerWaits PROVE Settles'
  <2>1. DialogQuiet /\ \A j \in Calls \ {k} : call'[j].pc = "idle"
    BY <1>1, <1>3 DEF SharerReady, DialogQuiet
  <2>2. Known /\ Agrees
    BY <1>3, <2>1, QuietSettles
  <2>3. Known' /\ (kind \in {"load", "create"} \/ Agrees')
    BY <2>2 DEF Known, Agrees
  <2>4. AnswerTells(k)'
    BY <1>1 DEF AnswerTells, Asks, Owed, SaysLast
  <2> QED
    BY <1>1, <2>1, <2>3, <2>4, AloneSettles
<1> QED
  BY <1>2, <1>3 DEF DialogInv

LEMMA AbsentTyped == Absent \in [id : 0..MaxMade, forever : BOOLEAN]
BY ShareDialogAssumption DEF Absent

LEMMA LinkTyped == \A l \in Link : l \in [id : 0..MaxMade, forever : BOOLEAN]
BY DEF Link

LEMMA OpenDialogKeeps == ASSUME DialogInv, NEW k \in Calls, OpenDialog(k) PROVE DialogInv'
<1>1. /\ Request(k, "load", Absent, FALSE) /\ SharerReady
      /\ UNCHANGED <<links, made, sharerWaits, badge, count>>
      /\ listed' \subseteq listed /\ editing' \in {editing, Absent}
  BY DEF OpenDialog, server, regime, outside
<1>2. Sent(k, "load", Absent, FALSE)
  BY <1>1, AbsentTyped, RequestSlot DEF CallKinds, DialogInv
<1> QED
  BY <1>1, AbsentTyped, <1>2, SendKeepsDialog DEF CallKinds

LEMMA CreateKeeps ==
    ASSUME DialogInv, NEW k \in Calls, NEW forever \in BOOLEAN, Create(k, forever)
    PROVE  DialogInv'
<1>1. /\ Request(k, "create", [id |-> 0, forever |-> forever], listed = {}) /\ SharerReady
      /\ UNCHANGED <<links, made, sharerWaits, badge, count, listed, editing>>
  BY DEF Create, server, regime, outside, editor
<1>2. [id |-> 0, forever |-> forever] \in [id : 0..MaxMade, forever : BOOLEAN]
  BY ShareDialogAssumption
<1>3. Sent(k, "create", [id |-> 0, forever |-> forever], listed = {})
  BY <1>1, <1>2, RequestSlot DEF CallKinds, DialogInv
<1> QED
  BY <1>1, <1>2, <1>3, SendKeepsDialog DEF CallKinds

LEMMA DeleteKeeps ==
    ASSUME DialogInv, NEW k \in Calls, NEW l \in Link, Delete(k, l)
    PROVE  DialogInv'
<1>1. /\ Request(k, "delete", l, Cardinality(listed) = 1) /\ SharerReady /\ l \in listed
      /\ UNCHANGED <<links, made, sharerWaits, badge, count, listed, editing, open, linkError>>
  BY DEF Delete, server, regime, outside, editor, list
<1>2. Sent(k, "delete", l, Cardinality(listed) = 1)
  BY <1>1, LinkTyped, RequestSlot DEF CallKinds, DialogInv
<1> QED
  BY <1>1, LinkTyped, <1>2, SendKeepsDialog DEF CallKinds, SaysLast

LEMMA SaveKeeps == ASSUME DialogInv, NEW k \in Calls, Save(k) PROVE DialogInv'
<1>1. /\ Request(k, "edit", [editing EXCEPT !.forever = FALSE], FALSE) /\ SharerReady /\ editing # Absent
      /\ UNCHANGED <<links, made, sharerWaits, badge, count, listed, editing, open, linkError>>
  BY DEF Save, server, regime, outside, list
<1>2. [editing EXCEPT !.forever = FALSE] \in [id : 0..MaxMade, forever : BOOLEAN]
  <2>1. editing \in [id : 0..MaxMade, forever : BOOLEAN]
    BY <1>1, LinkTyped DEF DialogInv, CallsOK
  <2> QED
    BY <2>1
<1>3. Sent(k, "edit", [editing EXCEPT !.forever = FALSE], FALSE)
  BY <1>1, <1>2, RequestSlot DEF CallKinds, DialogInv
<1> QED
  BY <1>1, <1>2, <1>3, SendKeepsDialog DEF CallKinds

LEMMA UndoDeleteKeeps ==
    ASSUME DialogInv, NEW k \in Calls, NEW l \in Link, UndoDelete(k, l)
    PROVE  DialogInv'
<1>1. /\ Request(k, "undo", l, FALSE) /\ SharerReady
      /\ UNCHANGED <<links, made, sharerWaits, badge, count, listed, editing, open, linkError>>
  BY DEF UndoDelete, server, regime, editor, list
<1>2. Sent(k, "undo", l, FALSE)
  BY <1>1, LinkTyped, RequestSlot DEF CallKinds, DialogInv
<1> QED
  BY <1>1, LinkTyped, <1>2, SendKeepsDialog DEF CallKinds

\* The user closes the dialog, when nothing is under way.
LEMMA CloseDialogKeeps == ASSUME DialogInv, CloseDialog PROVE DialogInv'
<1>1. /\ open' = FALSE /\ call' = Unmounted(call) /\ SharerReady
      /\ UNCHANGED <<links, made, sharerWaits, badge, count, listed, editing, linkError>>
  BY DEF CloseDialog, server, regime, outside, editor
<1>2. /\ call' \in [Calls -> DialogCall]
      /\ \A k \in Calls : call'[k].pc = call[k].pc /\ call'[k].kind = call[k].kind
  BY <1>1, UnmountedTyped DEF DialogInv
<1>3. LinksOK' /\ CallsOK'
  BY <1>1, <1>2 DEF DialogInv, LinksOK, CallsOK
<1>4. ASSUME sharerWaits PROVE Settles'
  <2>1. DialogQuiet /\ \A j \in Calls : call'[j].pc = "idle"
    BY <1>1, <1>2, <1>4 DEF SharerReady, DialogQuiet
  <2>2. Known' /\ Agrees'
    BY <1>1, <1>4, <2>1, QuietSettles DEF Known, Agrees
  <2> QED
    BY <2>1, <2>2 DEF Settles, OneCall, Mounted, AnswerTells, Asks, Owed
<1> QED
  BY <1>1, <1>3, <1>4 DEF DialogInv

\* Nothing that the invariant is about changes.
LEMMA SameSettles ==
    ASSUME DialogInv, editing' \in Link \cup {Absent},
           UNCHANGED <<links, made, sharerWaits, badge, count, listed, open, linkError, call>>
    PROVE  DialogInv'
<1>1. LinksOK' /\ CallsOK'
  BY DEF DialogInv, LinksOK, CallsOK
<1>2. (Known => Known') /\ (Agrees => Agrees') /\ (OneCall => OneCall') /\ (Mounted => Mounted')
  BY DEF Known, Agrees, OneCall, Mounted
<1>3. \A k \in Calls : AnswerTells(k) => AnswerTells(k)'
  BY DEF AnswerTells, Asks, Owed, WithoutLink, WithLink
<1>4. Settles => Settles'
  BY <1>2, <1>3 DEF Settles, Owed
<1> QED
  BY <1>1, <1>4 DEF DialogInv

LEMMA ShowCreateFormKeeps == ASSUME DialogInv, ShowCreateForm PROVE DialogInv'
BY SameSettles DEF ShowCreateForm, server, regime, list, editor, outside, DialogInv, CallsOK

LEMMA EditLinkKeeps == ASSUME DialogInv, NEW l \in Link, EditLink(l) PROVE DialogInv'
BY SameSettles DEF EditLink, server, regime, list, outside

LEMMA CancelEditKeeps == ASSUME DialogInv, CancelEdit PROVE DialogInv'
BY SameSettles DEF CancelEdit, server, regime, list, outside

LEMMA ExpireKeeps == ASSUME DialogInv, NEW l, Expire(l) PROVE DialogInv'
BY SameSettles DEF Expire, server, regime, list, editor, DialogInv, CallsOK

LEMMA ShareStutter == ASSUME DialogInv, UNCHANGED shareVars PROVE DialogInv'
BY SameSettles DEF shareVars, DialogInv, CallsOK

-----------------------------------------------------------------------------
(* The server.                                                             *)

LEMMA LinkAdded ==
    ASSUME LinksOK, NEW l \in Link, l.id = made + 1, links' = links \cup {l}, made' = made + 1
    PROVE  LinksOK' /\ Cardinality(links) \in Nat /\ Cardinality(links') = Cardinality(links) + 1
<1>1. l \notin links
  BY DEF LinksOK
<1>2. /\ IsFiniteSet(links') /\ Cardinality(links) \in Nat
      /\ Cardinality(links') = Cardinality(links) + 1
  BY <1>1, FS_AddElement, FS_CardinalityType DEF LinksOK
<1>3. \A m \in links : m.id \in Nat
  BY DEF LinksOK, Link
<1> QED
  BY <1>2, <1>3 DEF LinksOK

LEMMA LinkGone ==
    ASSUME LinksOK, NEW x \in links, links' = {l \in links : l.id # x.id}, made' = made
    PROVE  /\ LinksOK' /\ links' = links \ {x}
           /\ Cardinality(links') \in Nat /\ Cardinality(links) = Cardinality(links') + 1
<1>1. links' = links \ {x}
  BY DEF LinksOK
<1>2. /\ IsFiniteSet(links') /\ Cardinality(links) \in Nat
      /\ Cardinality(links') = Cardinality(links) - 1 /\ Cardinality(links') \in Nat
  BY <1>1, FS_RemoveElement, FS_CardinalityType DEF LinksOK
<1> QED
  BY <1>1, <1>2 DEF LinksOK

LEMMA LinkChanged ==
    ASSUME LinksOK, NEW x \in links, NEW e \in Link, e.id = x.id,
           links' = {l \in links : l.id # e.id} \cup {e}, made' = made
    PROVE  LinksOK' /\ Cardinality(links') = Cardinality(links)
<1> DEFINE T == links \ {x}
<1>1. links' = T \cup {e} /\ e \notin T /\ IsFiniteSet(T)
  <2>1. {l \in links : l.id # e.id} = T
    BY DEF LinksOK
  <2> QED
    BY <2>1, FS_RemoveElement DEF LinksOK
<1>2. Cardinality(T) = Cardinality(links) - 1 /\ Cardinality(links) \in Nat
  BY FS_RemoveElement, FS_CardinalityType DEF LinksOK
<1>3. \A l \in links' : l \in links \/ l = e
  BY <1>1
<1>4. \A l, m \in links' : l.id = m.id => l = m
  BY DEF LinksOK
<1> HIDE DEF T
<1>5. IsFiniteSet(links') /\ Cardinality(links') = Cardinality(T) + 1
  <2>1. e \notin T /\ IsFiniteSet(T)
    BY <1>1
  <2>2. IsFiniteSet(T \cup {e}) /\ Cardinality(T \cup {e}) = Cardinality(T) + 1
    BY <2>1, FS_AddElement
  <2> QED
    BY <1>1, <2>2
<1>6. Cardinality(links') = Cardinality(links)
  BY <1>2, <1>5
<1> QED
  BY <1>3, <1>4, <1>5, <1>6 DEF LinksOK

\* What every answer of the server leaves alone.
LEMMA ServeLeaves ==
    ASSUME NEW k, Serve(k)
    PROVE  UNCHANGED <<sharerWaits, badge, count, listed, editing, open, linkError>>
BY DEF Serve, regime, list, editor, outside

\* Who waits has no other request but the list and the user.
LEMMA OthersIdle ==
    ASSUME DialogInv, sharerWaits, NEW k \in Calls, call[k].pc # "idle",
           call[k].kind \notin {"load", "user"}
    PROVE  \A j \in Calls \ {k} : call[j].pc = "idle"
BY DEF DialogInv, Settles, OneCall

LEMMA BeforeServed ==
    ASSUME DialogInv, sharerWaits, NEW k \in Calls, call[k].pc # "idle",
           call[k].kind \notin {"load", "user"},
           call[k].pc # "served"
    PROVE  /\ Known /\ (call[k].kind # "create" => Agrees) /\ call[k].mine /\ AnswerTells(k)
<1>1. \A j \in Calls \ {k} : call[j].pc = "idle"
  BY OthersIdle
<1>2. Known
  BY <1>1 DEF DialogInv, Settles, Owed
<1>3. call[k].mine /\ AnswerTells(k)
  BY DEF DialogInv, Settles, Mounted
<1>4. call[k].kind \in CallKinds
  BY DEF DialogInv, CallsOK, DialogCall
<1>5. call[k].kind # "create" => Agrees
  BY <1>1, <1>4 DEF DialogInv, Settles, CallKinds
<1> QED
  BY <1>2, <1>3, <1>5

LEMMA ServeLoadKeeps ==
    ASSUME DialogInv, NEW k \in Calls, Serve(k), call[k].pc = "sent", call[k].kind \in {"load",
           "user"},
           call' = [call EXCEPT ![k].pc = "served", ![k].got = links], UNCHANGED server
    PROVE  DialogInv'
<1>1. UNCHANGED <<sharerWaits, badge, count, listed, editing, open, linkError, links, made>>
  BY ServeLeaves DEF server
<1>2. /\ call' \in [Calls -> DialogCall]
      /\ call'[k].pc = "served" /\ call'[k].got = links
      /\ call'[k].kind = call[k].kind /\ call'[k].mine = call[k].mine
      /\ \A j \in Calls \ {k} : call'[j] = call[j]
  BY ServeSlot DEF DialogInv, LinksOK
<1>3. LinksOK' /\ CallsOK'
  BY <1>1, <1>2 DEF DialogInv, LinksOK, CallsOK
<1>4. ASSUME sharerWaits PROVE Settles'
  <2>1. OneCall' /\ Mounted'
    BY <1>2, <1>4 DEF DialogInv, Settles, OneCall, Mounted
  <2>2. \A j \in Calls : AnswerTells(j)'
    <3>1. AnswerTells(k)'
      BY <1>1, <1>2 DEF AnswerTells, Asks, Owed
    <3>2. \A j \in Calls \ {k} : AnswerTells(j)'
      BY <1>1, <1>2, <1>4 DEF DialogInv, Settles, AnswerTells, Asks, Owed, WithoutLink, WithLink
    <3> QED
      BY <3>1, <3>2
  <2>3. (Known => Known') /\ (Agrees => Agrees')
    BY <1>1 DEF Known, Agrees
  <2> QED
    BY <1>2, <1>4, <2>1, <2>2, <2>3 DEF DialogInv, Settles, Owed
<1> QED
  BY <1>1, <1>3, <1>4 DEF DialogInv

LEMMA ServeMakesKeeps ==
    ASSUME DialogInv, NEW k \in Calls, Serve(k), call[k].pc = "sent", call[k].kind \in {"create",
           "undo"},
           made < MaxMade, made' = made + 1, NEW l, l = [call[k].link EXCEPT !.id = made'],
           links' = links \cup {l}, call' = [call EXCEPT ![k].pc = "served", ![k].got = {l}]
    PROVE  DialogInv'
<1>1. UNCHANGED <<sharerWaits, badge, count, listed, editing, open, linkError>>
  BY ServeLeaves
<1>2. l \in Link /\ l.id = made + 1
  <2>1. call[k].link \in [id : 0..MaxMade, forever : BOOLEAN] /\ made' \in 1..MaxMade
    BY ShareDialogAssumption DEF DialogInv, LinksOK, CallsOK, DialogCall
  <2> QED
    BY <2>1 DEF Link
<1>3. /\ call' \in [Calls -> DialogCall]
      /\ call'[k].pc = "served" /\ call'[k].got = {l}
      /\ call'[k].kind = call[k].kind /\ call'[k].mine = call[k].mine
      /\ \A j \in Calls \ {k} : call'[j] = call[j]
  <2>1. CallsOK /\ {l} \in SUBSET Link
    BY <1>2 DEF DialogInv
  <2> QED
    BY <2>1, ServeSlot
<1>4. LinksOK' /\ Cardinality(links) \in Nat /\ Cardinality(links') = Cardinality(links) + 1
  BY <1>2, LinkAdded DEF DialogInv
<1>5. CallsOK'
  BY <1>1, <1>3 DEF DialogInv, CallsOK
<1>6. ASSUME sharerWaits PROVE Settles'
  <2>1. Known /\ call[k].mine
    BY <1>6, BeforeServed
  <2>2. \A j \in Calls \ {k} : call'[j].pc = "idle"
    BY <1>3, <1>6, OthersIdle
  <2>3. Known'
    BY <1>1, <1>4, <2>1 DEF Known
  <2>4. AnswerTells(k)'
    BY <1>1, <1>3, <1>4, <2>1 DEF AnswerTells, Asks, Owed, Known
  <2> QED
    BY <1>3, <2>1, <2>2, <2>3, <2>4, AloneSettles
<1> QED
  BY <1>1, <1>4, <1>5, <1>6 DEF DialogInv

LEMMA ServeDeletesKeeps ==
    ASSUME DialogInv, NEW k \in Calls, Serve(k), call[k].pc = "sent", call[k].kind = "delete",
           call[k].link.id \in {l.id : l \in links}, made' = made,
           links' = {l \in links : l.id # call[k].link.id},
           call' = [call EXCEPT ![k].pc = "served", ![k].got = {}]
    PROVE  DialogInv'
<1>1. UNCHANGED <<sharerWaits, badge, count, listed, editing, open, linkError>>
  BY ServeLeaves
<1>2. PICK x \in links : x.id = call[k].link.id
  OBVIOUS
<1>3. /\ call' \in [Calls -> DialogCall]
      /\ call'[k].pc = "served" /\ call'[k].kind = call[k].kind /\ call'[k].link = call[k].link
      /\ call'[k].was = call[k].was /\ call'[k].mine = call[k].mine
      /\ \A j \in Calls \ {k} : call'[j] = call[j]
  <2>1. CallsOK /\ {} \in SUBSET Link
    BY DEF DialogInv
  <2> QED
    BY <2>1, ServeSlot
<1>4. /\ LinksOK' /\ links' = links \ {x}
      /\ Cardinality(links') \in Nat /\ Cardinality(links) = Cardinality(links') + 1
  BY <1>2, LinkGone DEF DialogInv
<1>5. CallsOK'
  BY <1>1, <1>3 DEF DialogInv, CallsOK
<1>6. ASSUME sharerWaits PROVE Settles'
  <2>1. /\ Known /\ Agrees /\ call[k].mine
        /\ call[k].link \in listed /\ (call[k].was <=> Cardinality(listed) = 1)
    BY <1>6, BeforeServed DEF AnswerTells, Asks
  <2>2. \A j \in Calls \ {k} : call'[j].pc = "idle"
    BY <1>3, <1>6, OthersIdle
  <2>3. x = call[k].link
    BY <1>2, <2>1 DEF DialogInv, LinksOK, Known
  <2>4. links' = {} => call[k].was
    <3> SUFFICES ASSUME links' = {} PROVE Cardinality(listed) = 1
      BY <2>1
    <3>1. listed = {x}
      BY <1>4, <2>1, <2>3 DEF Known
    <3> QED
      BY <3>1, FS_Singleton
  <2>5. /\ WithoutLink(x)' \subseteq links' /\ (open /\ ~linkError => WithoutLink(x)' = links')
    BY <1>1, <1>2, <1>4, <2>1 DEF WithoutLink, Known, Agrees
  <2>6. count \in Nat /\ count <= Cardinality(links') + 1
    BY <1>4, <2>1 DEF Known
  <2>7. AnswerTells(k)'
    BY <1>1, <1>3, <2>3, <2>4, <2>5, <2>6 DEF AnswerTells, Asks, Owed, WithoutLink
  <2> QED
    BY <1>3, <2>1, <2>2, <2>7, AloneSettles
<1> QED
  BY <1>1, <1>4, <1>5, <1>6 DEF DialogInv

LEMMA ServeEditsKeeps ==
    ASSUME DialogInv, NEW k \in Calls, Serve(k), call[k].pc = "sent", call[k].kind = "edit",
           call[k].link.id \in {l.id : l \in links}, made' = made,
           links' = {l \in links : l.id # call[k].link.id} \cup {call[k].link},
           call' = [call EXCEPT ![k].pc = "served", ![k].got = {call[k].link}]
    PROVE  DialogInv'
<1>1. UNCHANGED <<sharerWaits, badge, count, listed, editing, open, linkError>>
  BY ServeLeaves
<1>2. PICK x \in links : x.id = call[k].link.id
  OBVIOUS
<1>3. call[k].link \in Link
  BY <1>2 DEF DialogInv, LinksOK, CallsOK, DialogCall, Link
<1>4. /\ call' \in [Calls -> DialogCall]
      /\ call'[k].pc = "served" /\ call'[k].kind = call[k].kind /\ call'[k].link = call[k].link
      /\ call'[k].mine = call[k].mine
      /\ \A j \in Calls \ {k} : call'[j] = call[j]
  <2>1. CallsOK /\ {call[k].link} \in SUBSET Link
    BY <1>3 DEF DialogInv
  <2> QED
    BY <2>1, ServeSlot
<1>5. LinksOK' /\ Cardinality(links') = Cardinality(links)
  BY <1>2, <1>3, LinkChanged DEF DialogInv
<1>6. CallsOK'
  BY <1>1, <1>4 DEF DialogInv, CallsOK
<1>7. ASSUME sharerWaits PROVE Settles'
  <2>1. Known /\ Agrees /\ call[k].mine
    BY <1>7, BeforeServed
  <2>2. \A j \in Calls \ {k} : call'[j].pc = "idle"
    BY <1>4, <1>7, OthersIdle
  <2> DEFINE e == call[k].link
  <2>3. e \in links' /\ \A m \in links : m.id # e.id => m \in links'
    OBVIOUS
  <2>4. {IF m.id = e.id THEN e ELSE m : m \in listed} \subseteq links'
    BY <2>1, <2>3 DEF Known
  <2>5. ASSUME listed = links PROVE links' \subseteq {IF m.id = e.id THEN e ELSE m : m \in listed}
    <3>1. ASSUME NEW m \in links' PROVE \E n \in listed : m = IF n.id = e.id THEN e ELSE n
      <4>1. CASE m = e
        BY <1>2, <2>5, <4>1
      <4>2. CASE m \in links /\ m.id # e.id
        BY <2>5, <4>2
      <4> QED
        BY <4>1, <4>2
    <3> QED
      BY <3>1
  <2>6. WithLink(call[k].link)' = {IF m.id = e.id THEN e ELSE m : m \in listed}
    BY <1>1, <1>4 DEF WithLink
  <2>7. /\ WithLink(call[k].link)' \subseteq links' /\ links' # {}
        /\ open' /\ ~linkError' => WithLink(call[k].link)' = links'
    BY <1>1, <2>1, <2>3, <2>6, <2>4, <2>5 DEF Agrees
  <2>8. count' \in Nat /\ count' <= Cardinality(links') /\ ~Asks(k, "delete")'
    BY <1>1, <1>4, <1>5, <2>1 DEF Known, Asks
  <2>9. /\ ~Owed(k, "load")' /\ ~Owed(k, "user")' /\ ~Owed(k, "create")'
         /\ ~Owed(k, "delete")' /\ ~Owed(k, "undo")'
    BY <1>4 DEF Owed
  <2> HIDE DEF e
  <2>10. AnswerTells(k)'
    BY <2>7, <2>8, <2>9 DEF AnswerTells
  <2> QED
    BY <1>4, <2>1, <2>2, <2>10, AloneSettles
<1> QED
  BY <1>1, <1>5, <1>6, <1>7 DEF DialogInv

LEMMA ServeKeeps == ASSUME DialogInv, NEW k \in Calls, Serve(k) PROVE DialogInv'
<1> DEFINE c == call[k]
           Answer(got) == call' = [call EXCEPT ![k].pc = "served", ![k].got = got]
<1>1. /\ c.pc = "sent"
      /\ \/ c.kind \in {"load", "user"} /\ Answer(links) /\ UNCHANGED server
         \/ /\ c.kind \in {"create", "undo"} /\ Cardinality(links) < LinkQuota
            /\ made < MaxMade /\ made' = made + 1
            /\ LET l == [c.link EXCEPT !.id = made'] IN links' = links \cup {l} /\ Answer({l})
         \/ /\ c.kind = "delete" /\ c.link.id \in {l.id : l \in links}
            /\ links' = {l \in links : l.id # c.link.id} /\ made' = made /\ Answer({})
         \/ /\ c.kind = "edit" /\ c.link.id \in {l.id : l \in links}
            /\ links' = {l \in links : l.id # c.link.id} \cup {c.link} /\ made' = made
            /\ Answer({c.link})
  BY DEF Serve
<1>2. CASE c.kind \in {"load", "user"} /\ Answer(links) /\ UNCHANGED server
  BY <1>1, <1>2, ServeLoadKeeps
<1>3. CASE /\ c.kind \in {"create", "undo"} /\ made < MaxMade /\ made' = made + 1
           /\ LET l == [c.link EXCEPT !.id = made'] IN links' = links \cup {l} /\ Answer({l})
  BY <1>1, <1>3, ServeMakesKeeps
<1>4. CASE /\ c.kind = "delete" /\ c.link.id \in {l.id : l \in links}
           /\ links' = {l \in links : l.id # c.link.id} /\ made' = made /\ Answer({})
  BY <1>1, <1>4, ServeDeletesKeeps
<1>5. CASE /\ c.kind = "edit" /\ c.link.id \in {l.id : l \in links}
           /\ links' = {l \in links : l.id # c.link.id} \cup {c.link} /\ made' = made
           /\ Answer({c.link})
  BY <1>1, <1>5, ServeEditsKeeps
<1> QED
  BY <1>1, <1>2, <1>3, <1>4, <1>5

LEMMA RefuseKeeps == ASSUME DialogInv, NEW k \in Calls, Refuse(k) PROVE DialogInv'
<1>1. /\ call[k].pc = "sent" /\ call' = [call EXCEPT ![k].pc = "failed"]
      /\ UNCHANGED <<links, made, sharerWaits, badge, count, listed, editing, open, linkError>>
  BY DEF Refuse, server, regime, list, editor, outside
<1>2. /\ call' \in [Calls -> DialogCall]
      /\ call'[k].pc = "failed" /\ call'[k].kind = call[k].kind /\ call'[k].mine = call[k].mine
      /\ \A j \in Calls \ {k} : call'[j] = call[j]
  BY <1>1 DEF DialogInv, CallsOK, DialogCall
<1>3. LinksOK' /\ CallsOK'
  BY <1>1, <1>2 DEF DialogInv, LinksOK, CallsOK
<1>4. ASSUME sharerWaits PROVE Settles'
  <2>1. OneCall' /\ Mounted'
    BY <1>1, <1>2, <1>4 DEF DialogInv, Settles, OneCall, Mounted
  <2>2. AnswerTells(k)'
    BY <1>2 DEF AnswerTells, Asks, Owed
  <2>3. \A j \in Calls \ {k} : AnswerTells(j)'
    BY <1>1, <1>2, <1>4 DEF DialogInv, Settles, AnswerTells, Asks, Owed, WithoutLink, WithLink
  <2>4. (Known => Known') /\ (Agrees => Agrees')
    BY <1>1 DEF Known, Agrees
  <2> QED
    BY <1>1, <1>2, <1>4, <2>1, <2>2, <2>3, <2>4 DEF DialogInv, Settles, Owed
<1> QED
  BY <1>1, <1>3, <1>4 DEF DialogInv

-----------------------------------------------------------------------------
(* The answers.                                                            *)

\* Beside a list or the user that is loaded, nothing else but those is under way.
LEMMA BesideLoading ==
    ASSUME DialogInv, sharerWaits, NEW k \in Calls, call[k].pc # "idle", call[k].kind \in {"load",
           "user"}
    PROVE  /\ \A j \in Calls \ {k} : \/ call[j].pc = "idle"
                                     \/ call[j].kind \in {"load", "user"} /\ call[j].kind # call[k].kind
           /\ Known
<1>1. \A j \in Calls \ {k} : \/ call[j].pc = "idle"
                             \/ call[j].kind \in {"load", "user"} /\ call[j].kind # call[k].kind
  BY DEF DialogInv, Settles, OneCall
<1>2. \A j \in Calls : ~Owed(j, "delete") /\ ~Owed(j, "edit")
  BY <1>1 DEF Owed
<1> QED
  BY <1>1, <1>2 DEF DialogInv, Settles

LEMMA CardinalityOfLinks == LinksOK => Cardinality(links) \in Nat
BY FS_CardinalityType DEF LinksOK

LEMMA LoadedKeeps == ASSUME DialogInv, NEW k \in Calls, Loaded(k) PROVE DialogInv'
<1>1. /\ call[k].pc = "served" /\ call[k].kind = "load" /\ Release(k)
      /\ listed' = IF call[k].mine THEN call[k].got ELSE listed
      /\ UNCHANGED <<links, made, sharerWaits, badge, count, editing, open, linkError>>
  BY DEF Loaded, server, regime, editor, outside
<1>2. /\ call' \in [Calls -> DialogCall] /\ call'[k].pc = "idle"
      /\ \A j \in Calls \ {k} : call'[j] = call[j]
  BY <1>1, ReleaseSlot DEF DialogInv
<1>3. LinksOK' /\ CallsOK'
  BY <1>1, <1>2 DEF DialogInv, LinksOK, CallsOK, DialogCall
<1>4. ASSUME sharerWaits PROVE Settles'
  <2>1. Known /\ \A j \in Calls \ {k} : call[j].pc = "idle" \/ call[j].kind = "user"
    BY <1>1, <1>4, BesideLoading
  <2>2. listed' = links
    BY <1>1, <1>4 DEF DialogInv, Settles, Mounted, AnswerTells, Owed
  <2>3. Known' /\ Agrees'
    BY <1>1, <2>1, <2>2 DEF Known, Agrees
  <2>4. AnswerTells(k)'
    BY <1>2 DEF AnswerTells, Asks, Owed
  <2>5. \A j \in Calls \ {k} : AnswerTells(j)'
    BY <1>1, <1>2, <1>4, <2>1 DEF DialogInv, Settles, AnswerTells, Asks, Owed
  <2>6. OneCall' /\ Mounted'
    BY <1>2, <1>4 DEF DialogInv, Settles, OneCall, Mounted
  <2> QED
    BY <2>3, <2>4, <2>5, <2>6 DEF Settles
<1> QED
  BY <1>1, <1>3, <1>4 DEF DialogInv

LEMMA RefreshedKeeps == ASSUME DialogInv, NEW k \in Calls, Refreshed(k) PROVE DialogInv'
<1>1. /\ call[k].pc = "served" /\ call[k].kind = "user" /\ Release(k)
      /\ count' = Cardinality(call[k].got)
      /\ UNCHANGED <<links, made, sharerWaits, badge, listed, editing, open, linkError>>
  BY DEF Refreshed, server, regime, list, editor
<1>2. /\ call' \in [Calls -> DialogCall] /\ call'[k].pc = "idle"
      /\ \A j \in Calls \ {k} : call'[j] = call[j]
  BY <1>1, ReleaseSlot DEF DialogInv
<1>3. LinksOK' /\ CallsOK'
  BY <1>1, <1>2 DEF DialogInv, LinksOK, CallsOK
<1>4. ASSUME sharerWaits PROVE Settles'
  <2>1. Known /\ \A j \in Calls \ {k} : call[j].pc = "idle" \/ call[j].kind = "load"
    BY <1>1, <1>4, BesideLoading
  <2>2. count' = Cardinality(links) /\ Cardinality(links) \in Nat
    BY <1>1, <1>4, CardinalityOfLinks DEF DialogInv, Settles, AnswerTells, Owed
  <2>3. Known' /\ (Agrees => Agrees')
    BY <1>1, <2>1, <2>2 DEF Known, Agrees
  <2>4. AnswerTells(k)'
    BY <1>2 DEF AnswerTells, Asks, Owed
  <2>5. \A j \in Calls \ {k} : AnswerTells(j)'
    BY <1>1, <1>2, <1>4, <2>1 DEF DialogInv, Settles, AnswerTells, Asks, Owed
  <2>6. OneCall' /\ Mounted'
    BY <1>2, <1>4 DEF DialogInv, Settles, OneCall, Mounted
  <2>7. (\A j \in Calls \ {k} : call[j].pc = "idle") => Agrees
    BY <1>1, <1>4 DEF DialogInv, Settles
  <2> QED
    BY <1>2, <2>1, <2>3, <2>4, <2>5, <2>6, <2>7 DEF Settles
<1> QED
  BY <1>1, <1>3, <1>4 DEF DialogInv

LEMMA CallFailsKeeps == ASSUME DialogInv, NEW k \in Calls, CallFails(k) PROVE DialogInv'
<1>1. /\ call[k].pc = "failed" /\ Release(k)
      /\ linkError' = (linkError \/ (call[k].mine /\ call[k].kind \in {"load", "create", "delete"}))
      /\ UNCHANGED <<links, made, sharerWaits, badge, count, listed, editing, open>>
  BY DEF CallFails, server, regime, outside
<1>2. /\ call' \in [Calls -> DialogCall] /\ call'[k].pc = "idle"
      /\ \A j \in Calls \ {k} : call'[j] = call[j]
  BY <1>1, ReleaseSlot DEF DialogInv
<1>3. LinksOK' /\ CallsOK'
  BY <1>1, <1>2 DEF DialogInv, LinksOK, CallsOK
<1>4. (Known => Known') /\ (Agrees => Agrees')
  BY <1>1 DEF Known, Agrees
<1>5. ASSUME sharerWaits, call[k].kind \in {"load", "user"} PROVE Settles'
  <2>1. /\ Known
        /\ \A j \in Calls \ {k} : \/ call[j].pc = "idle"
                                  \/ call[j].kind \in {"load", "user"} /\ call[j].kind # call[k].kind
    BY <1>1, <1>5, BesideLoading
  <2>2. AnswerTells(k)'
    BY <1>2 DEF AnswerTells, Asks, Owed
  <2>3. \A j \in Calls \ {k} : AnswerTells(j)'
    BY <1>1, <1>2, <1>5, <2>1 DEF DialogInv, Settles, AnswerTells, Asks, Owed
  <2>4. OneCall' /\ Mounted'
    BY <1>2, <1>5 DEF DialogInv, Settles, OneCall, Mounted
  <2>5. CASE call[k].kind = "load"
    <3>1. Agrees'
      BY <1>1, <1>5, <2>5 DEF DialogInv, Settles, Mounted, Agrees
    <3> QED
      BY <1>4, <2>1, <2>2, <2>3, <2>4, <3>1 DEF Settles
  <2>6. CASE call[k].kind = "user"
    <3>1. (\A j \in Calls \ {k} : call[j].pc = "idle") => Agrees
      BY <1>5, <2>6 DEF DialogInv, Settles
    <3>2. \A j \in Calls \ {k} : call[j].pc = "idle" \/ call[j].kind = "load"
      BY <2>1, <2>6
    <3> QED
      BY <1>2, <1>4, <2>1, <2>2, <2>3, <2>4, <3>1, <3>2 DEF Settles
  <2> QED
    BY <1>5, <2>5, <2>6
<1>6. ASSUME sharerWaits, call[k].kind \notin {"load", "user"} PROVE Settles'
  <2>1. Known /\ (call[k].kind # "create" => Agrees) /\ call[k].mine
    BY <1>1, <1>6, BeforeServed
  <2>2. \A j \in Calls \ {k} : call'[j].pc = "idle"
    BY <1>1, <1>2, <1>6, OthersIdle
  <2>3. Agrees'
    BY <1>1, <1>4, <2>1 DEF Agrees
  <2> QED
    BY <1>2, <1>4, <2>1, <2>2, <2>3, AloneSettles
<1> QED
  BY <1>1, <1>3, <1>5, <1>6 DEF DialogInv

\* Who has an answer that is neither a list nor the user has nothing else under way.
LEMMA AloneAnswered ==
    ASSUME DialogInv, sharerWaits, NEW k \in Calls, call[k].pc = "served",
           call[k].kind \notin {"load", "user"}
    PROVE  /\ \A j \in Calls \ {k} : call[j].pc = "idle"
           /\ call[k].mine /\ AnswerTells(k)
           /\ call[k].kind \in {"create", "undo"} => Known
<1>1. \A j \in Calls \ {k} : call[j].pc = "idle"
  BY OthersIdle
<1>2. call[k].mine /\ AnswerTells(k)
  BY DEF DialogInv, Settles, Mounted
<1>3. call[k].kind \in {"create", "undo"} => Known
  BY <1>1 DEF DialogInv, Settles, Owed
<1> QED
  BY <1>1, <1>2, <1>3

\* The one answer was followed by a request for the user.
LEMMA AskedSettles ==
    ASSUME NEW k \in Calls, Asking(k), \A j \in Calls \ {k} : call[j].pc = "idle", Known', Agrees'
    PROVE  Settles'
<1>1. AnswerTells(k)'
  BY DEF Asking, AnswerTells, Asks, Owed
<1> QED
  BY <1>1, AloneSettles DEF Asking

LEMMA CreatedKeeps == ASSUME DialogInv, NEW k \in Calls, Created(k) PROVE DialogInv'
<1>1. /\ call[k].pc = "served" /\ call[k].kind = "create"
      /\ listed' = IF call[k].mine THEN listed \cup call[k].got ELSE listed
      /\ count' = count + 1 /\ badge' = (badge \/ call[k].was)
      /\ UNCHANGED <<links, made, sharerWaits, editing>>
  BY DEF Created, server, regime, editor
<1>2. \/ open' = FALSE /\ call' = Refresh(Unmounted(call), k)
      \/ linkError' = (linkError \/ call[k].mine) /\ call' = Refresh(call, k)
  BY DEF Created
<1>3. Asking(k)
  BY <1>2, RefreshSlot, UnmountedRefreshSlot DEF DialogInv
<1>4. LinksOK' /\ CallsOK'
  BY <1>1, <1>3 DEF DialogInv, LinksOK, CallsOK, DialogCall, Asking
<1>5. ASSUME sharerWaits PROVE Settles'
  <2>1. /\ \A j \in Calls \ {k} : call[j].pc = "idle"
        /\ call[k].mine /\ AnswerTells(k) /\ Known
    BY <1>1, <1>5, AloneAnswered
  <2>2. Known'
    BY <1>1, <2>1 DEF Known, AnswerTells, Owed
  <2>3. Agrees'
    BY <1>2, <2>1 DEF Agrees
  <2> QED
    BY <1>3, <2>1, <2>2, <2>3, AskedSettles
<1> QED
  BY <1>1, <1>4, <1>5 DEF DialogInv

LEMMA DeletedKeeps == ASSUME DialogInv, NEW k \in Calls, Deleted(k) PROVE DialogInv'
<1>1. /\ call[k].pc = "served" /\ call[k].kind = "delete"
      /\ listed' = IF call[k].mine THEN WithoutLink(call[k].link) ELSE listed
      /\ count' = IF count = 0 THEN 0 ELSE count - 1
      /\ badge' = (badge /\ ~call[k].was) /\ call' = Refresh(call, k)
      /\ UNCHANGED <<links, made, sharerWaits, editing, open, linkError>>
  BY DEF Deleted, server, regime, editor, WithoutLink
<1>2. Asking(k)
  BY <1>1, RefreshSlot DEF DialogInv
<1>3. LinksOK' /\ CallsOK'
  BY <1>1, <1>2 DEF DialogInv, LinksOK, CallsOK, Asking, WithoutLink
<1>4. ASSUME sharerWaits PROVE Settles'
  <2>1. /\ \A j \in Calls \ {k} : call[j].pc = "idle"
        /\ call[k].mine /\ AnswerTells(k)
    BY <1>1, <1>4, AloneAnswered
  <2>2. /\ WithoutLink(call[k].link) \subseteq links /\ (badge /\ ~call[k].was => links # {})
        /\ count \in Nat /\ count <= Cardinality(links) + 1
        /\ open /\ ~linkError => WithoutLink(call[k].link) = links
    BY <1>1, <2>1 DEF AnswerTells, Owed
  <2>3. Cardinality(links) \in Nat
    BY CardinalityOfLinks DEF DialogInv
  <2>4. count' \in Nat /\ count' <= Cardinality(links)
    BY <1>1, <2>2, <2>3
  <2>5. listed' = WithoutLink(call[k].link)
    BY <1>1, <2>1
  <2>6. Known'
    BY <1>1, <2>2, <2>4, <2>5 DEF Known
  <2>7. Agrees'
    BY <1>1, <2>2, <2>5 DEF Agrees
  <2> QED
    BY <1>2, <2>1, <2>6, <2>7, AskedSettles
<1> QED
  BY <1>1, <1>3, <1>4 DEF DialogInv

LEMMA SavedKeeps == ASSUME DialogInv, NEW k \in Calls, Saved(k) PROVE DialogInv'
<1>1. /\ call[k].pc = "served" /\ call[k].kind = "edit" /\ Release(k)
      /\ listed' = IF call[k].mine THEN WithLink(call[k].link) ELSE listed
      /\ editing' = IF call[k].mine THEN Absent ELSE editing
      /\ UNCHANGED <<links, made, sharerWaits, badge, count, open, linkError>>
  BY DEF Saved, server, regime, outside, WithLink
<1>2. /\ call' \in [Calls -> DialogCall] /\ call'[k].pc = "idle"
      /\ \A j \in Calls \ {k} : call'[j] = call[j]
  BY <1>1, ReleaseSlot DEF DialogInv
<1>3. WithLink(call[k].link) \subseteq Link
  BY <1>1 DEF DialogInv, CallsOK, DialogCall, WithLink, Link
<1>4. LinksOK' /\ CallsOK'
  BY <1>1, <1>2, <1>3 DEF DialogInv, LinksOK, CallsOK
<1>5. ASSUME sharerWaits PROVE Settles'
  <2>1. /\ \A j \in Calls \ {k} : call[j].pc = "idle"
        /\ call[k].mine /\ AnswerTells(k)
    BY <1>1, <1>5, AloneAnswered
  <2>2. /\ WithLink(call[k].link) \subseteq links /\ (badge => links # {})
        /\ count \in Nat /\ count <= Cardinality(links)
        /\ open /\ ~linkError => WithLink(call[k].link) = links
    BY <1>1, <2>1 DEF AnswerTells, Owed
  <2>3. listed' = WithLink(call[k].link)
    BY <1>1, <2>1
  <2>4. Known' /\ Agrees'
    BY <1>1, <2>2, <2>3 DEF Known, Agrees
  <2> QED
    BY <1>2, <2>1, <2>4, AloneSettles
<1> QED
  BY <1>1, <1>4, <1>5 DEF DialogInv

\* A link that is made again, below an open dialog: its list is loaded again.
Reloading(k, j) ==
    /\ call' \in [Calls -> DialogCall] /\ j # k
    /\ call'[k].pc = "sent" /\ call'[k].kind = "user"
    /\ call'[j].pc = "sent" /\ call'[j].kind = "load" /\ call'[j].mine
    /\ \A i \in Calls \ {j, k} : call'[i] = call[i]

LEMMA ReloadingSlot ==
    ASSUME CallsOK, NEW k \in Calls, NEW j \in Calls \ {k},
           call' = [Refresh(call, k) EXCEPT ![j] = [NoCall EXCEPT !.pc = "sent", !.mine = TRUE]]
    PROVE  Reloading(k, j)
<1> DEFINE q == [NoCall EXCEPT !.pc = "sent", !.kind = "user"]
           r == [NoCall EXCEPT !.pc = "sent", !.mine = TRUE]
<1>1. q \in DialogCall /\ q.pc = "sent" /\ q.kind = "user"
  BY RefreshTyped
<1>2. r \in DialogCall /\ r.pc = "sent" /\ r.kind = "load" /\ r.mine
  BY NoCallTyped DEF NoCall, DialogCall
<1>3. call' = [[call EXCEPT ![k] = q] EXCEPT ![j] = r]
  BY DEF Refresh
<1> HIDE DEF q, r
<1> QED
  BY <1>1, <1>2, <1>3 DEF CallsOK, Reloading

LEMMA UndoneKeeps == ASSUME DialogInv, NEW k \in Calls, Undone(k) PROVE DialogInv'
<1>1. /\ call[k].pc = "served" /\ call[k].kind = "undo" /\ badge' = TRUE
      /\ UNCHANGED <<links, made, sharerWaits, count, listed, editing, open>>
  BY DEF Undone, server, regime, editor
<1>2. \/ open /\ \E j \in Calls \ {k} :
               call' = [Refresh(call, k) EXCEPT ![j] = [NoCall EXCEPT !.pc = "sent", !.mine = TRUE]]
      \/ ~open /\ call' = Refresh(call, k)
  BY DEF Undone
<1>3. ASSUME sharerWaits
      PROVE  Known' /\ \A j \in Calls \ {k} : call[j].pc = "idle"
  <2>1. /\ \A j \in Calls \ {k} : call[j].pc = "idle"
        /\ AnswerTells(k) /\ Known
    BY <1>1, <1>3, AloneAnswered
  <2> QED
    BY <1>1, <2>1 DEF Known, AnswerTells, Owed
<1>4. CASE ~open /\ call' = Refresh(call, k)
  <2>1. Asking(k)
    BY <1>4, RefreshSlot DEF DialogInv
  <2>2. LinksOK' /\ CallsOK'
    BY <1>1, <2>1 DEF DialogInv, LinksOK, CallsOK, Asking
  <2>3. Agrees'
    BY <1>1, <1>4 DEF Agrees
  <2>4. sharerWaits => Settles'
    BY <1>3, <2>1, <2>3, AskedSettles
  <2> QED
    BY <1>1, <2>2, <2>4 DEF DialogInv
<1>5. ASSUME NEW j \in Calls \ {k},
             call' = [Refresh(call, k) EXCEPT ![j] = [NoCall EXCEPT !.pc = "sent", !.mine = TRUE]]
      PROVE  DialogInv'
  <2>1. Reloading(k, j)
    BY <1>5, ReloadingSlot DEF DialogInv
  <2>2. LinksOK' /\ CallsOK'
    BY <1>1, <2>1 DEF DialogInv, LinksOK, CallsOK, Reloading
  <2>3. ASSUME sharerWaits PROVE Settles'
    <3>1. \A i \in Calls \ {j, k} : call'[i].pc = "idle"
      BY <1>3, <2>1, <2>3 DEF Reloading
    <3>2. OneCall' /\ Mounted'
      BY <2>1, <3>1 DEF OneCall, Mounted, Reloading
    <3>3. \A i \in Calls : AnswerTells(i)'
      BY <2>1, <3>1 DEF AnswerTells, Asks, Owed, Reloading
    <3> QED
      BY <1>3, <2>1, <2>3, <3>2, <3>3 DEF Settles, Reloading
  <2> QED
    BY <1>1, <2>2, <2>3 DEF DialogInv
<1> QED
  BY <1>2, <1>4, <1>5

-----------------------------------------------------------------------------
LEMMA CallStepKeeps == ASSUME DialogInv, NEW k \in Calls, CallStep(k) PROVE DialogInv'
BY ServeKeeps, RefuseKeeps, LoadedKeeps, CreatedKeeps, DeletedKeeps, SavedKeeps, UndoneKeeps,
   RefreshedKeeps, CallFailsKeeps DEF CallStep

LEMMA ShareStepKeeps == DialogInv /\ [ShareNext]_shareVars => DialogInv'
<1> SUFFICES ASSUME DialogInv, [ShareNext]_shareVars PROVE DialogInv'
  OBVIOUS
<1>1. ASSUME NEW k \in Calls,
             \/ CallStep(k) \/ OpenDialog(k) \/ Save(k)
             \/ \E forever \in BOOLEAN : Create(k, forever)
             \/ \E l \in Link : Delete(k, l) \/ UndoDelete(k, l)
      PROVE  DialogInv'
  BY <1>1, CallStepKeeps, OpenDialogKeeps, SaveKeeps, CreateKeeps, DeleteKeeps, UndoDeleteKeeps
<1>2. CASE CloseDialog \/ ShowCreateForm \/ CancelEdit
  BY <1>2, CloseDialogKeeps, ShowCreateFormKeeps, CancelEditKeeps
<1>3. ASSUME NEW l \in Link, EditLink(l) \/ Expire(l) PROVE DialogInv'
  BY <1>3, EditLinkKeeps, ExpireKeeps
<1> QED
  BY <1>1, <1>2, <1>3, ShareStutter DEF ShareNext

LEMMA DialogInvHolds == ShareSpec => []DialogInv
BY DialogInitOK, ShareStepKeeps, PTL DEF ShareSpec

\* For a user who waits for the answers: whatever links are made, changed, deleted and made
\* again, and whichever requests fail, the badge is not left on an item without links, the
\* counter is not too high, and an open dialog without an error lists what there is.
THEOREM DialogSettlesHolds == ShareSpec => []DialogSettles
BY DialogInvHolds, DialogInvGives, PTL

-----------------------------------------------------------------------------
(* DirectoryPage: the types.  What Typed leaves open, an item and the       *)
(* directories of a request or a toast, are never None when they are used.  *)

Aimed(q) ==
    q.pc # "idle" =>
        /\ q.dir \in Dirs
        /\ q.kind # "load" => q.item \in Items
        /\ q.kind \in Adds \cup Moves \cup {"drag"} => q.to \in Dirs

Aims ==
    /\ \A r \in Reqs : Aimed(req[r])
    /\ offers \subseteq [kind : {"restore", "back"}, item : Items, dir : Dirs]
    /\ modal.open => modal.item \in Items /\ modal.selected \in Dirs

Screen ==
    /\ place \in [Items -> Dirs \cup {None}] /\ trash \subseteq Items
    /\ canWrite \in BOOLEAN /\ patient \in BOOLEAN
    /\ isLoading \in BOOLEAN /\ error \in BOOLEAN /\ more \in BOOLEAN
    /\ target \in Dirs /\ crumbs \in Dirs \cup {None}

DirTypes == DirInv /\ Aims /\ Screen

LEMMA DirTypesInit == Init => DirTypes
<1> SUFFICES ASSUME Init PROVE DirTypes
  OBVIOUS
<1>1. Screen
  BY DEF Init, Screen
<1>2. Aims
  BY DEF Init, Aims, Aimed, NoReq, Closed, Adds, Moves
<1> QED BY <1>1, <1>2, DirInitOK DEF DirTypes

\* A request begins or goes on as q; or ends.
LEMMA RequestAims ==
    ASSUME DirTypes, NEW r \in Reqs, NEW q, req' = [req EXCEPT ![r] = q], Aimed(q)
    PROVE  \A s \in Reqs : Aimed(req'[s])
  BY DEF DirTypes, DirInv, Typed, Aims

LEMMA BeginTypes ==
    ASSUME DirTypes, NEW r \in Reqs, Begin(r)
    PROVE  Aims' /\ Screen'
<1> USE DEF DirTypes
<1>0. /\ url \in Dirs /\ target \in Dirs /\ shown.items \subseteq Items
      /\ req \in [Reqs -> PageRequest]
  BY DEF DirInv, Typed, Screen
<1> DEFINE SentFor(k, i, d, to) == [NoReq EXCEPT !.pc = "op", !.kind = k, !.item = i,
                                             !.dir = d, !.to = to]
<1>1. ASSUME NEW k, NEW i \in Items, NEW d \in Dirs, NEW to, Send(r, k, i, d, to),
             k \in Adds \cup Moves \cup {"drag"} => to \in Dirs
      PROVE  \A s \in Reqs : Aimed(req'[s])
  <2>1. req' = [req EXCEPT ![r] = SentFor(k, i, d, to)]
    BY <1>1 DEF Send
  <2>2. Aimed(SentFor(k, i, d, to))
    BY <1>1 DEF Aimed, NoReq
  <2> HIDE DEF SentFor
  <2> QED BY <2>1, <2>2, RequestAims
<1>2. ASSUME NEW d \in Dirs, Navigate(r, d) PROVE Aims' /\ Screen'
  <2> DEFINE q == [NoReq EXCEPT !.pc = "list", !.dir = d, !.skip = FALSE]
  <2>1. req' = [req EXCEPT ![r] = q] /\ UNCHANGED <<serverVars, rest, crumbs, more, offers, modal>>
        /\ target' = d /\ error' = FALSE /\ isLoading' \in BOOLEAN
    BY <1>2 DEF Navigate, LoadDirectory
  <2>2. Aimed(q)
    BY DEF Aimed, NoReq, Adds, Moves
  <2> HIDE DEF q
  <2>3. \A s \in Reqs : Aimed(req'[s])
    BY <2>1, <2>2, RequestAims
  <2>4. Aims'
    BY <2>1, <2>3 DEF Aims
  <2> QED BY <2>1, <2>4 DEF Screen, serverVars, rest
<1>3. ASSUME NEW k \in Adds, NEW i \in Items, Add(r, k, i) PROVE Aims' /\ Screen'
  <2>1. \A s \in Reqs : Aimed(req'[s])
    BY <1>0, <1>1, <1>3 DEF Add
  <2> QED BY <1>3, <2>1 DEF Add, Aims, Screen, serverVars, rest
<1>4. ASSUME NEW i \in Items, Drag(r, i) PROVE Aims' /\ Screen'
  <2>1. \A s \in Reqs : Aimed(req'[s])
    BY <1>0, <1>1, <1>4 DEF Drag
  <2> QED BY <1>4, <2>1 DEF Drag, Aims, Screen, serverVars, rest
<1>5. ASSUME NEW k \in {"delete", "rename"}, NEW i \in Items, DeleteOrRename(r, k, i)
      PROVE  Aims' /\ Screen'
  <2>1. \A s \in Reqs : Aimed(req'[s])
    BY <1>0, <1>1, <1>5 DEF DeleteOrRename, Adds, Moves
  <2> QED BY <1>5, <2>1 DEF DeleteOrRename, Aims, Screen, serverVars, rest
<1>6. ASSUME NEW i \in Items, NEW d \in Dirs, Drop(r, i, d) PROVE Aims' /\ Screen'
  <2>1. \A s \in Reqs : Aimed(req'[s])
    BY <1>0, <1>1, <1>6 DEF Drop
  <2> QED BY <1>6, <2>1 DEF Drop, Aims, Screen, serverVars, rest
<1>7. ASSUME NEW o \in offers, Undo(r, o) PROVE Aims' /\ Screen'
  <2>1. o.item \in Items /\ o.dir \in Dirs
    BY DEF Aims
  <2>2. \A s \in Reqs : Aimed(req'[s])
    BY <1>1, <1>7, <2>1 DEF Undo
  <2> QED BY <1>7, <2>2 DEF Undo, Aims, Screen, serverVars, rest
<1>8. ASSUME LoadMore(r) PROVE Aims' /\ Screen'
  <2> DEFINE q == [NoReq EXCEPT !.pc = "more", !.dir = url, !.next = shown.next]
  <2>1. /\ req' = [req EXCEPT ![r] = q] /\ more' = TRUE
        /\ UNCHANGED <<serverVars, rest, isLoading, error, target, crumbs, offers, modal>>
    BY <1>8 DEF LoadMore
  <2>2. Aimed(q)
    BY <1>0 DEF Aimed, NoReq, Adds, Moves
  <2> HIDE DEF q
  <2>3. \A s \in Reqs : Aimed(req'[s])
    BY <2>1, <2>2, RequestAims
  <2> QED BY <2>1, <2>3 DEF Aims, Screen, serverVars, rest
<1>9. ASSUME HandleMove(r) PROVE Aims' /\ Screen'
  <2>1. modal.item \in Items /\ modal.selected \in Dirs
    BY <1>9 DEF Aims, HandleMove
  <2>2. \A s \in Reqs : Aimed(req'[s])
    BY <1>0, <1>1, <1>9, <2>1 DEF HandleMove
  <2> QED BY <1>9, <2>2 DEF HandleMove, Aims, Screen, serverVars, rest
<1> QED BY <1>2, <1>3, <1>4, <1>5, <1>6, <1>7, <1>8, <1>9 DEF Begin

\* What the server does with a request, and the toast that the answer leaves.
LEMMA EffectTypes ==
    ASSUME DirTypes, NEW r \in Reqs, req[r].pc # "idle"
    PROVE  /\ Effect(req[r]) => place' \in [Items -> Dirs \cup {None}] /\ trash' \subseteq Items
           /\ OfferOf(req[r]) \subseteq [kind : {"restore", "back"}, item : Items, dir : Dirs]
<1>1. /\ req[r].dir \in Dirs
      /\ req[r].kind # "load" => req[r].item \in Items
      /\ req[r].kind \in Adds \cup Moves \cup {"drag"} => req[r].to \in Dirs
  BY DEF DirTypes, Aims, Aimed
<1>2. place \in [Items -> Dirs \cup {None}] /\ trash \subseteq Items
  BY DEF DirTypes, Screen
<1>3. ASSUME Effect(req[r]) PROVE place' \in [Items -> Dirs \cup {None}] /\ trash' \subseteq Items
  BY <1>1, <1>2, <1>3 DEF Effect
<1>4. OfferOf(req[r]) \subseteq [kind : {"restore", "back"}, item : Items, dir : Dirs]
  BY <1>1 DEF OfferOf
<1> QED BY <1>3, <1>4

LEMMA ContinueTypes ==
    ASSUME DirTypes, NEW r \in Reqs, Continue(r)
    PROVE  Aims' /\ Screen'
<1> USE DEF DirTypes
<1>0. /\ url \in Dirs /\ req \in [Reqs -> PageRequest] /\ req[r] \in PageRequest
      /\ Aimed(req[r]) /\ Aimed(NoReq)
      /\ isLoading \in BOOLEAN
  BY DEF DirInv, Typed, Screen, Aims, Aimed, NoReq
<1>1. ASSUME req' = [req EXCEPT ![r] = NoReq] PROVE \A s \in Reqs : Aimed(req'[s])
  BY <1>0, <1>1, RequestAims
<1>2. ASSUME Done(r) PROVE Aims' /\ Screen'
  <2> DEFINE q == req[r]
             d == IF q.kind = "drag" THEN url ELSE q.dir
             v == [q EXCEPT !.pc = "list", !.dir = d, !.skip = (q.kind # "drag")]
  <2>1. /\ q.pc = "op" /\ Effect(q) /\ req' = [req EXCEPT ![r] = v]
        /\ target' = d /\ error' = FALSE /\ isLoading' \in BOOLEAN
        /\ offers' = offers \/ offers' = offers \cup OfferOf(q)
        /\ modal' = modal \/ modal' = [modal EXCEPT !.open = FALSE]
        /\ UNCHANGED <<rest, crumbs, more>>
    BY <1>2 DEF Done, LoadDirectory
  <2>2. d \in Dirs
    BY <1>0, <2>1 DEF Aimed
  <2>3. Aimed(v)
    BY <1>0, <2>1, <2>2 DEF Aimed, PageRequest
  <2>4. modal \in [open : BOOLEAN, item : Items \cup {None}, selected : Dirs \cup {None}]
    BY DEF DirInv, Typed
  <2> HIDE DEF d, v
  <2>5. \A s \in Reqs : Aimed(req'[s])
    BY <2>1, <2>3, RequestAims
  <2>6. Aims'
    BY <2>1, <2>4, <2>5, EffectTypes DEF Aims
  <2>7. Screen'
    BY <2>1, <2>2, EffectTypes DEF Screen, rest
  <2> QED BY <2>6, <2>7
<1>3. ASSUME Fail(r) PROVE Aims' /\ Screen'
  <2>1. /\ req[r].pc = "op" /\ req' = [req EXCEPT ![r] = NoReq]
        /\ UNCHANGED serverVars \/ Effect(req[r])
        /\ error' \in BOOLEAN
        /\ UNCHANGED <<rest, isLoading, target, crumbs, more, offers, modal>>
    BY <1>3 DEF Fail
  <2>2. \A s \in Reqs : Aimed(req'[s])
    BY <1>1, <2>1
  <2>3. Screen'
    BY <2>1, EffectTypes DEF Screen, rest, serverVars
  <2> QED BY <2>1, <2>2, <2>3 DEF Aims
<1>4. ASSUME List(r) \/ Listed(r) \/ ListMore(r) PROVE Aims' /\ Screen'
  <2>1. PICK v : /\ req' = [req EXCEPT ![r] = v]
                 /\ v.dir = req[r].dir /\ v.kind = req[r].kind /\ v.item = req[r].item /\ v.to = req[r].to
                 /\ req[r].pc # "idle"
    <3>1. CASE List(r)
      <4> DEFINE v == [req[r] EXCEPT !.pc = "listed", !.page = FirstOf(Content(req[r].dir)),
                                     !.next = CursorOf(Content(req[r].dir))]
      <4>1. req' = [req EXCEPT ![r] = v] /\ req[r].pc # "idle"
        BY <3>1 DEF List
      <4>2. v.dir = req[r].dir /\ v.kind = req[r].kind /\ v.item = req[r].item /\ v.to = req[r].to
        BY <1>0 DEF PageRequest
      <4> HIDE DEF v
      <4> QED BY <4>1, <4>2
    <3>2. CASE Listed(r)
      <4> DEFINE v == [req[r] EXCEPT !.pc = "path"]
      <4>1. req' = [req EXCEPT ![r] = v] /\ req[r].pc # "idle"
        BY <3>2 DEF Listed
      <4>2. v.dir = req[r].dir /\ v.kind = req[r].kind /\ v.item = req[r].item /\ v.to = req[r].to
        BY <1>0 DEF PageRequest
      <4> HIDE DEF v
      <4> QED BY <4>1, <4>2
    <3>3. CASE ListMore(r)
      <4> DEFINE S == After(Content(req[r].dir), req[r].next)
                 v == [req[r] EXCEPT !.pc = "listedMore", !.page = FirstOf(S), !.next = CursorOf(S)]
      <4>1. req' = [req EXCEPT ![r] = v] /\ req[r].pc # "idle"
        BY <3>3 DEF ListMore
      <4>2. v.dir = req[r].dir /\ v.kind = req[r].kind /\ v.item = req[r].item /\ v.to = req[r].to
        BY <1>0 DEF PageRequest
      <4> HIDE DEF v
      <4> QED BY <4>1, <4>2
    <3> QED BY <1>4, <3>1, <3>2, <3>3
  <2>2. \A s \in Reqs : Aimed(req'[s])
    BY <1>0, <2>1, RequestAims DEF Aimed
  <2>3. UNCHANGED <<serverVars, rest, isLoading, error, target, crumbs, more, offers, modal>>
    BY <1>4 DEF List, Listed, ListMore
  <2> QED BY <2>2, <2>3 DEF Aims, Screen, serverVars, rest
<1>5. ASSUME Path(r) \/ ListFails(r) PROVE Aims' /\ Screen'
  <2>1. /\ req[r].pc # "idle" /\ Finish(r) /\ UNCHANGED <<serverVars, rest, target, more, modal>>
        /\ crumbs' \in {crumbs, req[r].dir} /\ error' \in {error, TRUE}
    BY <1>5 DEF Path, ListFails
  <2>2. \A s \in Reqs : Aimed(req'[s])
    BY <1>1, <2>1 DEF Finish
  <2>3. offers' = offers \/ offers' = offers \cup OfferOf(req[r])
    BY <2>1 DEF Finish
  <2>4. Aims'
    BY <2>1, <2>2, <2>3, EffectTypes DEF Aims
  <2>5. isLoading' \in BOOLEAN
    BY <2>1 DEF Finish
  <2>6. crumbs' \in Dirs \cup {None} /\ error' \in BOOLEAN
    BY <1>0, <2>1 DEF Aimed, Screen
  <2> QED BY <2>1, <2>4, <2>5, <2>6 DEF Screen, serverVars, rest
<1>6. ASSUME ListedMore(r) \/ ListMoreFails(r) PROVE Aims' /\ Screen'
  <2>1. \A s \in Reqs : Aimed(req'[s])
    BY <1>1, <1>6 DEF ListedMore, ListMoreFails
  <2>2. more' = FALSE /\ UNCHANGED <<serverVars, rest, isLoading, error, target, crumbs, offers, modal>>
    BY <1>6 DEF ListedMore, ListMoreFails
  <2> QED BY <2>1, <2>2 DEF Aims, Screen, serverVars, rest
<1> QED BY <1>2, <1>3, <1>4, <1>5, <1>6 DEF Continue

LEMMA DirTypesStep == DirTypes /\ [Next]_vars => DirTypes'
<1> SUFFICES ASSUME DirTypes, [Next]_vars PROVE Aims' /\ Screen'
  BY DirNextKeeps DEF DirTypes
<1>1. CASE UNCHANGED vars
  BY <1>1 DEF DirTypes, Aims, Aimed, Screen, vars
<1>2. ASSUME NEW r \in Reqs, Begin(r) \/ Continue(r) PROVE Aims' /\ Screen'
  BY <1>2, BeginTypes, ContinueTypes
<1>3. ASSUME NEW o \in offers, Dismiss(o) PROVE Aims' /\ Screen'
  BY <1>3 DEF Dismiss, DirTypes, Aims, Aimed, Screen, serverVars, rest
<1>4. ASSUME NEW i \in Items, OpenModal(i) PROVE Aims' /\ Screen'
  <2>1. url \in Dirs
    BY DEF DirTypes, DirInv, Typed
  <2> QED BY <1>4, <2>1 DEF OpenModal, DirTypes, Aims, Screen, serverVars, rest
<1>5. ASSUME (\E d \in Dirs : NavigateTo(d)) \/ CloseModal PROVE Aims' /\ Screen'
  <2>1. modal \in [open : BOOLEAN, item : Items \cup {None}, selected : Dirs \cup {None}]
    BY DEF DirTypes, DirInv, Typed
  <2> QED BY <1>5, <2>1 DEF NavigateTo, CloseModal, DirTypes, Aims, Screen, serverVars, rest
<1> QED BY <1>1, <1>2, <1>3, <1>4, <1>5 DEF Next

LEMMA DirTypesGive == DirTypes => TypeOK
<1> SUFFICES ASSUME DirTypes PROVE TypeOK
  OBVIOUS
<1>1. req \in [Reqs -> [pc : {"idle", "op", "list", "listed", "path", "more", "listedMore"},
                       kind : Kinds, item : Items \cup {None},
                       dir : Dirs \cup {None}, to : Dirs \cup {None}, skip : BOOLEAN,
                       page : SUBSET Items, next : Items \cup {None}]]
  BY CursorsAreItems DEF DirTypes, DirInv, Typed, PageRequest
<1>2. shown \in [dir : Dirs \cup {None}, items : SUBSET Items, twice : SUBSET Items,
                next : Items \cup {None}]
  BY CursorsAreItems DEF DirTypes, DirInv, Typed
<1> QED BY <1>1, <1>2 DEF DirTypes, DirInv, Typed, Aims, Screen, TypeOK

-----------------------------------------------------------------------------
(* SharedViews: the types.                                                 *)

GetType == [pc : {"idle", "fetch", "more"}, path : Paths, password : Passwords,
            given : BOOLEAN, gate : BOOLEAN, from : Docs \cup {NoDoc}]

FetchedOK ==
    /\ data \in Folders \cup {NoFolder} /\ docs \subseteq Docs /\ docsCursor \in Docs \cup {NoDoc}
    /\ trail \in Paths /\ path \in Paths
WaitingOK == fetching \in BOOLEAN /\ navigating \in BOOLEAN /\ failed \in BOOLEAN /\ fetchingMore \in BOOLEAN
FormOK ==
    /\ needsPassword \in BOOLEAN /\ passwordError \in BOOLEAN /\ submitting \in BOOLEAN
    /\ password \in Passwords /\ saved \in Passwords
FixedOK == view \in {"file", "directory"} /\ secret \in BOOLEAN /\ guestWaits \in BOOLEAN

ViewTypes == FetchedOK /\ WaitingOK /\ FormOK /\ FixedOK /\ get \in [Gets -> GetType]

LEMMA ViewTypesGive == ViewTypes => ViewTypeOK
BY DEF ViewTypes, FetchedOK, WaitingOK, FormOK, FixedOK, GetType, ViewTypeOK

LEMMA NoGetTyped == NoGet \in GetType
BY DEF NoGet, GetType, Paths, Passwords

LEMMA PathsLonger ==
    ASSUME NEW p \in Paths, Len(p) < 2, NEW g \in Folders
    PROVE  Append(p, g) \in Paths
<1>1. CASE p = <<>>
  BY <1>1 DEF Paths
<1>2. ASSUME NEW a \in Folders, p = <<a>> PROVE Append(p, g) \in Paths
  <2>1. Append(p, g) \in Seq(Folders) /\ <<a, g>> \in Seq(Folders)
    BY <1>2
  <2>2. Len(Append(p, g)) = 2 /\ Append(p, g)[1] = a /\ Append(p, g)[2] = g
    BY <1>2
  <2> DEFINE s == Append(p, g)
             t == <<a, g>>
  <2>3. Len(t) = 2 /\ t[1] = a /\ t[2] = g
    OBVIOUS
  <2> HIDE DEF s, t
  <2>4. Len(s) = Len(t) /\ \A i \in 1..Len(s) : s[i] = t[i]
    <3>1. 1..2 = {1, 2}
      OBVIOUS
    <3> QED BY <2>2, <2>3, <3>1 DEF s
  <2>5. s = t
    BY <2>1, <2>4, SeqEqual DEF s, t
  <2>6. Append(p, g) = <<a, g>>
    BY <2>5 DEF s, t
  <2> QED BY <2>6 DEF Paths
<1>3. ASSUME NEW a \in Folders, NEW b \in Folders, p = <<a, b>> PROVE FALSE
  BY <1>3
<1> QED BY <1>1, <1>2, <1>3 DEF Paths

LEMMA PathsShorter ==
    ASSUME NEW p \in Paths, NEW i \in Nat, i < Len(p)
    PROVE  SubSeq(p, 1, i) \in Paths
<1>1. CASE p = <<>>
  BY <1>1
<1>2. ASSUME NEW a \in Folders, p = <<a>> PROVE SubSeq(p, 1, i) = <<>>
  BY <1>2
<1>3. ASSUME NEW a \in Folders, NEW b \in Folders, p = <<a, b>> PROVE SubSeq(p, 1, i) \in {<<>>, <<a>>}
  <2>1. i = 0 \/ i = 1
    BY <1>3
  <2>2. CASE i = 0
    BY <1>3, <2>2
  <2>3. CASE i = 1
    <3>1. p \in Seq(Folders) /\ Len(p) = 2 /\ p[1] = a
      BY <1>3
    <3>2. SubSeq(p, 1, 1) \in Seq(Folders) /\ Len(SubSeq(p, 1, 1)) = 1 /\ SubSeq(p, 1, 1)[1] = a
      BY <3>1, SubSeqProperties
    <3> DEFINE s == SubSeq(p, 1, 1)
               t == <<a>>
    <3>3. t \in Seq(Folders) /\ Len(t) = 1 /\ t[1] = a
      OBVIOUS
    <3> HIDE DEF s, t
    <3>4. s \in Seq(Folders) /\ Len(s) = Len(t) /\ \A n \in 1..Len(s) : s[n] = t[n]
      <4>1. 1..1 = {1}
        OBVIOUS
      <4> QED BY <3>2, <3>3, <4>1 DEF s
    <3>5. s = t
      BY <3>3, <3>4, SeqEqual
    <3>6. SubSeq(p, 1, 1) = <<a>>
      BY <3>5 DEF s, t
    <3> QED BY <2>3, <3>6
  <2> QED BY <2>1, <2>2, <2>3
<1> QED BY <1>1, <1>2, <1>3 DEF Paths

LEMMA FolderTyped == ASSUME NEW p \in Paths PROVE Folder(p) \in Folders
<1>1. CASE p = <<>>
  BY <1>1, SharedViewsAssumption DEF Folder
<1>2. ASSUME NEW a \in Folders, p = <<a>> PROVE Folder(p) \in Folders
  BY <1>2 DEF Folder
<1>3. ASSUME NEW a \in Folders, NEW b \in Folders, p = <<a, b>> PROVE Folder(p) \in Folders
  BY <1>3 DEF Folder
<1> QED BY <1>1, <1>2, <1>3 DEF Paths

LEMMA GetBegins ==
    ASSUME ViewTypes, NEW k \in Gets, NEW q \in GetType, get' = [get EXCEPT ![k] = q]
    PROVE  get' \in [Gets -> GetType]
BY DEF ViewTypes

LEMMA FetchTyped ==
    ASSUME NEW p \in Paths, NEW pw \in Passwords
    PROVE  [NoGet EXCEPT !.pc = "fetch", !.path = p, !.password = pw, !.gate = (pw = "none")] \in GetType
BY NoGetTyped DEF GetType

LEMMA FetchTypes ==
    ASSUME ViewTypes, NEW k \in Gets, NEW p \in Paths, NEW pw \in Passwords, Fetch(k, p, pw)
    PROVE  get' \in [Gets -> GetType] /\ fetching' \in BOOLEAN /\ failed' \in BOOLEAN
<1> DEFINE q == [NoGet EXCEPT !.pc = "fetch", !.path = p, !.password = pw, !.gate = (pw = "none")]
<1>1. q \in GetType
  BY FetchTyped
<1>2. get' = [get EXCEPT ![k] = q] /\ fetching' = TRUE /\ failed' = FALSE
  BY DEF Fetch
<1> HIDE DEF q
<1> QED BY <1>1, <1>2, GetBegins

\* What Refetch leaves to the action that calls it.
LEMMA RefetchTypes ==
    ASSUME ViewTypes, NEW k \in Gets, path' \in Paths, trail' \in Paths, navigating' \in BOOLEAN,
           UNCHANGED fixed, Refetch(k, path')
    PROVE  ViewTypes'
<1>1. Fetch(k, path', saved) /\ saved \in Passwords
  BY DEF Refetch, ViewTypes, FormOK
<1>2. get' \in [Gets -> GetType] /\ fetching' \in BOOLEAN /\ failed' \in BOOLEAN
  BY <1>1, FetchTypes
<1>3. /\ needsPassword' = FALSE /\ password' = "none" /\ passwordError' = FALSE
      /\ data' = (IF saved = "none" THEN NoFolder ELSE data)
      /\ UNCHANGED <<docs, docsCursor, fetchingMore, saved, submitting>>
  BY DEF Refetch
<1>4. FetchedOK'
  BY <1>3 DEF ViewTypes, FetchedOK
<1>5. FormOK'
  BY <1>3 DEF ViewTypes, FormOK, Passwords
<1>6. WaitingOK'
  BY <1>2, <1>3 DEF ViewTypes, WaitingOK
<1>7. FixedOK'
  BY DEF ViewTypes, FixedOK, fixed
<1> QED BY <1>2, <1>4, <1>5, <1>6, <1>7 DEF ViewTypes

LEMMA AddressTypes ==
    ASSUME ViewTypes, NEW k \in Gets,
           \/ RenewToken(k) \/ GoBack(k)
           \/ \E g \in Folders \ {Top} : Enter(k, g)
           \/ \E i \in 0..1 : Climb(k, i)
    PROVE  ViewTypes'
<1>0. /\ path \in Paths /\ trail \in Paths /\ navigating \in BOOLEAN
  BY DEF ViewTypes, FetchedOK, WaitingOK
<1>1. ASSUME RenewToken(k) PROVE ViewTypes'
  <2>1. CASE view = "directory" /\ Refetch(k, path) /\ UNCHANGED <<trail, navigating>>
    <3>1. path' = path /\ UNCHANGED fixed
      BY <1>1 DEF RenewToken
    <3> QED BY <1>0, <2>1, <3>1, RefetchTypes
  <2>2. CASE Fetch(k, <<>>, "none") /\ UNCHANGED <<fetched, navigating, fetchingMore, form>>
    <3>1. get' \in [Gets -> GetType] /\ fetching' \in BOOLEAN /\ failed' \in BOOLEAN
      BY <2>2, FetchTypes DEF Paths, Passwords
    <3>2. UNCHANGED <<fixed, path>>
      BY <1>1 DEF RenewToken
    <3> QED
      BY <2>2, <3>1, <3>2 DEF ViewTypes, FetchedOK, WaitingOK, FormOK, FixedOK, fixed, fetched, form
  <2> QED BY <1>1, <2>1, <2>2 DEF RenewToken
<1>2. ASSUME GoBack(k) PROVE ViewTypes'
  <2>1. path # <<>> /\ path' = SubSeq(path, 1, Len(path) - 1) /\ Refetch(k, path')
        /\ UNCHANGED <<fixed, trail, navigating>>
    BY <1>2 DEF GoBack
  <2>2. Len(path) - 1 \in Nat /\ Len(path) - 1 < Len(path)
    BY <1>0, <2>1 DEF Paths
  <2>3. path' \in Paths
    BY <1>0, <2>1, <2>2, PathsShorter
  <2> QED BY <1>0, <2>1, <2>3, RefetchTypes
<1>3. ASSUME NEW g \in Folders \ {Top}, Enter(k, g) PROVE ViewTypes'
  <2>1. /\ path' = Append(path, g) /\ trail' = Append(trail, g) /\ Len(path) < 2 /\ Len(trail) < 2
        /\ navigating' = TRUE /\ Refetch(k, path') /\ UNCHANGED fixed
    BY <1>3 DEF Enter
  <2>2. path' \in Paths /\ trail' \in Paths
    BY <1>0, <2>1, PathsLonger
  <2> QED BY <2>1, <2>2, RefetchTypes
<1>4. ASSUME NEW i \in 0..1, Climb(k, i) PROVE ViewTypes'
  <2>1. /\ i < Len(trail) /\ path' = (IF i < Len(path) THEN SubSeq(path, 1, i) ELSE path)
        /\ trail' = SubSeq(trail, 1, i) /\ navigating' = TRUE /\ UNCHANGED fixed
    BY <1>4 DEF Climb
  <2>2. path' \in Paths /\ trail' \in Paths
    BY <1>0, <2>1, PathsShorter
  <2>3. CASE path' # path
    BY <1>4, <2>1, <2>2, <2>3, RefetchTypes DEF Climb
  <2>4. CASE path' = path
    <3>1. UNCHANGED <<data, docs, docsCursor, fetching, failed, fetchingMore, form, get>>
      BY <1>4, <2>4 DEF Climb
    <3> QED BY <2>1, <2>2, <3>1 DEF ViewTypes, FetchedOK, WaitingOK, FormOK, FixedOK, fixed, form
  <2> QED BY <2>3, <2>4
<1> QED BY <1>1, <1>2, <1>3, <1>4

LEMMA SubmitTypes ==
    ASSUME ViewTypes, NEW k \in Gets, NEW j \in Gets, SubmitForDirectory(k, j)
    PROVE  ViewTypes'
<1> DEFINE sent == [NoGet EXCEPT !.pc = "fetch", !.path = path, !.password = password]
           first == [sent EXCEPT !.given = TRUE]
           second == IF password = saved THEN get[j] ELSE sent
<1>1. path \in Paths /\ password \in Passwords /\ saved \in Passwords /\ get \in [Gets -> GetType]
  BY DEF ViewTypes, FetchedOK, FormOK
<1>2. sent \in GetType
  BY <1>1, NoGetTyped DEF GetType
<1>3. first \in GetType /\ second \in GetType
  BY <1>1, <1>2 DEF GetType
<1>4. k # j /\ get' = [get EXCEPT ![k] = first, ![j] = IF password = saved THEN @ ELSE sent]
  BY DEF SubmitForDirectory
<1> HIDE DEF first, sent
<1>5. get' = [get EXCEPT ![k] = first, ![j] = second]
  BY <1>1, <1>4
<1> HIDE DEF second
<1>6. get' \in [Gets -> GetType]
  BY <1>1, <1>3, <1>5
<1>7. /\ submitting' = TRUE /\ passwordError' = FALSE /\ saved' = password
      /\ \/ needsPassword' = needsPassword /\ password' = password
         \/ needsPassword' = FALSE /\ password' = "none"
      /\ fetching' = TRUE /\ failed' = FALSE
      /\ UNCHANGED <<fixed, path, fetched, navigating, fetchingMore>>
  BY DEF SubmitForDirectory
<1>8. FormOK'
  BY <1>7 DEF ViewTypes, FormOK, Passwords
<1> QED BY <1>6, <1>7, <1>8 DEF ViewTypes, FetchedOK, WaitingOK, FixedOK, fixed, fetched

LEMMA FormTypes ==
    ASSUME ViewTypes, NEW k \in Gets,
           SubmitForFile(k) \/ MoreDocs(k) \/ \E pw \in Passwords \ {"none"} : Type(pw)
    PROVE  ViewTypes'
<1>0. /\ path \in Paths /\ password \in Passwords /\ saved \in Passwords
      /\ docsCursor \in Docs \cup {NoDoc}
  BY DEF ViewTypes, FetchedOK, FormOK
<1>1. ASSUME SubmitForFile(k) PROVE ViewTypes'
  <2> DEFINE q == [NoGet EXCEPT !.pc = "fetch", !.password = password, !.given = TRUE]
  <2>1. q \in GetType
    BY <1>0, NoGetTyped DEF GetType
  <2>2. /\ get' = [get EXCEPT ![k] = q] /\ submitting' = TRUE /\ passwordError' = FALSE
        /\ UNCHANGED <<fixed, path, fetched, waiting, needsPassword, password, saved>>
    BY <1>1 DEF SubmitForFile
  <2> HIDE DEF q
  <2>3. get' \in [Gets -> GetType]
    BY <2>1, <2>2, GetBegins
  <2> QED BY <2>2, <2>3 DEF ViewTypes, FetchedOK, WaitingOK, FormOK, FixedOK, fixed, fetched, waiting
<1>2. ASSUME MoreDocs(k) PROVE ViewTypes'
  <2> DEFINE q == [NoGet EXCEPT !.pc = "more", !.path = path, !.password = saved,
                                !.from = docsCursor]
  <2>1. q \in GetType
    BY <1>0, NoGetTyped DEF GetType
  <2>2. /\ get' = [get EXCEPT ![k] = q] /\ fetchingMore' = TRUE
        /\ UNCHANGED <<fixed, path, fetched, fetching, navigating, failed, form>>
    BY <1>2 DEF MoreDocs
  <2> HIDE DEF q
  <2>3. get' \in [Gets -> GetType]
    BY <2>1, <2>2, GetBegins
  <2> QED BY <2>2, <2>3 DEF ViewTypes, FetchedOK, WaitingOK, FormOK, FixedOK, fixed, fetched, form
<1>3. ASSUME NEW pw \in Passwords, Type(pw) PROVE ViewTypes'
  BY <1>3 DEF Type, ViewTypes, FetchedOK, WaitingOK, FormOK, FixedOK, fixed, fetched, waiting
<1> QED BY <1>1, <1>2, <1>3

LEMMA EndedTypes ==
    ASSUME ViewTypes, NEW k \in Gets, Ended(k)
    PROVE  get' \in [Gets -> GetType] /\ submitting' \in BOOLEAN
           /\ fetching' \in BOOLEAN /\ navigating' \in BOOLEAN
<1>1. get' \in [Gets -> GetType]
  BY NoGetTyped, GetBegins DEF Ended
<1>2. submitting' \in BOOLEAN
  BY DEF Ended
<1>3. fetching' \in BOOLEAN /\ navigating' \in BOOLEAN
  BY DEF Ended, ViewTypes, WaitingOK
<1> QED BY <1>1, <1>2, <1>3

LEMMA BeyondTyped == \A f, c : Beyond(f, c) \subseteq Docs
BY DEF Beyond

LEMMA FirstDocsTyped == ASSUME NEW S \in SUBSET Docs PROVE FirstDocs(S) \subseteq Docs
BY DEF FirstDocs

LEMMA AnswerTypes ==
    ASSUME ViewTypes, NEW k \in Gets, GetStep(k)
    PROVE  ViewTypes'
<1>0. /\ get[k] \in GetType /\ get[k].path \in Paths /\ Folder(get[k].path) \in Folders
  BY FolderTyped DEF ViewTypes, GetType
<1>1. ASSUME Opened(k) PROVE ViewTypes'
  <2> DEFINE all == Beyond(Folder(get[k].path), NoDoc)
  <2>1. all \in SUBSET Docs
    BY BeyondTyped
  <2>2. FirstDocs(all) \subseteq Docs /\ NextCursor(all) \in Docs \cup {NoDoc}
    BY <2>1, FirstDocsTyped, NextCursorTyped
  <2>3. /\ data' = Folder(get[k].path) /\ docs' = FirstDocs(all) /\ docsCursor' = NextCursor(all)
        /\ trail' = get[k].path
        /\ needsPassword' = (needsPassword /\ view = "file" /\ ~get[k].given)
        /\ Ended(k) /\ UNCHANGED <<fixed, path, failed, fetchingMore, passwordError, password, saved>>
    BY <1>1 DEF Opened
  <2> HIDE DEF all
  <2>4. FetchedOK'
    BY <1>0, <2>2, <2>3 DEF ViewTypes, FetchedOK
  <2>5. needsPassword' \in BOOLEAN
    BY <2>3
  <2> QED BY <2>3, <2>4, <2>5, EndedTypes DEF ViewTypes, WaitingOK, FormOK, FixedOK, fixed
<1>2. ASSUME WrongPassword(k) PROVE ViewTypes'
  <2>1. /\ needsPassword' \in {needsPassword, TRUE} /\ passwordError' \in {passwordError, TRUE}
        /\ Ended(k) /\ UNCHANGED <<fixed, path, fetched, failed, fetchingMore, password, saved>>
    BY <1>2 DEF WrongPassword
  <2> QED BY <2>1, EndedTypes DEF ViewTypes, FetchedOK, WaitingOK, FormOK, FixedOK, fixed, fetched
<1>3. ASSUME GetFails(k) PROVE ViewTypes'
  <2>1. /\ failed' \in {failed, TRUE} /\ passwordError' \in {passwordError, TRUE}
        /\ Ended(k) /\ UNCHANGED <<fixed, path, fetched, fetchingMore, needsPassword, password, saved>>
    BY <1>3 DEF GetFails
  <2> QED BY <2>1, EndedTypes DEF ViewTypes, FetchedOK, WaitingOK, FormOK, FixedOK, fixed, fetched
<1>4. ASSUME MoreArrived(k) PROVE ViewTypes'
  <2> DEFINE further == Beyond(Folder(get[k].path), get[k].from)
  <2>1. further \in SUBSET Docs
    BY BeyondTyped
  <2>2. FirstDocs(further) \subseteq Docs /\ NextCursor(further) \in Docs \cup {NoDoc}
    BY <2>1, FirstDocsTyped, NextCursorTyped
  <2>3. /\ docs' = docs \cup FirstDocs(further) /\ docsCursor' = NextCursor(further)
        /\ fetchingMore' = FALSE /\ get' = [get EXCEPT ![k] = NoGet]
        /\ UNCHANGED <<fixed, path, data, trail, fetching, navigating, failed, form>>
    BY <1>4 DEF MoreArrived
  <2> HIDE DEF further
  <2>4. FetchedOK'
    BY <2>2, <2>3 DEF ViewTypes, FetchedOK
  <2>5. get' \in [Gets -> GetType]
    BY <2>3, NoGetTyped, GetBegins
  <2> QED BY <2>3, <2>4, <2>5 DEF ViewTypes, WaitingOK, FormOK, FixedOK, fixed, form
<1>5. ASSUME MoreFailed(k) PROVE ViewTypes'
  <2>1. /\ fetchingMore' = FALSE /\ get' = [get EXCEPT ![k] = NoGet]
        /\ UNCHANGED <<fixed, path, fetched, fetching, navigating, failed, form>>
    BY <1>5 DEF MoreFailed
  <2>2. get' \in [Gets -> GetType]
    BY <2>1, NoGetTyped, GetBegins
  <2> QED BY <2>1, <2>2 DEF ViewTypes, FetchedOK, WaitingOK, FormOK, FixedOK, fixed, fetched, form
<1> QED BY <1>1, <1>2, <1>3, <1>4, <1>5 DEF GetStep

LEMMA ViewTypesInit == ViewInit => ViewTypes
<1> SUFFICES ASSUME ViewInit PROVE ViewTypes
  OBVIOUS
<1>1. path \in Paths /\ trail \in Paths
  BY DEF ViewInit, Paths, Subs
<1>2. FetchedOK /\ FixedOK
  BY <1>1 DEF ViewInit, FetchedOK, FixedOK
<1>3. WaitingOK /\ FormOK
  BY DEF ViewInit, WaitingOK, FormOK, Passwords
<1> DEFINE q == [NoGet EXCEPT !.pc = "fetch", !.path = path, !.gate = TRUE]
<1>4. q \in GetType
  BY <1>1, NoGetTyped DEF GetType
<1>5. PICK k \in Gets : get = [j \in Gets |-> IF j = k THEN q ELSE NoGet]
  BY DEF ViewInit
<1> HIDE DEF q
<1>6. get \in [Gets -> GetType]
  BY <1>4, <1>5, NoGetTyped
<1> QED BY <1>2, <1>3, <1>6 DEF ViewTypes

LEMMA ViewTypesStep == ViewTypes /\ [ViewNext]_viewVars => ViewTypes'
<1> SUFFICES ASSUME ViewTypes, [ViewNext]_viewVars PROVE ViewTypes'
  OBVIOUS
<1>1. CASE UNCHANGED viewVars
  BY <1>1 DEF viewVars, ViewTypes, FetchedOK, WaitingOK, FormOK, FixedOK
<1>2. ASSUME NEW k \in Gets,
             \/ GetStep(k) \/ RenewToken(k) \/ GoBack(k) \/ SubmitForFile(k) \/ MoreDocs(k)
             \/ \E j \in Gets : SubmitForDirectory(k, j)
             \/ \E g \in Folders \ {Top} : Enter(k, g)
             \/ \E i \in 0..1 : Climb(k, i)
      PROVE  ViewTypes'
  BY <1>2, AnswerTypes, AddressTypes, SubmitTypes, FormTypes
<1>3. ASSUME NEW pw \in Passwords, Type(pw) PROVE ViewTypes'
  BY <1>3 DEF Type, ViewTypes, FetchedOK, WaitingOK, FormOK, FixedOK, fixed, fetched, waiting
<1> QED BY <1>1, <1>2, <1>3 DEF ViewNext

-----------------------------------------------------------------------------
(* ShareDialog: the types.                                                 *)

\* A deletion is of a link that was listed: an item never undoes what was not there.
DeletesLinks == \A k \in Calls : call[k].pc # "idle" /\ call[k].kind = "delete" => call[k].link \in Link

FlagsOK ==
    /\ kept \in BOOLEAN /\ sharerWaits \in BOOLEAN /\ open \in BOOLEAN /\ listing \in BOOLEAN
    /\ creating \in BOOLEAN /\ createForm \in BOOLEAN
ErrorsOK == linkError \in BOOLEAN /\ saving \in BOOLEAN /\ badge \in BOOLEAN

OutsideOK == count \in Nat /\ undoable \subseteq Link /\ made <= MaxMade

DialogTypes == DialogInv /\ DeletesLinks /\ FlagsOK /\ ErrorsOK /\ OutsideOK

LEMMA DialogTypesGive == DialogTypes => ShareTypeOK
<1> SUFFICES ASSUME DialogTypes PROVE ShareTypeOK
  OBVIOUS
<1>1. links \subseteq Link /\ made \in 0..MaxMade /\ listed \subseteq Link
  BY ShareDialogAssumption DEF DialogTypes, DialogInv, LinksOK, CallsOK, OutsideOK
<1>2. /\ editing \in Link \cup {Absent} /\ count \in Nat /\ undoable \subseteq Link
      /\ call \in [Calls -> DialogCall]
  BY DEF DialogTypes, DialogInv, CallsOK, OutsideOK
<1>3. {kept, sharerWaits, open, listing, creating, createForm, linkError, saving, badge} \subseteq BOOLEAN
  BY DEF DialogTypes, FlagsOK, ErrorsOK
<1> QED BY <1>1, <1>2, <1>3 DEF ShareTypeOK, DialogCall

LEMMA DialogTypesInit == ShareInit => DialogTypes
<1> SUFFICES ASSUME ShareInit PROVE DialogTypes
  OBVIOUS
<1>1. DialogInv
  BY DialogInitOK
<1>2. DeletesLinks
  BY DEF ShareInit, DeletesLinks, NoCall
<1>3. FlagsOK
  BY DEF ShareInit, FlagsOK
<1>4. linkError = FALSE /\ saving = FALSE /\ badge = (links # {})
  BY DEF ShareInit
<1>5. ErrorsOK
  BY <1>4 DEF ErrorsOK
<1>6. count \in Nat
  BY <1>1, CardinalityOfLinks DEF ShareInit, DialogInv
<1>7. OutsideOK
  BY <1>6, ShareDialogAssumption DEF ShareInit, OutsideOK
<1> QED BY <1>1, <1>2, <1>3, <1>5, <1>7 DEF DialogTypes

LEMMA LinksFinite == IsFiniteSet(Link)
<1> DEFINE T == 1..(2 * MaxMade + 1)
           f == [l \in Link |-> IF l.forever THEN 2 * l.id ELSE 2 * l.id + 1]
<1>1. IsFiniteSet(T)
  BY FS_Interval, ShareDialogAssumption
<1>2. ASSUME NEW l \in Link PROVE l.id \in 1..MaxMade /\ l.forever \in BOOLEAN /\ f[l] \in T
  BY ShareDialogAssumption DEF Link
<1>3. f \in [Link -> T]
  BY <1>2
<1>4. ASSUME NEW l \in Link, NEW m \in Link, f[l] = f[m] PROVE l = m
  <2>1. l.id = m.id /\ l.forever = m.forever
    BY <1>2, <1>4, ShareDialogAssumption
  <2> QED BY <2>1 DEF Link
<1> HIDE DEF f, T
<1>5. f \in Injection(Link, T)
  BY <1>3, <1>4 DEF Injection, IsInjective
<1> QED BY <1>1, <1>5, FS_Injection

LEMMA CountOfGot == ASSUME NEW S \in SUBSET Link PROVE Cardinality(S) \in Nat
BY LinksFinite, FS_Subset, FS_CardinalityType

\* A request of another kind, of a link that is there, or none.
LEMMA SentTypes ==
    ASSUME DialogTypes, NEW k \in Calls, NEW kind \in CallKinds, NEW l, NEW was,
           l \in [id : 0..MaxMade, forever : BOOLEAN], was \in BOOLEAN,
           kind = "delete" => l \in Link, Request(k, kind, l, was)
    PROVE  DeletesLinks'
<1>1. Sent(k, kind, l, was)
  BY RequestSlot DEF DialogTypes, DialogInv
<1> QED BY <1>1 DEF Sent, DeletesLinks, DialogTypes

\* An answer that the page has dealt with; the user is then asked for.
LEMMA UserTypes ==
    ASSUME DialogTypes, NEW k \in Calls,
           Release(k) \/ call' = Refresh(call, k) \/ call' = Refresh(Unmounted(call), k)
    PROVE  DeletesLinks'
<1>0. CallsOK
  BY DEF DialogTypes, DialogInv
<1>1. CASE Release(k)
  <2>1. call'[k].pc = "idle" /\ \A j \in Calls \ {k} : call'[j] = call[j]
    BY <1>0, <1>1, ReleaseSlot
  <2> QED BY <2>1 DEF DeletesLinks, DialogTypes
<1>2. CASE call' = Refresh(call, k) \/ call' = Refresh(Unmounted(call), k)
  <2>1. Asking(k)
    BY <1>0, <1>2, RefreshSlot, UnmountedRefreshSlot
  <2> QED BY <2>1 DEF Asking, DeletesLinks, DialogTypes
<1> QED BY <1>1, <1>2

\* The page: what the user asks for.
LEMMA AskTypes ==
    ASSUME DialogTypes, NEW k \in Calls,
           \/ OpenDialog(k) \/ Save(k)
           \/ \E forever \in BOOLEAN : Create(k, forever)
           \/ \E l \in Link : Delete(k, l) \/ UndoDelete(k, l)
    PROVE  DeletesLinks' /\ FlagsOK' /\ ErrorsOK' /\ OutsideOK'
<1> USE DEF DialogTypes
<1>0. FlagsOK /\ ErrorsOK /\ OutsideOK /\ editing \in Link \cup {Absent}
  BY DEF DialogInv, CallsOK
<1>1. ASSUME OpenDialog(k) PROVE DeletesLinks' /\ FlagsOK' /\ ErrorsOK' /\ OutsideOK'
  <2>1. /\ open' = TRUE /\ listing' = TRUE /\ linkError' = FALSE /\ createForm' = FALSE
        /\ creating' = (kept /\ creating) /\ saving' = (kept /\ saving)
        /\ Request(k, "load", Absent, FALSE) /\ UNCHANGED <<server, regime, outside>>
    BY <1>1 DEF OpenDialog
  <2>2. DeletesLinks'
    BY <2>1, SentTypes, AbsentTyped DEF CallKinds
  <2> QED BY <1>0, <2>1, <2>2 DEF FlagsOK, ErrorsOK, OutsideOK, server, regime, outside
<1>2. ASSUME Save(k) PROVE DeletesLinks' /\ FlagsOK' /\ ErrorsOK' /\ OutsideOK'
  <2> DEFINE l == [editing EXCEPT !.forever = FALSE]
  <2>1. /\ saving' = TRUE /\ Request(k, "edit", l, FALSE)
        /\ UNCHANGED <<server, regime, list, creator, outside>>
    BY <1>2 DEF Save
  <2>2. l \in [id : 0..MaxMade, forever : BOOLEAN]
    BY <1>0, LinkTyped, AbsentTyped
  <2> HIDE DEF l
  <2>3. DeletesLinks'
    BY <2>1, <2>2, SentTypes DEF CallKinds
  <2> QED BY <1>0, <2>1, <2>3 DEF FlagsOK, ErrorsOK, OutsideOK, server, regime, list, creator, outside
<1>3. ASSUME NEW forever \in BOOLEAN, Create(k, forever)
      PROVE  DeletesLinks' /\ FlagsOK' /\ ErrorsOK' /\ OutsideOK'
  <2> DEFINE l == [id |-> 0, forever |-> forever]
             was == listed = {}
  <2>1. /\ creating' = TRUE /\ linkError' = FALSE /\ Request(k, "create", l, was)
        /\ UNCHANGED <<server, regime, open, listing, createForm, editor, outside>>
    BY <1>3 DEF Create
  <2>2. l \in [id : 0..MaxMade, forever : BOOLEAN] /\ was \in BOOLEAN
    BY ShareDialogAssumption
  <2> HIDE DEF l, was
  <2>3. DeletesLinks'
    BY <2>1, <2>2, SentTypes DEF CallKinds
  <2> QED BY <1>0, <2>1, <2>3 DEF FlagsOK, ErrorsOK, OutsideOK, server, regime, editor, outside
<1>4. ASSUME NEW l \in Link, Delete(k, l)
      PROVE  DeletesLinks' /\ FlagsOK' /\ ErrorsOK' /\ OutsideOK'
  <2> DEFINE was == Cardinality(listed) = 1
  <2>1. Request(k, "delete", l, was) /\ UNCHANGED <<server, regime, list, creator, editor, outside>>
    BY <1>4 DEF Delete
  <2>2. was \in BOOLEAN
    OBVIOUS
  <2> HIDE DEF was
  <2>3. DeletesLinks'
    BY <2>1, <2>2, SentTypes, LinkTyped DEF CallKinds
  <2> QED
    BY <1>0, <2>1, <2>3 DEF FlagsOK, ErrorsOK, OutsideOK, server, regime, list, creator, editor, outside
<1>5. ASSUME NEW l \in Link, UndoDelete(k, l)
      PROVE  DeletesLinks' /\ FlagsOK' /\ ErrorsOK' /\ OutsideOK'
  <2>1. /\ undoable' = undoable \ {l} /\ Request(k, "undo", l, FALSE)
        /\ UNCHANGED <<server, regime, list, creator, editor, badge, count>>
    BY <1>5 DEF UndoDelete
  <2>2. DeletesLinks'
    BY <2>1, SentTypes, LinkTyped DEF CallKinds
  <2> QED BY <1>0, <2>1, <2>2 DEF FlagsOK, ErrorsOK, OutsideOK, server, regime, list, creator, editor
<1> QED BY <1>1, <1>2, <1>3, <1>4, <1>5

LEMMA LookTypes ==
    ASSUME DialogTypes,
           \/ CloseDialog \/ ShowCreateForm \/ CancelEdit
           \/ \E l \in Link : EditLink(l) \/ Expire(l)
    PROVE  DeletesLinks' /\ FlagsOK' /\ ErrorsOK' /\ OutsideOK'
<1> USE DEF DialogTypes, FlagsOK, ErrorsOK, OutsideOK, server, regime
<1>1. CASE CloseDialog
  <2>1. /\ open' = FALSE /\ call' = Unmounted(call)
        /\ UNCHANGED <<server, regime, listed, listing, linkError, creator, editor, outside>>
    BY <1>1 DEF CloseDialog
  <2>2. DeletesLinks'
    BY <2>1, UnmountedTyped DEF DialogInv, DeletesLinks
  <2> QED BY <2>1, <2>2 DEF creator, editor, outside
<1>2. CASE ShowCreateForm
  BY <1>2 DEF ShowCreateForm, DeletesLinks, list, editor, outside
<1>3. CASE CancelEdit
  BY <1>3 DEF CancelEdit, DeletesLinks, list, creator, outside
<1>4. ASSUME NEW l \in Link, EditLink(l) PROVE DeletesLinks' /\ FlagsOK' /\ ErrorsOK' /\ OutsideOK'
  BY <1>4 DEF EditLink, DeletesLinks, list, creator, outside
<1>5. ASSUME NEW l \in Link, Expire(l) PROVE DeletesLinks' /\ FlagsOK' /\ ErrorsOK' /\ OutsideOK'
  BY <1>5 DEF Expire, DeletesLinks, list, creator, editor
<1> QED BY <1>1, <1>2, <1>3, <1>4, <1>5

\* The server's answer keeps what was asked for.
LEMMA ServerTypes ==
    ASSUME DialogTypes, NEW k \in Calls, Serve(k) \/ Refuse(k)
    PROVE  DeletesLinks' /\ FlagsOK' /\ ErrorsOK' /\ OutsideOK'
<1>0. call \in [Calls -> DialogCall]
  BY DEF DialogTypes, DialogInv, CallsOK
<1>1. /\ call[k].pc = "sent" /\ UNCHANGED <<regime, list, creator, editor, outside>>
      /\ \/ \E got : call' = [call EXCEPT ![k].pc = "served", ![k].got = got]
         \/ call' = [call EXCEPT ![k].pc = "failed"]
  BY DEF Serve, Refuse
<1>2. \A j \in Calls : /\ call'[j].kind = call[j].kind /\ call'[j].link = call[j].link
                       /\ call[j].pc = "idle" => call'[j].pc = "idle"
  BY <1>0, <1>1 DEF DialogCall
<1>3. DeletesLinks'
  BY <1>2 DEF DialogTypes, DeletesLinks
<1>4. made' <= MaxMade
  <2>1. ASSUME Serve(k) PROVE made' = made \/ (made < MaxMade /\ made' = made + 1)
    BY <2>1 DEF Serve, server
  <2>2. Refuse(k) => made' = made
    BY DEF Refuse, server
  <2>3. made \in Nat /\ made <= MaxMade
    BY DEF DialogTypes, DialogInv, LinksOK, OutsideOK
  <2> QED BY <2>1, <2>2, <2>3, ShareDialogAssumption
<1>5. OutsideOK'
  BY <1>1, <1>4 DEF DialogTypes, OutsideOK, outside
<1> QED
  BY <1>1, <1>3, <1>5 DEF DialogTypes, FlagsOK, ErrorsOK, regime, list, creator, editor, outside

LEMMA AnsweredTypes ==
    ASSUME DialogTypes, NEW k \in Calls,
           Loaded(k) \/ Created(k) \/ Deleted(k) \/ Saved(k) \/ Undone(k) \/ Refreshed(k) \/ CallFails(k)
    PROVE  DeletesLinks' /\ FlagsOK' /\ ErrorsOK' /\ OutsideOK'
<1> USE DEF DialogTypes
<1>0. /\ call \in [Calls -> DialogCall] /\ call[k] \in DialogCall
      /\ FlagsOK /\ ErrorsOK /\ OutsideOK
  BY DEF DialogInv, CallsOK
<1>1. ASSUME Loaded(k) PROVE DeletesLinks' /\ FlagsOK' /\ ErrorsOK' /\ OutsideOK'
  <2>1. /\ listing' \in {listing, FALSE} /\ Release(k)
        /\ UNCHANGED <<server, regime, open, linkError, creator, editor, outside>>
    BY <1>1 DEF Loaded
  <2>2. DeletesLinks'
    BY <2>1, UserTypes
  <2> QED BY <1>0, <2>1, <2>2 DEF FlagsOK, ErrorsOK, OutsideOK, server, regime, creator, editor, outside
<1>2. ASSUME Created(k) PROVE DeletesLinks' /\ FlagsOK' /\ ErrorsOK' /\ OutsideOK'
  <2>1. /\ count' = count + 1 /\ badge' = (badge \/ call[k].was)
        /\ creating' = (creating /\ ~call[k].mine)
        /\ open' \in {open, FALSE}
        /\ \/ linkError' = linkError
           \/ linkError' = (linkError \/ call[k].mine)
        /\ call' = Refresh(Unmounted(call), k) \/ call' = Refresh(call, k)
        /\ UNCHANGED <<server, regime, listing, createForm, editor, undoable>>
    BY <1>2 DEF Created
  <2>2. DeletesLinks'
    BY <2>1, UserTypes
  <2>3. badge' \in BOOLEAN /\ creating' \in BOOLEAN
    BY <2>1
  <2>4. linkError' \in BOOLEAN
    BY <1>0, <2>1 DEF ErrorsOK
  <2>5. OutsideOK'
    BY <1>0, <2>1 DEF OutsideOK, server
  <2> QED BY <1>0, <2>1, <2>2, <2>3, <2>4, <2>5 DEF FlagsOK, ErrorsOK, regime, editor
<1>3. ASSUME Deleted(k) PROVE DeletesLinks' /\ FlagsOK' /\ ErrorsOK' /\ OutsideOK'
  <2>1. /\ count' = (IF count = 0 THEN 0 ELSE count - 1) /\ badge' = (badge /\ ~call[k].was)
        /\ undoable' = undoable \cup {call[k].link} /\ call' = Refresh(call, k)
        /\ call[k].pc = "served" /\ call[k].kind = "delete"
        /\ UNCHANGED <<server, regime, open, listing, linkError, creator, editor>>
    BY <1>3 DEF Deleted
  <2>2. DeletesLinks'
    BY <2>1, UserTypes
  <2>3. badge' \in BOOLEAN
    BY <2>1
  <2>4. call[k].link \in Link
    BY <2>1 DEF DeletesLinks
  <2>5. OutsideOK'
    BY <1>0, <2>1, <2>4 DEF OutsideOK, server
  <2> QED BY <1>0, <2>1, <2>2, <2>3, <2>5 DEF FlagsOK, ErrorsOK, regime, creator, editor
<1>4. ASSUME Saved(k) PROVE DeletesLinks' /\ FlagsOK' /\ ErrorsOK' /\ OutsideOK'
  <2>1. /\ saving' \in {saving, FALSE} /\ Release(k)
        /\ UNCHANGED <<server, regime, open, listing, linkError, creator, outside>>
    BY <1>4 DEF Saved
  <2>2. DeletesLinks'
    BY <2>1, UserTypes
  <2> QED BY <1>0, <2>1, <2>2 DEF FlagsOK, ErrorsOK, OutsideOK, server, regime, creator, outside
<1>5. ASSUME Undone(k) PROVE DeletesLinks' /\ FlagsOK' /\ ErrorsOK' /\ OutsideOK'
  <2>1. /\ badge' = TRUE /\ listing' \in {listing, TRUE} /\ linkError' \in {linkError, FALSE}
        /\ createForm' \in {createForm, FALSE}
        /\ UNCHANGED <<server, regime, open, listed, creating, editor, count, undoable>>
    BY <1>5 DEF Undone
  <2>2. \/ \E j \in Calls \ {k} :
               call' = [Refresh(call, k) EXCEPT ![j] = [NoCall EXCEPT !.pc = "sent", !.mine = TRUE]]
        \/ call' = Refresh(call, k)
    BY <1>5 DEF Undone
  <2>3. CASE call' = Refresh(call, k)
    BY <1>0, <2>1, <2>3, UserTypes DEF FlagsOK, ErrorsOK, OutsideOK, server, regime, editor
  <2>4. ASSUME NEW j \in Calls \ {k},
               call' = [Refresh(call, k) EXCEPT ![j] = [NoCall EXCEPT !.pc = "sent", !.mine = TRUE]]
        PROVE  DeletesLinks'
    <3>1. Reloading(k, j)
      BY <2>4, ReloadingSlot DEF DialogInv
    <3> QED BY <3>1 DEF Reloading, DeletesLinks
  <2> QED
    BY <1>0, <2>1, <2>2, <2>3, <2>4 DEF FlagsOK, ErrorsOK, OutsideOK, server, regime, editor
<1>6. ASSUME Refreshed(k) PROVE DeletesLinks' /\ FlagsOK' /\ ErrorsOK' /\ OutsideOK'
  <2>1. /\ count' = Cardinality(call[k].got) /\ Release(k)
        /\ UNCHANGED <<server, regime, list, creator, editor, badge, undoable>>
    BY <1>6 DEF Refreshed
  <2>2. DeletesLinks'
    BY <2>1, UserTypes
  <2>3. count' \in Nat
    BY <1>0, <2>1, CountOfGot DEF DialogCall
  <2> QED
    BY <1>0, <2>1, <2>2, <2>3 DEF FlagsOK, ErrorsOK, OutsideOK, server, regime, list, creator, editor
<1>7. ASSUME CallFails(k) PROVE DeletesLinks' /\ FlagsOK' /\ ErrorsOK' /\ OutsideOK'
  <2>1. /\ linkError' = (linkError \/ (call[k].mine /\ call[k].kind \in {"load", "create", "delete"}))
        /\ listing'  = (listing  /\ ~(call[k].mine /\ call[k].kind = "load"))
        /\ creating' = (creating /\ ~(call[k].mine /\ call[k].kind = "create"))
        /\ saving'   = (saving   /\ ~(call[k].mine /\ call[k].kind = "edit"))
        /\ Release(k) /\ UNCHANGED <<server, regime, open, listed, createForm, editing, outside>>
    BY <1>7 DEF CallFails
  <2>2. DeletesLinks'
    BY <2>1, UserTypes
  <2>3. linkError' \in BOOLEAN /\ listing' \in BOOLEAN
    BY <2>1
  <2>4. creating' \in BOOLEAN /\ saving' \in BOOLEAN
    BY <2>1
  <2> QED
    BY <1>0, <2>1, <2>2, <2>3, <2>4 DEF FlagsOK, ErrorsOK, OutsideOK, server, regime, outside
<1> QED BY <1>1, <1>2, <1>3, <1>4, <1>5, <1>6, <1>7

LEMMA DialogTypesStep == DialogTypes /\ [ShareNext]_shareVars => DialogTypes'
<1> SUFFICES ASSUME DialogTypes, [ShareNext]_shareVars
             PROVE  DeletesLinks' /\ FlagsOK' /\ ErrorsOK' /\ OutsideOK'
  BY ShareStepKeeps DEF DialogTypes
<1>1. CASE UNCHANGED shareVars
  BY <1>1 DEF shareVars, DialogTypes, DeletesLinks, FlagsOK, ErrorsOK, OutsideOK
<1>2. ASSUME NEW k \in Calls,
             \/ CallStep(k) \/ OpenDialog(k) \/ Save(k)
             \/ \E forever \in BOOLEAN : Create(k, forever)
             \/ \E l \in Link : Delete(k, l) \/ UndoDelete(k, l)
      PROVE  DeletesLinks' /\ FlagsOK' /\ ErrorsOK' /\ OutsideOK'
  BY <1>2, AskTypes, ServerTypes, AnsweredTypes DEF CallStep
<1>3. CASE \/ CloseDialog \/ ShowCreateForm \/ CancelEdit
           \/ \E l \in Link : EditLink(l) \/ Expire(l)
  BY <1>3, LookTypes
<1> QED BY <1>1, <1>2, <1>3 DEF ShareNext

-----------------------------------------------------------------------------
\* Whatever is clicked, answered or refused on the four pages, their state keeps the types
\* that the hooks of the pages declare (DirectoryPage.tsx, SharePage.tsx and
\* SharedDirectoryPage.tsx, FileViewPage.tsx, ShareLinkModal.tsx).
THEOREM PagesTypeCorrect == Spec /\ ViewSpec /\ FileSpec /\ ShareSpec => []PagesTypeOK
<1>1. Spec => []TypeOK
  BY DirTypesInit, DirTypesStep, DirTypesGive, PTL DEF Spec
<1>2. ViewSpec => []ViewTypeOK
  BY ViewTypesInit, ViewTypesStep, ViewTypesGive, PTL DEF ViewSpec
<1>3. ShareSpec => []ShareTypeOK
  BY DialogTypesInit, DialogTypesStep, DialogTypesGive, PTL DEF ShareSpec
<1>4. TypeOK /\ ViewTypeOK /\ FileTypeOK /\ ShareTypeOK => PagesTypeOK
  BY DEF PagesTypeOK
<1> QED BY <1>1, <1>2, <1>3, <1>4, FileTypeCorrect, PTL
==============================================================================
