---------------------------- MODULE CatalogProofs ----------------------------
(***************************************************************************)
(* What TLAPS proves of Catalog for trees of any files, of any depth, and  *)
(* any number of files that vanish and calls that fail during the walk:    *)
(* every step is one that TreeWalk allows.  That the walk ends stays with  *)
(* TLC.                                                                    *)
(***************************************************************************)
EXTENDS Catalog, SequenceTheorems, FiniteSetTheorems, WellFoundedInduction, TLAPS

-----------------------------------------------------------------------------
(***************************************************************************)
(* Paths.                                                                  *)
(***************************************************************************)
\* A path without its last name and with it again.
LEMMA PathExtends ==
  ASSUME NEW p \in Seq(Names), NEW n \in Names
  PROVE  /\ Append(p, n) \in Seq(Names) /\ Append(p, n) # <<>>
         /\ Len(p) \in Nat /\ Len(Append(p, n)) = Len(p) + 1
         /\ Front(Append(p, n)) = p /\ Last(Append(p, n)) = n
         /\ SubSeq(Append(p, n), 1, Len(p)) = p
<1>1. /\ Append(p, n) \in Seq(Names) /\ Append(p, n) # <<>>
      /\ Len(p) \in Nat /\ Len(Append(p, n)) = Len(p) + 1
      /\ \A i \in 1 .. Len(p) : Append(p, n)[i] = p[i]
      /\ Append(p, n)[Len(p) + 1] = n
  BY AppendProperties, LenProperties
<1>2. SubSeq(Append(p, n), 1, Len(p)) = p
  <2> DEFINE q == Append(p, n)
             s == SubSeq(q, 1, Len(p))
  <2>1. \A i \in 1 .. Len(p) : q[i] \in Names
    BY <1>1, ElementOfSeq
  <2> HIDE DEF q
  <2>2. s \in Seq(Names) /\ Len(s) = Len(p) /\ \A i \in 1 .. Len(p) : s[i] = q[i]
    <3>1. 1 \in Int /\ Len(p) \in Int /\ (1 <= Len(p) => Len(p) - 1 + 1 = Len(p))
          /\ (~(1 <= Len(p)) => Len(p) = 0) /\ \A i \in 1 .. Len(p) : 1 + i - 1 = i
      BY <1>1
    <3>2. /\ s \in Seq(Names) /\ Len(s) = IF 1 <= Len(p) THEN Len(p) - 1 + 1 ELSE 0
          /\ \A i \in 1 .. Len(p) - 1 + 1 : s[i] = q[1 + i - 1]
      BY <2>1, <3>1, SubSeqProperties
    <3> QED BY <1>1, <3>1, <3>2
  <2> HIDE DEF s
  <2>3. s = p
    BY <1>1, <2>2, SeqEqual DEF q
  <2> QED BY <2>3 DEF s, q
<1>3. Front(Append(p, n)) = p
  BY <1>1, <1>2 DEF Front
<1>4. Last(Append(p, n)) = n
  BY <1>1 DEF Last
<1>5. QED BY <1>1, <1>2, <1>3, <1>4

\* A path that is not empty is its directory's with a last name.
LEMMA PathSplits ==
  ASSUME NEW p \in Seq(Names), p # <<>>
  PROVE  /\ Front(p) \in Seq(Names) /\ Last(p) \in Names
         /\ Append(Front(p), Last(p)) = p
         /\ Len(p) \in Nat /\ Len(Front(p)) \in Nat /\ Len(Front(p)) < Len(p)
<1>1. Len(p) \in Nat /\ Len(p) # 0
  BY EmptySeq, LenProperties
<1>2. \A i \in 1 .. Len(p) : p[i] \in Names
  BY ElementOfSeq
<1> DEFINE f == Front(p)
           k == Len(p) - 1
<1>3. k \in Int /\ k \in Nat /\ k + 1 = Len(p)
  BY <1>1
<1>4. f \in Seq(Names) /\ Len(f) = k /\ \A i \in 1 .. k : f[i] = p[i]
  <2> HIDE DEF k
  <2>1. 1 \in Int /\ (1 <= k \/ k = 0) /\ k - 1 + 1 = k
    BY <1>3
  <2>2. \A i \in 1 .. k : p[i] \in Names /\ 1 + i - 1 = i
    BY <1>2, <1>3
  <2>3. SubSeq(p, 1, k) \in Seq(Names)
    BY <1>3, <2>1, <2>2, SubSeqProperties
  <2>4. Len(SubSeq(p, 1, k)) = IF 1 <= k THEN k - 1 + 1 ELSE 0
    BY <1>3, <2>1, <2>2, SubSeqProperties
  <2>5. \A i \in 1 .. k - 1 + 1 : SubSeq(p, 1, k)[i] = p[1 + i - 1]
    BY <1>3, <2>1, <2>2, SubSeqProperties
  <2>6. f = SubSeq(p, 1, k)
    BY DEF Front, k
  <2> QED BY <1>3, <2>1, <2>2, <2>3, <2>4, <2>5, <2>6
<1>5. Last(p) \in Names
  BY <1>1, <1>2 DEF Last
<1> HIDE DEF f
<1> DEFINE q == Append(f, Last(p))
<1>6. /\ q \in Seq(Names) /\ Len(q) = Len(f) + 1
      /\ \A i \in 1 .. Len(f) : q[i] = f[i]
      /\ q[Len(f) + 1] = Last(p)
  BY <1>4, <1>5, AppendProperties
<1> HIDE DEF q
<1>7. q = p
  <2>1. Len(q) = Len(p) /\ Len(f) + 1 = Len(p)
    BY <1>1, <1>4, <1>6
  <2>2. \A i \in 1 .. Len(p) : i \in 1 .. Len(f) \/ i = Len(f) + 1
    BY <1>1, <1>4
  <2>3. \A i \in 1 .. Len(p) : q[i] = p[i]
    BY <1>1, <1>4, <1>6, <2>1, <2>2 DEF Last
  <2> QED BY <1>6, <2>1, <2>3, SeqEqual
<1>8. QED BY <1>1, <1>4, <1>5, <1>7 DEF f, q

\* Two paths with the same last step are one.
LEMMA PathsDiffer ==
  ASSUME NEW p \in Seq(Names), NEW n \in Names, NEW q \in Seq(Names), NEW m \in Names,
         Append(p, n) = Append(q, m)
  PROVE  p = q /\ n = m
<1>1. Front(Append(p, n)) = p /\ Last(Append(p, n)) = n
  BY PathExtends
<1>2. Front(Append(q, m)) = q /\ Last(Append(q, m)) = m
  BY PathExtends
<1>3. QED BY <1>1, <1>2

\* The paths of bounded length are sequences of names.
LEMMA PathsAreSequences == Paths \subseteq Seq(Names) /\ <<>> \in Seq(Names)
<1>1. ASSUME NEW d \in 0 .. MaxDepth, NEW p \in [1 .. d -> Names] PROVE p \in Seq(Names)
  <2>1. d \in Nat
    BY TreesAssumption
  <2> QED BY <2>1, SeqDef
<1>2. <<>> \in Seq(Names)
  OBVIOUS
<1>3. QED BY <1>1, <1>2 DEF Paths

\* An empty list has nothing in it.
LEMMA EmptySetOfList == ToSet(<<>>) = {}
<1>1. DOMAIN <<>> = {}
  OBVIOUS
<1>2. QED BY <1>1 DEF ToSet

\* What is added to a sequence is added to its set.
LEMMA SetOfAppend ==
  ASSUME NEW S, NEW s \in Seq(S), NEW e \in S
  PROVE  ToSet(Append(s, e)) = ToSet(s) \cup {e}
<1>1. /\ Len(s) \in Nat /\ DOMAIN s = 1 .. Len(s)
      /\ DOMAIN Append(s, e) = 1 .. Len(s) + 1
      /\ \A i \in 1 .. Len(s) : Append(s, e)[i] = s[i]
      /\ Append(s, e)[Len(s) + 1] = e
  BY AppendProperties, LenProperties
<1>2. \A i \in 1 .. Len(s) + 1 : i \in 1 .. Len(s) \/ i = Len(s) + 1
  BY <1>1
<1>3. Len(s) + 1 \in 1 .. Len(s) + 1 /\ 1 .. Len(s) \subseteq 1 .. Len(s) + 1
  BY <1>1
<1>4. ToSet(s) = {s[i] : i \in 1 .. Len(s)}
      /\ ToSet(Append(s, e)) = {Append(s, e)[i] : i \in 1 .. Len(s) + 1}
  BY <1>1 DEF ToSet
<1>5. QED BY <1>1, <1>2, <1>3, <1>4

-----------------------------------------------------------------------------
(***************************************************************************)
(* The invariant.  A path that is known is the beginning of the walk or    *)
(* was listed.  Each known directory waits on the stack, or is the one     *)
(* lstat() was just called for, or is read so far that only the names in   *)
(* entries are not listed yet.                                             *)
(***************************************************************************)
Walking == at \in {"pop", "readdir", "lstat"}
Reading == at \in {"readdir", "lstat"}

Listed(p) == [path |-> p, depth |-> Len(p)] \in ToSet(printed)
Known(p) == p = <<>> \/ Listed(p)
Unread(p) == \A n \in Names : ~Listed(Append(p, n))
Waits(p) == \E i \in 1 .. Len(stack) : stack[i].path = p
Dir == SubSeq(currPath.path, 1, currLen)

TreeInv ==
  /\ DOMAIN tree \subseteq Paths /\ tree \in [DOMAIN tree -> Kinds]
  /\ removed \in Nat /\ troubled \in BOOLEAN
  /\ \A p \in DOMAIN tree \ {<<>>} : Exists(Front(p)) /\ IsDir(Front(p))

ListInv ==
  /\ printed \in Seq([path : Seq(Names), depth : Nat])
  /\ \A e \in ToSet(printed) :
       e.path # <<>> /\ e.depth = Len(e.path) /\ Known(Front(e.path))

StackInv ==
  /\ stack \in Seq([path : Seq(Names), depth : Nat])
  /\ \A i \in 1 .. Len(stack) :
       /\ stack[i].depth = Len(stack[i].path) + 1
       /\ Known(stack[i].path) /\ Unread(stack[i].path)
       /\ removed > 0 \/ (Exists(stack[i].path) /\ IsDir(stack[i].path))
       /\ \A j \in 1 .. Len(stack) : stack[i].path = stack[j].path => i = j

ReadInv ==
  /\ currPath \in [path : Seq(Names), depth : Nat]
  /\ currLen \in 0 .. Len(currPath.path) /\ currPath.depth = currLen + 1
  /\ Known(Dir) /\ ~Waits(Dir)
  /\ entries \subseteq Names \cup {".", ".."}
  /\ \A n \in entries \cap Names :
       /\ Append(Dir, n) \in Paths /\ ~Listed(Append(Dir, n))
       /\ removed > 0 \/ Exists(Append(Dir, n))

StatInv ==
  /\ Listed(currPath.path) /\ Len(currPath.path) = currLen + 1
  /\ ~Waits(currPath.path) /\ Unread(currPath.path)
  /\ removed > 0 \/ Exists(currPath.path)

Covered(p) ==
  \/ Waits(p)
  \/ at = "lstat" /\ p = currPath.path
  \/ /\ tree[p] # "locked"
     /\ \A n \in Names : Exists(Append(p, n)) =>
          Listed(Append(p, n)) \/ (Reading /\ p = Dir /\ n \in entries)

AllCovered == \A p \in DOMAIN tree : IsDir(p) /\ Known(p) => Covered(p)

\* What was listed before has been found by lstat().
Found(p) == Len(p) <= PathMax /\ tree[Front(p)] # "unsearchable"
AllFound ==
  \A p \in DOMAIN tree \ {<<>>} : Listed(p) => Found(p) \/ (at = "lstat" /\ p = currPath.path)

WalkInv ==
  /\ at \in {"idle", "lstat root", "pop", "readdir", "lstat", "done", "failed"}
  /\ TreeInv
  /\ at \in {"idle", "lstat root"} => stack = <<>> /\ printed = <<>>
  /\ Walking =>
       /\ ListInv /\ StackInv
       /\ troubled \/ AllCovered
       /\ AllFound
       /\ removed > 0 \/ (Exists(<<>>) /\ IsDir(<<>>))
  /\ Reading => ReadInv
  /\ at = "lstat" => StatInv

\* What is behind a path that was not listed cannot have been listed.
LEMMA UnlistedIsUnread ==
  ASSUME ListInv, NEW p \in Seq(Names), ~Known(p)
  PROVE  Unread(p)
<1>1. ASSUME NEW n \in Names, Listed(Append(p, n)) PROVE FALSE
  <2>1. Front(Append(p, n)) = p
    BY PathExtends
  <2>2. Known(Front([path |-> Append(p, n), depth |-> Len(Append(p, n))].path))
    BY <1>1 DEF ListInv, Listed
  <2> QED BY <2>1, <2>2
<1>2. QED BY <1>1 DEF Unread

\* Nobody's lists change.
LEMMA SameList ==
  ASSUME printed' = printed
  PROVE  /\ \A p : Listed(p)' <=> Listed(p)
         /\ \A p : Known(p)' <=> Known(p)
         /\ \A p : Unread(p)' <=> Unread(p)
         /\ ListInv' <=> ListInv
BY DEF Listed, Known, Unread, ListInv

\* The directory that is read is a path; its entries are one longer.
LEMMA DirIsAPath ==
  ASSUME ReadInv
  PROVE  Dir \in Seq(Names) /\ currLen \in Nat /\ Len(Dir) = currLen
<1>1. currPath.path \in Seq(Names) /\ currLen \in 0 .. Len(currPath.path)
      /\ Len(currPath.path) \in Nat
  BY LenProperties DEF ReadInv
<1>2. \A i \in 1 .. currLen : currPath.path[i] \in Names
  <2>1. \A i \in 1 .. currLen : i \in 1 .. Len(currPath.path)
    BY <1>1
  <2> QED BY <1>1, <2>1, ElementOfSeq
<1>3. /\ Dir \in Seq(Names)
      /\ Len(Dir) = IF 1 <= currLen THEN currLen - 1 + 1 ELSE 0
  BY <1>1, <1>2, SubSeqProperties DEF Dir
<1>4. QED BY <1>1, <1>3

-----------------------------------------------------------------------------
(***************************************************************************)
(* Every step is one of the promised walk or none.                         *)
(***************************************************************************)
Promised == Walk!WalkNext \/ UNCHANGED Walk!walk

\* The beginning and the end of the process.
LEMMA StartWalks ==
  ASSUME WalkInv, Start \/ Exit
  PROVE  WalkInv' /\ Promised
<1>1. CASE Start
  <2>1. /\ at = "idle" /\ at' = "lstat root" /\ tree' \in Trees
        /\ UNCHANGED <<removed, troubled, stack, currPath, currLen, entries, printed>>
    BY <1>1 DEF Start
  <2>2. TreeInv'
    BY <2>1, TreesAssumption DEF TreeInv, WalkInv, Exists, IsDir, Paths, Kinds, Directories
  <2>3. WalkInv'
    BY <2>1, <2>2 DEF WalkInv, Walking, Reading
  <2>4. Walk!Begin
    BY <2>1 DEF Walk!Begin, Finished
  <2> QED BY <2>3, <2>4 DEF Promised, Walk!WalkNext
<1>2. CASE Exit
  <2>1. /\ at \in {"done", "failed"} /\ at' = "idle" /\ tree' = <<>> /\ removed' = 0
        /\ troubled' = FALSE /\ stack' = <<>> /\ printed' = <<>>
    BY <1>2 DEF Exit
  <2>2. TreeInv'
    <3>1. DOMAIN tree' = {} /\ tree' \in [{} -> Kinds] /\ removed' \in Nat
      BY <2>1
    <3>2. troubled' \in BOOLEAN
      BY <2>1
    <3> QED BY <3>1, <3>2 DEF TreeInv, Kinds
  <2>3. WalkInv'
    BY <2>1, <2>2 DEF WalkInv, Walking, Reading
  <2>4. Walk!Leave
    BY <2>1 DEF Walk!Leave, Finished
  <2> QED BY <2>3, <2>4 DEF Promised, Walk!WalkNext
<1>3. QED BY <1>1, <1>2

\* err_sys() is called with a reason: the walk did not begin at a directory,
\* a directory cannot be read or searched, a path is too long, something has
\* vanished, or the system is in trouble.
LEMMA ErrorsHaveReasons ==
  ASSUME WalkInv, LstatRootFails \/ OpendirFails \/ LstatFails \/ ClosedirFails
  PROVE  WalkInv' /\ Promised
<1>1. /\ at \in {"lstat root", "pop", "readdir", "lstat"} /\ at' = "failed"
      /\ UNCHANGED <<tree, removed, troubled, stack, currPath, currLen, entries, printed>>
  BY DEF LstatRootFails, OpendirFails, LstatFails, ClosedirFails, ErrSys
<1>2. WalkInv'
  <2>1. TreeInv'
    BY <1>1 DEF WalkInv, TreeInv, Exists, IsDir
  <2> QED BY <1>1, <2>1 DEF WalkInv, Walking, Reading
<1>3. removed > 0 \/ troubled \/ ~Walk!BeginsAtDirectory \/ ~Walk!Readable
  <2>1. CASE LstatRootFails /\ ~troubled
    <3>1. Len(<<>>) <= PathMax
      BY TreesAssumption
    <3> QED BY <2>1, <3>1 DEF LstatRootFails, Attainable, Exists, IsDir, Directories,
                    Walk!BeginsAtDirectory
  <2>2. CASE OpendirFails /\ ~troubled
    <3> DEFINE top == Last(stack)
    <3>1. StackInv /\ stack # <<>> /\ ~Openable(top.path)
      BY <2>2 DEF OpendirFails, WalkInv, Walking
    <3>2. Len(stack) \in 1 .. Len(stack)
      BY <3>1, EmptySeq, LenProperties DEF StackInv
    <3>3. removed > 0 \/ (Exists(top.path) /\ IsDir(top.path))
      BY <3>1, <3>2 DEF StackInv, Last
    <3>4. removed > 0 \/ (top.path \in DOMAIN tree /\ tree[top.path] = "locked")
      BY <3>1, <3>3 DEF Exists, Openable
    <3> QED BY <3>4 DEF Walk!Readable
  <2>3. CASE LstatFails /\ ~troubled
    <3> DEFINE p == currPath.path
    <3>1. removed > 0 \/ p \in DOMAIN tree
      BY <2>3 DEF LstatFails, WalkInv, StatInv, Exists
    <3>2. p \in DOMAIN tree =>
            ~(Len(p) <= PathMax /\ (p = <<>> \/ tree[Front(p)] # "unsearchable"))
      BY <2>3 DEF LstatFails, Attainable, Exists
    <3>3. Walk!Front(p) = Front(p)
      BY DEF Walk!Front, Front
    <3> HIDE DEF p
    <3> QED BY <3>1, <3>2, <3>3 DEF Walk!Readable
  <2>4. CASE ClosedirFails
    BY <2>4 DEF ClosedirFails
  <2> QED BY <2>1, <2>2, <2>3, <2>4
<1>4. Walk!Complain
  BY <1>1, <1>3 DEF Walk!Complain, Finished
<1>5. QED BY <1>2, <1>4 DEF Promised, Walk!WalkNext, Walk!WalkStep

\* A step that lists nothing and changes no file.
LEMMA ListsNothing ==
  ASSUME UNCHANGED <<tree, removed, troubled, printed>>, at \notin Finished, at' \notin Finished
  PROVE  Promised
BY DEF Promised, Walk!walk

\* The directory the walk begins at goes on the stack; nothing is listed yet.
LEMMA LstatRootWalks ==
  ASSUME WalkInv, LstatRoot
  PROVE  WalkInv' /\ Promised
<1>1. /\ at = "lstat root" /\ at' = "pop" /\ stack = <<>> /\ printed = <<>>
      /\ Exists(<<>>) /\ IsDir(<<>>) /\ TreeInv
      /\ stack' = Append(stack, Elem(<<>>, 1))
      /\ UNCHANGED <<tree, removed, troubled, currPath, currLen, entries, printed>>
  BY DEF LstatRoot, Push, WalkInv, Attainable
<1>2. \A p : ~Listed(p)'
  <2>1. ToSet(<<>>) = {}
    BY EmptySetOfList
  <2>2. ToSet(printed') = {}
    BY <1>1, <2>1
  <2> QED BY <2>2 DEF Listed
<1>3. TreeInv' /\ Exists(<<>>)' /\ IsDir(<<>>)'
  BY <1>1 DEF TreeInv, Exists, IsDir
<1>4. ListInv'
  <2>1. <<>> \in Seq([path : Seq(Names), depth : Nat])
    OBVIOUS
  <2>2. printed' \in Seq([path : Seq(Names), depth : Nat]) /\ ToSet(printed') = {}
    BY <1>1, <2>1, EmptySetOfList
  <2> QED BY <2>2 DEF ListInv
<1> DEFINE e == Elem(<<>>, 1)
<1>5. e \in [path : Seq(Names), depth : Nat] /\ e.path = <<>> /\ e.depth = Len(e.path) + 1
  BY PathsAreSequences DEF Elem
<1> HIDE DEF e
<1>6. /\ stack' \in Seq([path : Seq(Names), depth : Nat])
      /\ Len(stack') = 1 /\ stack'[1] = e
  <2> DEFINE E == [path : Seq(Names), depth : Nat]
  <2>1. <<>> \in Seq(E) /\ Len(<<>>) = 0 /\ e \in E
    BY <1>5
  <2>2. stack' = Append(<<>>, e)
    BY <1>1 DEF e
  <2> HIDE DEF E
  <2>3. stack' \in Seq(E) /\ Len(stack') = 0 + 1 /\ stack'[0 + 1] = e
    BY <2>1, <2>2, AppendProperties
  <2> QED BY <2>3 DEF E
<1>7. StackInv'
  <2>1. \A i \in 1 .. Len(stack') : i = 1
    BY <1>6
  <2>2. Known(e.path)' /\ Unread(e.path)'
    BY <1>2, <1>5 DEF Known, Unread
  <2> QED BY <1>3, <1>5, <1>6, <2>1, <2>2 DEF StackInv
<1>8. \A p \in DOMAIN tree' : Known(p)' => Covered(p)'
  <2>1. ASSUME NEW p, Known(p)' PROVE Waits(p)'
    <3>1. p = <<>>
      BY <1>2, <2>1 DEF Known
    <3>2. 1 \in 1 .. Len(stack')
      BY <1>6
    <3> QED BY <1>5, <1>6, <3>1, <3>2 DEF Waits
  <2> QED BY <2>1 DEF Covered
<1>9. WalkInv'
  <2>1. AllCovered'
    BY <1>8 DEF AllCovered
  <2>2. AllFound'
    BY <1>2 DEF AllFound
  <2> QED BY <1>1, <1>3, <1>4, <1>7, <2>1, <2>2 DEF WalkInv, Walking, Reading
<1>10. Promised
  BY <1>1, ListsNothing DEF Finished
<1>11. QED BY <1>9, <1>10

\* The newest directory leaves the stack and is read.
LEMMA OpendirWalks ==
  ASSUME WalkInv, Opendir
  PROVE  WalkInv' /\ Promised
<1> DEFINE Elems == [path : Seq(Names), depth : Nat]
           last == Len(stack)
<1>0. PICK top : top = Last(stack)
  OBVIOUS
<1>1. /\ at = "pop" /\ stack # <<>> /\ Exists(top.path) /\ tree[top.path] # "locked"
      /\ currPath' = top /\ currLen' = Len(top.path) /\ entries' = InDirectory(top.path)
      /\ stack' = Front(stack) /\ at' = "readdir"
      /\ UNCHANGED <<tree, removed, troubled, printed>>
  BY <1>0 DEF Opendir, Pop, Openable
<1>2. /\ ListInv /\ StackInv /\ TreeInv
      /\ troubled \/ AllCovered
      /\ AllFound
      /\ removed > 0 \/ (Exists(<<>>) /\ IsDir(<<>>))
  BY <1>1 DEF WalkInv, Walking
<1>3. stack \in Seq(Elems) /\ last \in Nat /\ last # 0 /\ last \in 1 .. last
  BY <1>1, <1>2, EmptySeq, LenProperties DEF StackInv
<1>4. top = stack[last] /\ top \in Elems
  BY <1>0, <1>3, ElementOfSeq DEF Last
<1>5. /\ stack' \in Seq(Elems) /\ Len(stack') = last - 1
      /\ \A i \in 1 .. Len(stack') : i \in 1 .. last /\ i # last /\ stack'[i] = stack[i]
  <2> DEFINE k == last - 1
  <2>1. k \in Nat /\ k \in Int /\ k + 1 = last
    BY <1>3
  <2> HIDE DEF k, last
  <2>2. 1 \in Int /\ (1 <= k \/ k = 0) /\ k - 1 + 1 = k
    BY <2>1
  <2>3. \A i \in 1 .. k : stack[i] \in Elems /\ 1 + i - 1 = i /\ i \in 1 .. last /\ i # last
    <3>1. \A i \in 1 .. k : 1 + i - 1 = i /\ i \in 1 .. last /\ i # last
      BY <1>3, <2>1
    <3> USE DEF last
    <3> HIDE DEF Elems
    <3> QED BY <1>3, <3>1, ElementOfSeq
  <2>4. stack' = SubSeq(stack, 1, k)
    BY <1>1 DEF Front, k, last
  <2> HIDE DEF Elems
  <2>5. stack' \in Seq(Elems)
    BY <2>1, <2>2, <2>3, <2>4, SubSeqProperties
  <2>6. Len(stack') = IF 1 <= k THEN k - 1 + 1 ELSE 0
    BY <2>1, <2>2, <2>3, <2>4, SubSeqProperties
  <2>7. \A i \in 1 .. k - 1 + 1 : stack'[i] = stack[1 + i - 1]
    BY <2>1, <2>2, <2>3, <2>4, SubSeqProperties
  <2>8. Len(stack') = k
    BY <2>1, <2>2, <2>6
  <2>9. \A i \in 1 .. k : stack'[i] = stack[i]
    BY <2>2, <2>3, <2>7
  <2> QED BY <2>3, <2>5, <2>8, <2>9, <2>1 DEF k
<1>6. /\ \A p : Listed(p)' <=> Listed(p)
      /\ \A p : Known(p)' <=> Known(p)
      /\ \A p : Unread(p)' <=> Unread(p)
      /\ ListInv'
  BY <1>1, <1>2, SameList
<1>7. \A p : (Exists(p)' <=> Exists(p)) /\ (IsDir(p)' <=> IsDir(p)) /\ (tree'[p] = tree[p])
  BY <1>1 DEF Exists, IsDir
<1>8. TreeInv' /\ (removed' > 0 \/ (Exists(<<>>)' /\ IsDir(<<>>)'))
  BY <1>1, <1>2, <1>7 DEF TreeInv
<1> HIDE DEF last
<1>9. StackInv'
  <2> SUFFICES ASSUME NEW i \in 1 .. Len(stack')
               PROVE  (/\ stack[i].depth = Len(stack[i].path) + 1
                       /\ Known(stack[i].path) /\ Unread(stack[i].path)
                       /\ removed > 0 \/ (Exists(stack[i].path) /\ IsDir(stack[i].path))
                       /\ \A j \in 1 .. Len(stack) : stack[i].path = stack[j].path => i = j)'
    BY <1>5 DEF StackInv
  <2>1. i \in 1 .. Len(stack) /\ stack'[i] = stack[i]
    BY <1>5 DEF last
  <2>2. /\ stack[i].depth = Len(stack[i].path) + 1
        /\ Known(stack[i].path) /\ Unread(stack[i].path)
        /\ removed > 0 \/ (Exists(stack[i].path) /\ IsDir(stack[i].path))
        /\ \A j \in 1 .. Len(stack) : stack[i].path = stack[j].path => i = j
    BY <1>2, <2>1 DEF StackInv
  <2>3. \A j \in 1 .. Len(stack') : stack'[i].path = stack'[j].path => i = j
    BY <1>5, <2>1, <2>2 DEF last
  <2> QED BY <1>1, <2>1, <2>2, <2>3 DEF Known, Unread, Listed, Exists, IsDir
<1>10. Dir' = top.path
  <2>1. top.path \in Seq(Names) /\ Dir' = SubSeq(top.path, 1, Len(top.path))
    BY <1>1, <1>4 DEF Dir
  <2> QED BY <2>1, SubSeqFull
<1>11. ~Waits(top.path)'
  <2>1. ASSUME NEW i \in 1 .. Len(stack'), stack'[i].path = top.path PROVE FALSE
    <3>1. i \in 1 .. last /\ i # last /\ stack[i].path = stack[last].path
      BY <1>4, <1>5, <2>1
    <3> QED BY <1>2, <1>3, <3>1 DEF StackInv, last
  <2> QED BY <2>1 DEF Waits
<1>12. /\ entries' \subseteq Names \cup {".", ".."}
       /\ \A n \in entries' \cap Names : Exists(Append(top.path, n))
       /\ \A n \in Names : Exists(Append(top.path, n)) => n \in entries'
  BY <1>1, TreesAssumption DEF InDirectory
<1>13. Known(top.path) /\ Unread(top.path) /\ top.depth = Len(top.path) + 1
  BY <1>2, <1>3, <1>4 DEF StackInv, last
<1>14. ReadInv'
  <2>1. /\ currPath' \in Elems /\ currPath'.path = top.path /\ currLen' = Len(currPath'.path)
        /\ currPath'.depth = currLen' + 1
    BY <1>1, <1>4, <1>13
  <2>2. currLen' \in 0 .. Len(currPath'.path)
    <3>1. Len(top.path) \in Nat
      BY <1>4, LenProperties
    <3> QED BY <2>1, <3>1
  <2>3. Known(Dir)' /\ ~Waits(Dir)'
    BY <1>1, <1>10, <1>11, <1>13 DEF Known, Listed, Waits
  <2>4. ASSUME NEW n \in entries' \cap Names
        PROVE  /\ Append(top.path, n) \in Paths /\ Exists(Append(top.path, n))
               /\ ~Listed(Append(top.path, n))
    BY <1>2, <1>12, <1>13, <2>4 DEF Unread, TreeInv, Exists
  <2>5. (\A n \in entries \cap Names :
           /\ Append(Dir, n) \in Paths /\ ~Listed(Append(Dir, n))
           /\ removed > 0 \/ Exists(Append(Dir, n)))'
    BY <1>1, <1>10, <2>4 DEF Listed, Exists, Paths
  <2> QED BY <1>12, <2>1, <2>2, <2>3, <2>5 DEF ReadInv
<1>15. ASSUME ~troubled PROVE AllCovered'
  <2> SUFFICES ASSUME NEW p \in DOMAIN tree, IsDir(p), Known(p)
               PROVE  Covered(p)'
    BY <1>1, <1>6, <1>7 DEF AllCovered
  <2>1. Covered(p)
    BY <1>2, <1>15 DEF AllCovered
  <2>2. CASE p = top.path
    BY <1>1, <1>7, <1>10, <1>12, <2>2 DEF Covered, Reading
  <2>3. CASE p # top.path
    <3>1. CASE Waits(p)
      <4>1. PICK i \in 1 .. last : stack[i].path = p
        BY <3>1 DEF Waits, last
      <4>2. i # last
        BY <1>4, <2>3, <4>1
      <4>3. i \in 1 .. Len(stack')
        BY <1>3, <1>5, <4>1, <4>2
      <4>4. Waits(p)'
        BY <1>5, <4>1, <4>3 DEF Waits
      <4> QED BY <4>4 DEF Covered
    <3>2. CASE ~Waits(p)
      <4>1. tree[p] # "locked" /\ \A n \in Names : Exists(Append(p, n)) => Listed(Append(p, n))
        BY <1>1, <2>1, <3>2 DEF Covered, Reading
      <4> QED BY <1>6, <1>7, <4>1 DEF Covered
    <3> QED BY <3>1, <3>2
  <2> QED BY <2>2, <2>3
<1>19. AllFound'
  BY <1>1, <1>2, <1>6, <1>7 DEF AllFound, Found
<1>16. WalkInv'
  BY <1>1, <1>6, <1>8, <1>9, <1>14, <1>15, <1>19 DEF WalkInv, Walking, Reading
<1>17. Promised
  BY <1>1, ListsNothing DEF Finished
<1>18. QED BY <1>16, <1>17

\* An entry that was listed is a directory: it goes on the stack.
LEMMA LstatWalks ==
  ASSUME WalkInv, Lstat
  PROVE  WalkInv' /\ Promised
<1> DEFINE Elems == [path : Seq(Names), depth : Nat]
           last == Len(stack)
<1>0. PICK p : p = currPath.path
  OBVIOUS
<1>1. /\ at = "lstat" /\ Attainable(p) /\ Exists(p) /\ at' = "readdir"
      /\ IF IsDir(p) THEN stack' = Append(stack, Elem(p, currPath.depth + 1))
                     ELSE stack' = stack
      /\ UNCHANGED <<tree, removed, troubled, currPath, currLen, entries, printed>>
  BY <1>0 DEF Lstat, Push, Attainable
<1>2. /\ ListInv /\ StackInv /\ TreeInv /\ ReadInv /\ StatInv
      /\ troubled \/ AllCovered
      /\ AllFound
      /\ removed > 0 \/ (Exists(<<>>) /\ IsDir(<<>>))
  BY <1>1 DEF WalkInv, Walking, Reading
<1>3. /\ \A q : Listed(q)' <=> Listed(q)
      /\ \A q : Known(q)' <=> Known(q)
      /\ \A q : Unread(q)' <=> Unread(q)
      /\ ListInv'
  BY <1>1, <1>2, SameList
<1>4. \A q : (Exists(q)' <=> Exists(q)) /\ (IsDir(q)' <=> IsDir(q)) /\ tree'[q] = tree[q]
  BY <1>1 DEF Exists, IsDir
<1>5. TreeInv' /\ (removed' > 0 \/ (Exists(<<>>)' /\ IsDir(<<>>)'))
  BY <1>1, <1>2, <1>4 DEF TreeInv
<1>6. /\ p \in Seq(Names) /\ Listed(p) /\ Len(p) = currLen + 1 /\ currPath.depth = currLen + 1
      /\ currLen \in Nat /\ ~Waits(p) /\ Unread(p)
      /\ Dir \in Seq(Names) /\ Len(Dir) = currLen
  BY <1>0, <1>2, DirIsAPath DEF ReadInv, StatInv
<1>7. p # Dir
  BY <1>6
<1>8. stack \in Seq(Elems) /\ last \in Nat
  BY <1>2, LenProperties DEF StackInv
<1>9. /\ StackInv'
      /\ \A q : Waits(q)' <=> Waits(q) \/ (IsDir(p) /\ q = p)
  <2>1. CASE ~IsDir(p)
    <3>1. stack' = stack
      BY <1>1, <2>1
    <3> QED BY <1>1, <1>2, <2>1, <3>1 DEF StackInv, Waits, Known, Unread, Listed, Exists, IsDir
  <2>2. CASE IsDir(p)
    <3> DEFINE e == Elem(p, currPath.depth + 1)
    <3>1. e \in Elems /\ e.path = p /\ e.depth = Len(p) + 1
      BY <1>6 DEF Elem
    <3>2. stack' = Append(stack, e)
      BY <1>1, <2>2
    <3> HIDE DEF e
    <3>3. /\ stack' \in Seq(Elems) /\ Len(stack') = last + 1
          /\ \A i \in 1 .. last : stack'[i] = stack[i]
          /\ stack'[last + 1] = e
      BY <1>8, <3>1, <3>2, AppendProperties
    <3> HIDE DEF last
    <3>4. \A i \in 1 .. Len(stack') : i \in 1 .. last \/ i = last + 1
      BY <1>8, <3>3
    <3>5. 1 .. last \subseteq 1 .. Len(stack') /\ last + 1 \in 1 .. Len(stack')
      BY <1>8, <3>3
    <3>6. \A q : Waits(q)' <=> Waits(q) \/ q = p
      <4>1. \A q : Waits(q)' <=> \E i \in 1 .. Len(stack') : stack'[i].path = q
        BY DEF Waits
      <4>2. \A q : Waits(q) <=> \E i \in 1 .. last : stack[i].path = q
        BY DEF Waits, last
      <4> QED BY <3>1, <3>3, <3>4, <3>5, <4>1, <4>2
    <3>7. StackInv'
      <4> SUFFICES ASSUME NEW i \in 1 .. Len(stack')
                   PROVE  (/\ stack[i].depth = Len(stack[i].path) + 1
                           /\ Known(stack[i].path) /\ Unread(stack[i].path)
                           /\ removed > 0 \/ (Exists(stack[i].path) /\ IsDir(stack[i].path))
                           /\ \A j \in 1 .. Len(stack) : stack[i].path = stack[j].path => i = j)'
        BY <3>3 DEF StackInv
      <4>1. \A j \in 1 .. last : stack[j].path # p
        BY <1>6 DEF Waits, last
      <4>2. CASE i \in 1 .. last
        <5>1. /\ stack[i].depth = Len(stack[i].path) + 1
              /\ Known(stack[i].path) /\ Unread(stack[i].path)
              /\ removed > 0 \/ (Exists(stack[i].path) /\ IsDir(stack[i].path))
              /\ \A j \in 1 .. last : stack[i].path = stack[j].path => i = j
          BY <1>2, <4>2 DEF StackInv, last
        <5>2. stack'[i] = stack[i]
          BY <3>3, <4>2
        <5>3. \A j \in 1 .. Len(stack') : stack'[i].path = stack'[j].path => i = j
          BY <3>1, <3>3, <3>4, <4>1, <4>2, <5>1, <5>2
        <5> QED BY <1>1, <5>1, <5>2, <5>3 DEF Known, Unread, Listed, Exists, IsDir
      <4>3. CASE i = last + 1
        <5>1. stack'[i] = e
          BY <3>3, <4>3
        <5>2. \A j \in 1 .. Len(stack') : stack'[i].path = stack'[j].path => i = j
          BY <3>1, <3>3, <3>4, <4>1, <4>3, <5>1
        <5>3. Known(p) /\ Unread(p) /\ Exists(p) /\ IsDir(p)
          BY <1>1, <1>6, <2>2 DEF Known
        <5> QED BY <1>1, <3>1, <5>1, <5>2, <5>3 DEF Known, Unread, Listed, Exists, IsDir
      <4> QED BY <3>4, <4>2, <4>3
    <3> QED BY <2>2, <3>6, <3>7
  <2> QED BY <2>1, <2>2
<1>10. ReadInv'
  <2>1. Dir' = Dir
    BY <1>1 DEF Dir
  <2>2. ~Waits(Dir)'
    <3>1. \A q : q = Dir => ~(Waits(q)')
      BY <1>2, <1>7, <1>9 DEF ReadInv
    <3> QED BY <2>1, <3>1 DEF Waits
  <2> QED BY <1>1, <1>2, <2>1, <2>2 DEF ReadInv, Known, Listed, Exists, Paths
<1>11. ASSUME ~troubled PROVE AllCovered'
  <2> SUFFICES ASSUME NEW q \in DOMAIN tree, IsDir(q), Known(q)
               PROVE  Covered(q)'
    BY <1>1, <1>3, <1>4 DEF AllCovered
  <2>1. Covered(q)
    BY <1>2, <1>11 DEF AllCovered
  <2>2. CASE Waits(q) \/ q = p
    BY <1>9, <2>2 DEF Covered
  <2>3. CASE ~Waits(q) /\ q # p
    <3>1. /\ tree[q] # "locked"
          /\ \A n \in Names : Exists(Append(q, n)) =>
               Listed(Append(q, n)) \/ (q = Dir /\ n \in entries)
      BY <1>0, <2>1, <2>3 DEF Covered
    <3>2. Dir' = Dir
      BY <1>1 DEF Dir
    <3> QED BY <1>1, <1>3, <1>4, <3>1, <3>2 DEF Covered, Reading
  <2> QED BY <2>2, <2>3
<1>15. AllFound'
  <2>1. ASSUME NEW q \in DOMAIN tree \ {<<>>}, Listed(q) PROVE Found(q)
    BY <1>0, <1>1, <1>2, <2>1 DEF AllFound, Found, Attainable
  <2> QED BY <1>1, <1>3, <1>4, <2>1 DEF AllFound, Found
<1>12. WalkInv'
  BY <1>1, <1>3, <1>5, <1>9, <1>10, <1>11, <1>15 DEF WalkInv, Walking, Reading
<1>13. Promised
  BY <1>1, ListsNothing DEF Finished
<1>14. QED BY <1>12, <1>13

\* A dot is skipped, a removed entry or, in trouble, all the rest is not given,
\* or there are no more entries.
LEMMA SkipDotWalks ==
  ASSUME WalkInv,
         \/ Closedir \/ ReaddirFails
         \/ \E n \in {".", ".."} : SkipDot(n)
         \/ \E n \in Names : SkipRemoved(n)
  PROVE  WalkInv' /\ Promised
<1> DEFINE Quiet ==
      /\ at = "readdir" /\ at' \in {"readdir", "pop"}
      /\ entries' \subseteq entries
      /\ \A n \in entries \cap Names :
           n \in entries' \/ troubled \/ ~Exists(Append(Dir, n))
      /\ at' = "pop" => entries = {}
      /\ UNCHANGED <<tree, removed, troubled, stack, currPath, currLen, printed>>
<1>1. Quiet
  <2>1. CASE Closedir \/ ReaddirFails
    BY <2>1 DEF Closedir, ReaddirFails
  <2>2. ASSUME NEW n \in {".", ".."}, SkipDot(n) PROVE Quiet
    BY <2>2, TreesAssumption DEF SkipDot
  <2>3. ASSUME NEW n \in Names, SkipRemoved(n) PROVE Quiet
    BY <2>3 DEF SkipRemoved, ExpandPath, Dir
  <2> QED BY <2>1, <2>2, <2>3
<1>2. /\ ListInv /\ StackInv /\ TreeInv /\ ReadInv
      /\ troubled \/ AllCovered
      /\ AllFound
      /\ removed > 0 \/ (Exists(<<>>) /\ IsDir(<<>>))
  BY <1>1 DEF WalkInv, Walking, Reading
<1>3. /\ \A q : Listed(q)' <=> Listed(q)
      /\ \A q : Known(q)' <=> Known(q)
      /\ \A q : Unread(q)' <=> Unread(q)
      /\ ListInv'
  BY <1>1, <1>2, SameList
<1>4. /\ \A q : (Exists(q)' <=> Exists(q)) /\ (IsDir(q)' <=> IsDir(q)) /\ tree'[q] = tree[q]
      /\ \A q : Waits(q)' <=> Waits(q)
      /\ Dir' = Dir
  BY <1>1 DEF Exists, IsDir, Waits, Dir
<1>5. TreeInv' /\ StackInv' /\ (removed' > 0 \/ (Exists(<<>>)' /\ IsDir(<<>>)'))
  BY <1>1, <1>2, <1>3, <1>4 DEF TreeInv, StackInv, Known, Unread, Listed, Exists, IsDir
<1>6. ReadInv'
  <2>1. (Known(Dir) /\ ~Waits(Dir))'
    BY <1>1, <1>2, <1>4 DEF ReadInv, Known, Listed, Waits
  <2>2. (\A n \in entries \cap Names :
           /\ Append(Dir, n) \in Paths /\ ~Listed(Append(Dir, n))
           /\ removed > 0 \/ Exists(Append(Dir, n)))'
    BY <1>1, <1>2, <1>4 DEF ReadInv, Listed, Exists, Paths
  <2> QED BY <1>1, <1>2, <2>1, <2>2 DEF ReadInv
<1>7. ASSUME ~troubled PROVE AllCovered'
  <2> SUFFICES ASSUME NEW q \in DOMAIN tree, IsDir(q), Known(q)
               PROVE  Covered(q)'
    BY <1>1, <1>3, <1>4 DEF AllCovered
  <2>1. Covered(q)
    BY <1>2, <1>7 DEF AllCovered
  <2>2. CASE Waits(q)
    BY <1>4, <2>2 DEF Covered
  <2>3. CASE ~Waits(q)
    <3>1. /\ tree[q] # "locked"
          /\ \A n \in Names : Exists(Append(q, n)) =>
               Listed(Append(q, n)) \/ (q = Dir /\ n \in entries)
      BY <1>1, <2>1, <2>3 DEF Covered
    <3>2. ASSUME NEW n \in Names, Exists(Append(q, n)), ~Listed(Append(q, n))
          PROVE  q = Dir /\ n \in entries' /\ at' = "readdir"
      BY <1>1, <1>7, <3>1, <3>2
    <3> QED BY <1>3, <1>4, <3>1, <3>2 DEF Covered, Reading
  <2> QED BY <2>2, <2>3
<1>11. AllFound'
  BY <1>1, <1>2, <1>3, <1>4 DEF AllFound, Found
<1>8. WalkInv'
  BY <1>1, <1>3, <1>5, <1>6, <1>7, <1>11 DEF WalkInv, Walking, Reading
<1>9. Promised
  BY <1>1, ListsNothing DEF Finished
<1>10. QED BY <1>8, <1>9

\* readdir() gives a name: its path is listed, and the directory's is known.
LEMMA ReaddirWalks ==
  ASSUME WalkInv, NEW n \in Names, Readdir(n)
  PROVE  WalkInv' /\ Promised
<1> DEFINE Elems == [path : Seq(Names), depth : Nat]
<1>0. PICK dir, p : dir = Dir /\ p = Append(dir, n)
  OBVIOUS
<1>1. /\ at = "readdir" /\ at' = "lstat" /\ n \in entries /\ entries' = entries \ {n}
      /\ currPath' = [currPath EXCEPT !.path = p] /\ printed' = Append(printed, currPath')
      /\ UNCHANGED <<tree, removed, troubled, stack, currLen>>
  BY <1>0 DEF Readdir, OutputPath, ExpandPath, Dir
<1>2. /\ ListInv /\ StackInv /\ TreeInv /\ ReadInv
      /\ troubled \/ AllCovered
      /\ AllFound
      /\ removed > 0 \/ (Exists(<<>>) /\ IsDir(<<>>))
  BY <1>1 DEF WalkInv, Walking, Reading
<1>3. dir \in Seq(Names) /\ currLen \in Nat /\ Len(dir) = currLen /\ p = Append(dir, n)
  BY <1>0, <1>2, DirIsAPath
<1>4. /\ p \in Seq(Names) /\ p # <<>> /\ Len(p) = currLen + 1 /\ Front(p) = dir
      /\ SubSeq(p, 1, currLen) = dir
  BY <1>3, PathExtends
<1>5. /\ p \in Paths /\ ~Listed(p) /\ ~Known(p) /\ (removed > 0 \/ Exists(p))
      /\ Known(dir) /\ ~Waits(dir)
  BY <1>0, <1>1, <1>2, <1>3, <1>4 DEF ReadInv, Known
<1>6. /\ currPath' \in Elems /\ currPath'.path = p /\ currPath'.depth = currLen + 1
      /\ currPath' = [path |-> p, depth |-> Len(p)]
  <2>1. currPath \in Elems /\ currPath.depth = currLen + 1
    BY <1>2 DEF ReadInv
  <2> QED BY <1>1, <1>3, <1>4, <2>1
<1>7. Dir' = dir
  BY <1>1, <1>4, <1>6 DEF Dir
<1>8. /\ printed' \in Seq(Elems)
      /\ ToSet(printed') = ToSet(printed) \cup {[path |-> p, depth |-> Len(p)]}
  <2>1. printed \in Seq(Elems)
    BY <1>2 DEF ListInv
  <2> HIDE DEF Elems
  <2>2. printed' \in Seq(Elems)
    BY <1>1, <1>6, <2>1, AppendProperties
  <2>3. PICK e : e = currPath'
    OBVIOUS
  <2>4. e \in Elems /\ printed' = Append(printed, e)
    BY <1>1, <1>6, <2>3
  <2>5. ToSet(Append(printed, e)) = ToSet(printed) \cup {e}
    BY <2>1, <2>4, SetOfAppend
  <2> QED BY <1>6, <2>2, <2>3, <2>4, <2>5
<1>9. /\ \A q : Listed(q)' <=> Listed(q) \/ q = p
      /\ \A q : Known(q)' <=> Known(q) \/ q = p
  <2>1. ASSUME NEW q PROVE Listed(q)' <=> Listed(q) \/ q = p
    <3>1. Listed(q)' <=> [path |-> q, depth |-> Len(q)] \in ToSet(printed')
      BY DEF Listed
    <3>2. [path |-> q, depth |-> Len(q)] = [path |-> p, depth |-> Len(p)] <=> q = p
      OBVIOUS
    <3> QED BY <1>8, <3>1, <3>2 DEF Listed
  <2> QED BY <2>1 DEF Known
<1>10. ASSUME NEW q \in Seq(Names), NEW m \in Names
       PROVE  Append(q, m) = p => q = dir /\ m = n
  BY <1>3, PathsDiffer
<1>11. ASSUME NEW q \in Seq(Names), Unread(q), q # dir PROVE Unread(q)'
  <2>1. ASSUME NEW m \in Names PROVE ~Listed(Append(q, m)) /\ Append(q, m) # p
    BY <1>10, <1>11 DEF Unread
  <2> QED BY <1>9, <2>1 DEF Unread, Listed
<1>12. \A q : (Exists(q)' <=> Exists(q)) /\ (IsDir(q)' <=> IsDir(q)) /\ tree'[q] = tree[q]
       /\ (Waits(q)' <=> Waits(q))
  BY <1>1 DEF Exists, IsDir, Waits
<1>13. TreeInv' /\ (removed' > 0 \/ (Exists(<<>>)' /\ IsDir(<<>>)'))
  BY <1>1, <1>2, <1>12 DEF TreeInv, Exists, IsDir
<1>14. ListInv'
  <2>1. ASSUME NEW e \in ToSet(printed')
        PROVE  e.path # <<>> /\ e.depth = Len(e.path) /\ Known(Front(e.path))'
    <3>1. CASE e \in ToSet(printed)
      <4>1. e.path # <<>> /\ e.depth = Len(e.path) /\ Known(Front(e.path))
        BY <1>2, <3>1 DEF ListInv
      <4> QED BY <1>9, <4>1 DEF Known, Listed
    <3>2. CASE e = [path |-> p, depth |-> Len(p)]
      <4>1. e.path = p /\ e.depth = Len(p) /\ Front(e.path) = dir
        BY <1>4, <3>2
      <4>2. Known(dir)'
        BY <1>5, <1>9 DEF Known, Listed
      <4> QED BY <1>4, <4>1, <4>2 DEF Known, Listed
    <3> QED BY <1>8, <3>1, <3>2
  <2> QED BY <1>8, <2>1 DEF ListInv, Known, Listed
<1>15. StackInv'
  <2>1. ASSUME NEW i \in 1 .. Len(stack)
        PROVE  (Known(stack[i].path) /\ Unread(stack[i].path))'
    <3>1. PICK q : q = stack[i].path
      OBVIOUS
    <3>2. q \in Seq(Names) /\ Known(q) /\ Unread(q) /\ q # dir
      <4>1. stack \in Seq(Elems) /\ Known(q) /\ Unread(q)
        BY <1>2, <3>1 DEF StackInv
      <4>2. stack[i] \in Elems
        <5> HIDE DEF Elems
        <5> QED BY <4>1, ElementOfSeq
      <4> QED BY <1>5, <3>1, <4>1, <4>2 DEF Waits
    <3>3. Known(q)' /\ Unread(q)'
      BY <1>9, <1>11, <3>2 DEF Known, Listed
    <3> QED BY <1>1, <3>1, <3>3 DEF Known, Unread, Listed
  <2>2. ASSUME NEW i \in 1 .. Len(stack)
        PROVE  (/\ stack[i].depth = Len(stack[i].path) + 1
                /\ removed > 0 \/ (Exists(stack[i].path) /\ IsDir(stack[i].path))
                /\ \A j \in 1 .. Len(stack) : stack[i].path = stack[j].path => i = j)'
    BY <1>1, <1>2 DEF StackInv, Exists, IsDir
  <2>3. stack' \in Seq([path : Seq(Names), depth : Nat]) /\ Len(stack') = Len(stack)
    BY <1>1, <1>2 DEF StackInv
  <2> QED BY <2>1, <2>2, <2>3 DEF StackInv
<1>16. ReadInv'
  <2>1. currPath' \in Elems /\ currLen' \in 0 .. Len(currPath'.path)
        /\ currPath'.depth = currLen' + 1
    BY <1>1, <1>3, <1>4, <1>6
  <2>2. (Known(Dir) /\ ~Waits(Dir))'
    <3>1. Known(dir)' /\ ~(Waits(dir)')
      BY <1>5, <1>9, <1>12
    <3> QED BY <1>7, <3>1 DEF Known, Listed, Waits
  <2>3. entries' \subseteq Names \cup {".", ".."}
    BY <1>1, <1>2 DEF ReadInv
  <2>4. ASSUME NEW m \in entries' \cap Names
        PROVE  /\ Append(dir, m) \in Paths /\ ~(Listed(Append(dir, m))')
               /\ removed > 0 \/ Exists(Append(dir, m))
    <3>1. m \in entries \cap Names /\ m # n
      BY <1>1
    <3>2. Append(dir, m) \in Paths /\ ~Listed(Append(dir, m))
          /\ (removed > 0 \/ Exists(Append(dir, m)))
      BY <1>0, <1>2, <3>1 DEF ReadInv
    <3>3. Append(dir, m) # p
      BY <1>3, <1>10, <3>1
    <3> QED BY <1>9, <3>2, <3>3
  <2>5. (\A m \in entries \cap Names :
           /\ Append(Dir, m) \in Paths /\ ~Listed(Append(Dir, m))
           /\ removed > 0 \/ Exists(Append(Dir, m)))'
    BY <1>1, <1>7, <2>4 DEF Listed, Exists, Paths
  <2> QED BY <2>1, <2>2, <2>3, <2>5 DEF ReadInv
<1>17. ~Waits(p)
  <2> SUFFICES ASSUME NEW i \in 1 .. Len(stack), stack[i].path = p PROVE FALSE
    BY DEF Waits
  <2>1. Known(p)
    BY <1>2 DEF StackInv
  <2> QED BY <1>5, <2>1
<1>18. StatInv'
  <2>1. Unread(p)
    BY <1>2, <1>4, <1>5, UnlistedIsUnread
  <2>2. p # dir
    BY <1>3, <1>4
  <2>3. Unread(p)' /\ Listed(p)' /\ ~(Waits(p)')
    BY <1>4, <1>9, <1>11, <1>12, <1>17, <2>1, <2>2
  <2> QED BY <1>1, <1>4, <1>5, <1>6, <2>3 DEF StatInv, Unread, Listed, Waits, Exists
<1>19. ASSUME ~troubled PROVE AllCovered'
  <2> SUFFICES ASSUME NEW q \in DOMAIN tree, IsDir(q), Known(q) \/ q = p
               PROVE  Covered(q)'
    BY <1>1, <1>9, <1>12 DEF AllCovered
  <2>1. CASE q = p
    BY <1>1, <1>6, <2>1 DEF Covered
  <2>2. CASE Waits(q)
    BY <1>12, <2>2 DEF Covered
  <2>3. CASE q # p /\ ~Waits(q)
    <3>1. Covered(q)
      BY <1>2, <1>19, <2>3 DEF AllCovered
    <3>2. /\ tree[q] # "locked"
          /\ \A m \in Names : Exists(Append(q, m)) =>
               Listed(Append(q, m)) \/ (q = dir /\ m \in entries)
      BY <1>0, <1>1, <2>3, <3>1 DEF Covered
    <3>3. ASSUME NEW m \in Names, Exists(Append(q, m))
          PROVE  Listed(Append(q, m))' \/ (Reading' /\ q = dir /\ m \in entries')
      BY <1>1, <1>3, <1>9, <3>2, <3>3 DEF Reading
    <3> QED BY <1>7, <1>12, <3>2, <3>3 DEF Covered, Listed
  <2> QED BY <2>1, <2>2, <2>3
<1>24. AllFound'
  <2>1. ASSUME NEW q \in DOMAIN tree \ {<<>>}, Listed(q) PROVE Found(q)
    BY <1>1, <1>2, <2>1 DEF AllFound
  <2> QED BY <1>1, <1>6, <1>9, <1>12, <2>1 DEF AllFound, Found
<1>20. WalkInv'
  BY <1>1, <1>13, <1>14, <1>15, <1>16, <1>18, <1>19, <1>24 DEF WalkInv, Walking, Reading
<1>21. Walk!List(p)
  <2>1. Front(p) = <<>> \/ [path |-> Front(p), depth |-> Len(Front(p))] \in ToSet(printed)
    BY <1>4, <1>5 DEF Known, Listed
  <2>2. /\ [path |-> p, depth |-> Len(p)] \notin ToSet(printed)
        /\ p \in DOMAIN tree \/ removed > 0
        /\ printed' = Append(printed, [path |-> p, depth |-> Len(p)])
    BY <1>1, <1>5, <1>6 DEF Listed, Exists
  <2>3. /\ (IF at \in Finished THEN at ELSE "walking") = "walking"
        /\ (IF at \in Finished THEN at ELSE "walking")' = "walking"
        /\ tree' = tree /\ (removed > 0)' = (removed > 0) /\ troubled' = troubled
    BY <1>1 DEF Finished
  <2>4. Walk!Front(p) = Front(p) /\ Walk!ToSet(printed) = ToSet(printed)
    BY DEF Walk!Front, Front, Walk!ToSet, ToSet
  <2> QED BY <2>1, <2>2, <2>3, <2>4 DEF Walk!List
<1>22. Promised
  BY <1>4, <1>5, <1>21 DEF Promised, Walk!WalkNext, Walk!WalkStep
<1>23. QED BY <1>20, <1>22

\* Some number is the lowest of its kind.
LEMMA ShortestExists ==
  ASSUME NEW Lengths \in SUBSET Nat, Lengths # {}
  PROVE  \E k \in Lengths : \A l \in Lengths : ~(l < k)
<1> DEFINE Up == {0 .. l : l \in Lengths}
<1>1. Up \subseteq FiniteSubsetsOf(Nat) /\ Up # {}
  <2>1. ASSUME NEW l \in Lengths PROVE 0 .. l \in SUBSET Nat /\ IsFiniteSet(0 .. l)
    <3>1. l \in Int /\ 0 \in Int
      OBVIOUS
    <3> QED BY <3>1, FS_Interval
  <2> QED BY <2>1 DEF FiniteSubsetsOf
<1>2. PICK least \in Up : \A u \in Up : <<u, least>> \notin StrictSubsetOrdering(Nat)
  BY <1>1, FS_StrictSubsetOrderingWellFounded, WFMin
<1>3. PICK k \in Lengths : least = 0 .. k
  OBVIOUS
<1>4. ASSUME NEW l \in Lengths, l < k PROVE FALSE
  <2>1. <<0 .. l, 0 .. k>> \notin StrictSubsetOrdering(Nat)
    BY <1>2, <1>3
  <2>2. 0 .. l \subseteq 0 .. k /\ k \in 0 .. k /\ k \notin 0 .. l
    BY <1>4
  <2> QED BY <2>1, <2>2 DEF StrictSubsetOrdering
<1>5. QED BY <1>4

\* When the stack is empty all that there is is known: what is not known has
\* the shortest path, whose directory is known and has been read to its end.
LEMMA EmptyStackEndsWalk ==
  ASSUME TreeInv, AllCovered,
         at = "pop", stack = <<>>
  PROVE  /\ \A q \in DOMAIN tree : Known(q)
         /\ \A q \in DOMAIN tree : IsDir(q) => tree[q] # "locked"
<1>1. \A q \in DOMAIN tree : IsDir(q) /\ Known(q) =>
        tree[q] # "locked" /\ \A n \in Names : Exists(Append(q, n)) => Listed(Append(q, n))
  <2>1. \A q : ~Waits(q)
    BY DEF Waits
  <2> QED BY <2>1 DEF AllCovered, Covered, Reading
<1>2. DOMAIN tree \subseteq Seq(Names)
  BY PathsAreSequences DEF TreeInv
<1> DEFINE Lengths == {Len(q) : q \in {p \in DOMAIN tree : ~Known(p)}}
<1>3. CASE Lengths # {}
  <2>1. Lengths \subseteq Nat
    BY <1>2, LenProperties
  <2>2. PICK k \in Lengths : \A l \in Lengths : ~(l < k)
    <3> HIDE DEF Lengths
    <3> QED BY <1>3, <2>1, ShortestExists
  <2>3. PICK p \in DOMAIN tree : ~Known(p) /\ Len(p) = k
    OBVIOUS
  <2>4. p # <<>> /\ p \in Seq(Names)
    BY <1>2, <2>3 DEF Known
  <2>5. /\ Last(p) \in Names /\ Append(Front(p), Last(p)) = p
        /\ Len(Front(p)) < Len(p)
    BY <2>4, PathSplits
  <2>6. Front(p) \in DOMAIN tree /\ IsDir(Front(p))
    BY <2>4 DEF TreeInv, Exists
  <2>7. Known(Front(p))
    <3>1. ~Known(Front(p)) => Len(Front(p)) \in Lengths
      BY <2>6
    <3> HIDE DEF Lengths
    <3> QED BY <2>2, <2>3, <2>5, <3>1
  <2>8. Exists(Append(Front(p), Last(p))) => Listed(Append(Front(p), Last(p)))
    BY <1>1, <2>5, <2>6, <2>7
  <2> QED BY <2>3, <2>5, <2>8 DEF Known, Exists
<1>4. CASE Lengths = {}
  <2>1. \A q \in DOMAIN tree : Known(q)
    BY <1>4
  <2> QED BY <1>1, <2>1
<1>5. QED BY <1>3, <1>4

\* "Ok!": if the system had no trouble nothing is left to list, and nothing
\* was closed to the walk.
LEMMA DoneWalks ==
  ASSUME WalkInv, Done
  PROVE  WalkInv' /\ Promised
<1>1. /\ at = "pop" /\ stack = <<>> /\ at' = "done"
      /\ UNCHANGED <<tree, removed, troubled, stack, currPath, currLen, entries, printed>>
  BY DEF Done
<1>2. /\ TreeInv /\ AllFound /\ (troubled \/ AllCovered)
      /\ removed > 0 \/ (Exists(<<>>) /\ IsDir(<<>>))
  BY <1>1 DEF WalkInv, Walking
<1>3. WalkInv'
  <2>1. TreeInv'
    BY <1>1, <1>2 DEF TreeInv, Exists, IsDir
  <2> QED BY <1>1, <2>1 DEF WalkInv, Walking, Reading
<1>4. ASSUME ~troubled
      PROVE  /\ \A q \in DOMAIN tree : Known(q)
             /\ \A q \in DOMAIN tree : IsDir(q) => tree[q] # "locked"
  BY <1>1, <1>2, <1>4, EmptyStackEndsWalk
<1>5. ASSUME ~troubled PROVE Walk!AllListed
  <2>1. Walk!ToSet(printed) = ToSet(printed)
    BY DEF Walk!ToSet, ToSet
  <2>2. \A q \in DOMAIN tree \ {<<>>} : [path |-> q, depth |-> Len(q)] \in ToSet(printed)
    BY <1>4, <1>5 DEF Known, Listed
  <2> QED BY <2>1, <2>2 DEF Walk!AllListed
<1>6. ASSUME ~troubled PROVE Walk!Readable
  <2>1. ASSUME NEW p \in DOMAIN tree
        PROVE  /\ tree[p] # "locked" /\ Len(p) <= PathMax
               /\ p = <<>> \/ tree[Walk!Front(p)] # "unsearchable"
    <3>1. tree[p] # "locked"
      BY <1>4, <1>6 DEF IsDir, Directories
    <3>2. CASE p = <<>>
      <4>1. Len(p) = 0
        BY <3>2
      <4> QED BY <3>1, <3>2, <4>1, TreesAssumption
    <3>3. CASE p # <<>>
      <4>1. Found(p)
        BY <1>1, <1>2, <1>4, <1>6, <3>3 DEF AllFound, Known
      <4>2. Walk!Front(p) = Front(p)
        BY DEF Walk!Front, Front
      <4> QED BY <3>1, <4>1, <4>2 DEF Found
    <3> QED BY <3>2, <3>3
  <2> QED BY <2>1 DEF Walk!Readable
<1>7. removed > 0 \/ Walk!BeginsAtDirectory
  BY <1>2 DEF Walk!BeginsAtDirectory, Exists, IsDir, Directories
<1>8. Walk!Finish
  BY <1>1, <1>5, <1>6, <1>7 DEF Walk!Finish, Finished
<1>9. QED BY <1>3, <1>8 DEF Promised, Walk!WalkNext, Walk!WalkStep

\* What somebody removes had nothing in it: the rest is still a tree.
LEMMA RemoveEntryWalks ==
  ASSUME WalkInv, NEW path \in Paths, RemoveEntry(path)
  PROVE  WalkInv' /\ Promised
<1>1. /\ at \notin Finished /\ path \in DOMAIN tree
      /\ \A n \in Names : Append(path, n) \notin DOMAIN tree
      /\ tree' = [q \in DOMAIN tree \ {path} |-> tree[q]]
      /\ removed' = removed + 1
      /\ UNCHANGED <<at, troubled, stack, currPath, currLen, entries, printed>>
  BY DEF RemoveEntry, Exists
<1>2. TreeInv
  BY DEF WalkInv
<1>3. /\ DOMAIN tree' = DOMAIN tree \ {path} /\ \A q \in DOMAIN tree' : tree'[q] = tree[q]
      /\ removed' \in Nat /\ removed' > 0
  BY <1>1, <1>2 DEF TreeInv
<1>4. TreeInv'
  <2>1. ASSUME NEW p \in DOMAIN tree' \ {<<>>}
        PROVE  Front(p) \in DOMAIN tree' /\ tree'[Front(p)] \in Directories
    <3>1. p \in DOMAIN tree \ {<<>>} /\ p \in Seq(Names)
      BY <1>2, <1>3, PathsAreSequences DEF TreeInv
    <3>2. Front(p) \in DOMAIN tree /\ tree[Front(p)] \in Directories
      BY <1>2, <3>1 DEF TreeInv, Exists, IsDir
    <3>3. Last(p) \in Names /\ Append(Front(p), Last(p)) = p
      BY <3>1, PathSplits
    <3>4. Front(p) # path
      BY <1>1, <3>1, <3>3
    <3> QED BY <1>3, <3>2, <3>4
  <2>2. DOMAIN tree' \subseteq Paths /\ tree' \in [DOMAIN tree' -> Kinds]
    BY <1>1, <1>2, <1>3 DEF TreeInv
  <2> QED BY <1>1, <1>2, <1>3, <2>1, <2>2 DEF TreeInv, Exists, IsDir, Paths, Kinds, Directories
<1>5. /\ \A q : Listed(q)' <=> Listed(q)
      /\ \A q : Known(q)' <=> Known(q)
      /\ \A q : Unread(q)' <=> Unread(q)
      /\ ListInv' <=> ListInv
  BY <1>1, SameList
<1>6. /\ \A q : Exists(q)' => Exists(q) /\ tree'[q] = tree[q]
      /\ \A q : Waits(q)' <=> Waits(q)
      /\ Dir' = Dir
  BY <1>1, <1>3 DEF Exists, Waits, Dir
<1>7. StackInv => StackInv'
  BY <1>1, <1>3 DEF StackInv, Known, Unread, Listed
<1>8. ReadInv => ReadInv'
  <2> SUFFICES ASSUME ReadInv PROVE ReadInv'
    OBVIOUS
  <2>1. (Known(Dir) /\ ~Waits(Dir))'
    BY <1>1, <1>6 DEF ReadInv, Known, Listed, Waits
  <2>2. (\A n \in entries \cap Names :
           /\ Append(Dir, n) \in Paths /\ ~Listed(Append(Dir, n))
           /\ removed > 0 \/ Exists(Append(Dir, n)))'
    BY <1>1, <1>3, <1>6 DEF ReadInv, Listed, Paths
  <2> QED BY <1>1, <2>1, <2>2 DEF ReadInv
<1>9. StatInv => StatInv'
  BY <1>1, <1>3 DEF StatInv, Listed, Unread, Waits
<1>10. ASSUME NEW q \in DOMAIN tree', Covered(q)
       PROVE  Covered(q)'
  <2>1. tree'[q] = tree[q]
    BY <1>3
  <2> QED BY <1>1, <1>5, <1>6, <1>10, <2>1 DEF Covered, Reading
<1>11. WalkInv'
  <2>1. CASE Walking
    <3>1. ListInv /\ StackInv /\ AllFound /\ (troubled \/ AllCovered)
      BY <2>1 DEF WalkInv
    <3>2. AllCovered => AllCovered'
      <4> SUFFICES ASSUME AllCovered, NEW q \in DOMAIN tree', IsDir(q)', Known(q)'
                   PROVE  Covered(q)'
        BY DEF AllCovered
      <4>1. q \in DOMAIN tree /\ IsDir(q) /\ Known(q)
        BY <1>3, <1>5 DEF IsDir
      <4> QED BY <1>10, <4>1 DEF AllCovered
    <3>4. AllFound'
      <4> SUFFICES ASSUME NEW q \in DOMAIN tree' \ {<<>>}, Listed(q)'
                   PROVE  (Found(q) \/ (at = "lstat" /\ q = currPath.path))'
        BY DEF AllFound
      <4>1. q \in DOMAIN tree \ {<<>>} /\ Listed(q)
        BY <1>3, <1>5
      <4>2. Found(q) \/ (at = "lstat" /\ q = currPath.path)
        BY <3>1, <4>1 DEF AllFound
      <4>3. Front(q) \in DOMAIN tree'
        BY <1>4 DEF TreeInv, Exists
      <4> QED BY <1>1, <1>3, <4>2, <4>3 DEF Found
    <3>3. (Reading => ReadInv) /\ (at = "lstat" => StatInv)
      BY DEF WalkInv
    <3> QED BY <1>1, <1>3, <1>4, <1>5, <1>7, <1>8, <1>9, <2>1, <3>1, <3>2, <3>3, <3>4
            DEF WalkInv, Walking, Reading
  <2>2. CASE ~Walking
    BY <1>1, <1>4, <2>2 DEF WalkInv, Walking, Reading, Finished
  <2> QED BY <2>1, <2>2
<1>12. Walk!Change
  <2>1. /\ (IF at \in Finished THEN at ELSE "walking") = "walking"
        /\ (IF at \in Finished THEN at ELSE "walking")' = "walking"
        /\ (removed > 0)' = TRUE /\ troubled' = troubled
    BY <1>1, <1>3 DEF Finished
  <2> QED BY <1>1, <2>1 DEF Walk!Change
<1>13. QED BY <1>11, <1>12 DEF Promised, Walk!WalkNext

\* Nothing is touched by the system's trouble.
LEMMA TroubleWalks ==
  ASSUME WalkInv, Trouble
  PROVE  WalkInv' /\ Promised
<1>1. /\ at \notin Finished /\ troubled' = TRUE
      /\ UNCHANGED <<at, tree, removed, stack, currPath, currLen, entries, printed>>
  BY DEF Trouble
<1>2. (TreeInv => TreeInv') /\ (ListInv' <=> ListInv)
  BY <1>1 DEF TreeInv, ListInv, Known, Listed, Exists, IsDir
<1>3. StackInv' <=> StackInv
  BY <1>1 DEF StackInv, Known, Unread, Listed, Exists, IsDir
<1>4. ReadInv' <=> ReadInv
  BY <1>1 DEF ReadInv, Known, Listed, Exists, Waits, Dir, Paths
<1>5. StatInv' <=> StatInv
  BY <1>1 DEF StatInv, Unread, Listed, Exists, Waits
<1>6. AllFound' <=> AllFound
  BY <1>1 DEF AllFound, Found, Listed
<1>7. (Exists(<<>>)' <=> Exists(<<>>)) /\ (IsDir(<<>>)' <=> IsDir(<<>>))
  BY <1>1 DEF Exists, IsDir
<1>8. WalkInv'
  BY <1>1, <1>2, <1>3, <1>4, <1>5, <1>6, <1>7 DEF WalkInv, Walking, Reading
<1>9. Walk!RunIntoTrouble
  BY <1>1 DEF Walk!RunIntoTrouble, Finished
<1>10. QED BY <1>8, <1>9 DEF Promised, Walk!WalkNext

\* One step of the walk, whoever takes it.
LEMMA StepWalks ==
  ASSUME WalkInv, [CatalogNext]_catalogVars
  PROVE  WalkInv' /\ Promised
<1>1. CASE CatalogStep
  <2>1. CASE LstatRoot
    BY <2>1, LstatRootWalks
  <2>2. CASE Opendir
    BY <2>2, OpendirWalks
  <2>3. CASE Lstat
    BY <2>3, LstatWalks
  <2>4. ASSUME NEW n \in Names, Readdir(n) PROVE WalkInv' /\ Promised
    BY <2>4, ReaddirWalks
  <2>5. CASE \/ Closedir \/ ReaddirFails
             \/ \E n \in {".", ".."} : SkipDot(n)
             \/ \E n \in Names : SkipRemoved(n)
    BY <2>5, SkipDotWalks
  <2>6. CASE Done
    BY <2>6, DoneWalks
  <2>7. CASE LstatRootFails \/ OpendirFails \/ LstatFails \/ ClosedirFails
    BY <2>7, ErrorsHaveReasons
  <2> QED BY <1>1, <2>1, <2>2, <2>3, <2>4, <2>5, <2>6, <2>7 DEF CatalogStep
<1>2. CASE Start \/ Exit
  BY <1>2, StartWalks
<1>3. ASSUME NEW path \in Paths, RemoveEntry(path) PROVE WalkInv' /\ Promised
  BY <1>3, RemoveEntryWalks
<1>6. CASE Trouble
  BY <1>6, TroubleWalks
<1>4. CASE UNCHANGED catalogVars
  <2>1. WalkInv'
    <3>1. UNCHANGED <<at, tree, removed, troubled, stack, currPath, currLen, entries, printed>>
      BY <1>4 DEF catalogVars
    <3>2. (TreeInv' <=> TreeInv) /\ (ListInv' <=> ListInv)
      BY <3>1 DEF TreeInv, ListInv, Known, Listed, Exists, IsDir
    <3>3. StackInv' <=> StackInv
      BY <3>1 DEF StackInv, Known, Unread, Listed, Exists, IsDir
    <3>4. ReadInv' <=> ReadInv
      BY <3>1 DEF ReadInv, Known, Listed, Exists, Waits, Dir, Paths
    <3>5. StatInv' <=> StatInv
      BY <3>1 DEF StatInv, Unread, Listed, Exists, Waits
    <3>6. (AllCovered' <=> AllCovered) /\ (AllFound' <=> AllFound)
      BY <3>1 DEF AllCovered, AllFound, Found, IsDir, Known, Covered, Listed, Exists, Waits, Dir,
         Reading
    <3>7. \A q : (IsDir(q)' <=> IsDir(q)) /\ (Known(q)' <=> Known(q)) /\ (Exists(q)' <=> Exists(q))
      BY <3>1 DEF IsDir, Known, Listed, Exists
    <3> QED BY <3>1, <3>2, <3>3, <3>4, <3>5, <3>6, <3>7 DEF WalkInv, Walking, Reading
  <2>2. UNCHANGED Walk!walk
    BY <1>4 DEF catalogVars, Walk!walk
  <2> QED BY <2>1, <2>2 DEF Promised
<1>5. QED BY <1>1, <1>2, <1>3, <1>4, <1>6 DEF CatalogNext

\* The stack, the lists and the entries that are left account for the tree.
THEOREM WalkInvCorrect == CatalogSpec => []WalkInv
<1>1. CatalogInit => WalkInv
  <2> SUFFICES ASSUME CatalogInit PROVE WalkInv
    OBVIOUS
  <2>1. at = "idle" /\ tree = <<>> /\ removed = 0 /\ troubled = FALSE /\ stack = <<>> /\ printed = <<>>
    BY DEF CatalogInit
  <2>2. DOMAIN tree = {} /\ tree \in [{} -> Kinds] /\ removed \in Nat
    BY <2>1
  <2>4. troubled \in BOOLEAN
    BY <2>1
  <2>3. TreeInv
    BY <2>2, <2>4 DEF TreeInv
  <2> QED BY <2>1, <2>3 DEF WalkInv, Walking, Reading
<1>2. WalkInv /\ [CatalogNext]_catalogVars => WalkInv'
  BY StepWalks
<1>3. QED BY <1>1, <1>2, PTL DEF CatalogSpec

\* All that the program lists, ends and complains of (catalog.c:33-70) is what
\* TreeWalk allows a walk through a tree.  That it ends is left to TLC.
THEOREM StepsOfTreeWalk == CatalogSpec => Walk!WalkSafe
<1>1. CatalogInit => Walk!WalkInit
  BY DEF CatalogInit, Walk!WalkInit, Finished
<1>2. WalkInv /\ [CatalogNext]_catalogVars => [Walk!WalkNext]_(Walk!walk)
  BY StepWalks DEF Promised
<1>3. QED BY <1>1, <1>2, WalkInvCorrect, PTL DEF CatalogSpec, Walk!WalkSafe

=============================================================================
