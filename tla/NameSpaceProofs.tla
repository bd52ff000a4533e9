--------------------------- MODULE NameSpaceProofs ---------------------------
(***************************************************************************)
(* Proofs about NameSpace: whatever calls are made, in any order and with  *)
(* any paths, for every number of inodes and both values of FirstSurvives. *)
(***************************************************************************)
EXTENDS NameSpace, SequenceTheorems, WellFoundedInduction, TLAPS

(* A non-empty set of natural numbers has a least member. *)
LEMMA MinIsMember ==
  ASSUME NEW S \in SUBSET Nat, S # {}
  PROVE  Min(S) \in S /\ \A x \in S : Min(S) <= x
<1> DEFINE Less == {ss \in Nat \X Nat : ss[1] < ss[2]}
<1>1. IsWellFoundedOn(Less, Nat)
  BY NatLessThanWellFounded DEF OpToRel
<1>2. PICK x \in S : \A y \in S : ~ (<<y, x>> \in Less)
  <2> HIDE DEF Less
  <2> QED BY <1>1, WFMin
<1>3. ASSUME NEW y \in S PROVE x <= y
  <2>1. x \in Nat /\ y \in Nat
    OBVIOUS
  <2>2. ~ (y < x)
    BY <1>2, <2>1
  <2> QED
    BY <2>1, <2>2
<1> QED
  BY <1>3 DEF Min

-----------------------------------------------------------------------------
(* A path ends in a segment, and what is in front of that is a path or     *)
(* empty.                                                                  *)
LEMMA PathParts ==
  ASSUME NEW p \in Path
  PROVE  /\ p \in Seq(Segment) /\ Len(p) \in Nat /\ Len(p) >= 1
         /\ ParentPath(p) \in Seq(Segment) /\ Len(ParentPath(p)) = Len(p) - 1
         /\ \A k \in 1..(Len(p) - 1) : ParentPath(p)[k] = p[k]
         /\ TailName(p) = p[Len(p)]
<1>1. p \in Seq(Segment) /\ p # <<>>
  BY DEF Path
<1>2. Len(p) \in Nat /\ Len(p) >= 1
  BY <1>1, LenProperties, EmptySeq
<1>3. \A k \in 1..(Len(p) - 1) : p[k] \in Segment
  BY <1>1, <1>2, ElementOfSeq
<1>4. /\ SubSeq(p, 1, Len(p) - 1) \in Seq(Segment)
      /\ Len(SubSeq(p, 1, Len(p) - 1)) = Len(p) - 1
      /\ \A k \in 1..(Len(p) - 1) : SubSeq(p, 1, Len(p) - 1)[k] = p[k]
  <2>1. PICK m \in Nat : m = Len(p) - 1
    <3>1. \A n \in Nat : n >= 1 => n - 1 \in Nat
      OBVIOUS
    <3> QED BY <1>2, <3>1
  <2>2. \A k \in 1..m : p[k] \in Segment
    BY <1>3, <2>1
  <2>3. /\ SubSeq(p, 1, m) \in Seq(Segment)
        /\ Len(SubSeq(p, 1, m)) = IF 1 <= m THEN m - 1 + 1 ELSE 0
        /\ \A k \in 1..(m - 1 + 1) : SubSeq(p, 1, m)[k] = p[1 + k - 1]
    BY <2>1, <2>2, SubSeqProperties
  <2>4. m - 1 + 1 = m /\ (1 <= m \/ m = 0) /\ \A k \in 1..m : 1 + k - 1 = k
    OBVIOUS
  <2> QED BY <2>1, <2>3, <2>4
<1> QED
  BY <1>1, <1>2, <1>4 DEF ParentPath, Front, TailName, Last

LEMMA TailIsSegment ==
  ASSUME NEW p \in Path
  PROVE  TailName(p) \in Segment
BY PathParts, ElementOfSeq

-----------------------------------------------------------------------------
(* find_real_ino, segment by segment: w[k] is fh after k segments.         *)

Go(nd, i, s) == IF s = "" THEN i ELSE Step(nd, i, s)

Walks(nd, p, w, m) == w[0] = ROOT /\ \A k \in 1..m : w[k] = Go(nd, w[k - 1], p[k])

WalkOf(nd, p, w, m) ==
  w = [k \in 0..m |-> IF k = 0 THEN ROOT ELSE Go(nd, w[k - 1], p[k])]

LEMMA WalkExists ==
  ASSUME NEW nd, NEW p
  PROVE  \A m \in Nat : \E w : WalkOf(nd, p, w, m)
<1> DEFINE S == {m \in Nat : ~ \E w : WalkOf(nd, p, w, m)}
<1> SUFFICES ASSUME S # {} PROVE FALSE
  OBVIOUS
<1> DEFINE m == Min(S)
<1>1. m \in S /\ \A k \in S : m <= k
  BY MinIsMember
<1>2. CASE m = 0
  <2> DEFINE w == [k \in 0..0 |-> ROOT]
  <2>1. WalkOf(nd, p, w, 0)
    BY DEF WalkOf
  <2> QED BY <1>1, <1>2, <2>1
<1>3. CASE m # 0
  <2>1. m \in Nat /\ m - 1 \in Nat /\ m - 1 \notin S
    <3> HIDE DEF m
    <3> QED BY <1>1, <1>3
  <2>2. PICK w : WalkOf(nd, p, w, m - 1)
    BY <2>1
  <2> DEFINE last == Go(nd, w[m - 1], p[m])
             v == [k \in 0..m |-> IF k = m THEN last ELSE w[k]]
  <2>3. WalkOf(nd, p, v, m)
    <3> HIDE DEF m
    <3>1. ASSUME NEW k \in 0..m, k # 0, k # m
          PROVE  v[k] = Go(nd, v[k - 1], p[k])
      <4>1. k \in 0..(m - 1) /\ k - 1 \in 0..m /\ k - 1 # m
        BY <2>1, <3>1
      <4>2. v[k] = w[k] /\ v[k - 1] = w[k - 1]
        BY <3>1, <4>1
      <4>3. w[k] = Go(nd, w[k - 1], p[k])
        BY <2>2, <3>1, <4>1 DEF WalkOf
      <4> QED BY <4>2, <4>3
    <3>2. v[m] = last /\ v[m - 1] = w[m - 1]
      BY <1>3, <2>1
    <3>3. v[0] = ROOT
      BY <1>3, <2>1, <2>2 DEF WalkOf
    <3> HIDE DEF last
    <3>4. v = [k \in 0..m |-> v[k]]
      OBVIOUS
    <3> HIDE DEF v
    <3>5. \A k \in 0..m : v[k] = IF k = 0 THEN ROOT ELSE Go(nd, v[k - 1], p[k])
      BY <3>1, <3>2, <3>3 DEF last
    <3> QED BY <3>4, <3>5 DEF WalkOf
  <2> QED BY <1>1, <2>3
<1> QED BY <1>2, <1>3

LEMMA FindRealWalks ==
  ASSUME NEW nd, NEW p \in Seq(Segment)
  PROVE  \E w : Walks(nd, p, w, Len(p)) /\ FindReal(nd, p) = w[Len(p)]
<1> DEFINE w == CHOOSE w : WalkOf(nd, p, w, Len(p))
<1>1. Len(p) \in Nat
  OBVIOUS
<1>2. WalkOf(nd, p, w, Len(p))
  BY <1>1, WalkExists
<1>3. FindReal(nd, p) = w[Len(p)]
  BY DEF FindReal, WalkOf, Go
<1> HIDE DEF w
<1>4. Walks(nd, p, w, Len(p))
  BY <1>1, <1>2 DEF Walks, WalkOf
<1> QED BY <1>3, <1>4

(* Two walks over the same segments end at the same number.                *)
LEMMA WalksAgree ==
  ASSUME NEW nd, NEW p, NEW q, NEW m \in Nat, NEW w, NEW v,
         Walks(nd, p, w, m), Walks(nd, q, v, m), \A k \in 1..m : p[k] = q[k]
  PROVE  w[m] = v[m]
<1> DEFINE S == {k \in 0..m : w[k] # v[k]}
<1>1. SUFFICES ASSUME S # {} PROVE FALSE
  OBVIOUS
<1>2. PICK k \in S : \A j \in S : k <= j
  <2>1. S \in SUBSET Nat
    OBVIOUS
  <2> HIDE DEF S
  <2> QED BY <1>1, <2>1, MinIsMember
<1>3. k # 0 /\ k - 1 \in 0..m /\ k \in 1..m /\ k - 1 \notin S
  BY <1>2 DEF Walks
<1> QED BY <1>2, <1>3 DEF Walks

(* What is known of a table when count is n: it is a table of files, the   *)
(* numbers from n on are no files, and no dentry holds one of them.        *)
DentryBelow(n) == [name: Segment, ino: 0..(n - 1)]
FileBelow(n) == [type: Type, nlink: Int,
                 dentries: Seq(DentryBelow(n)), target: Path \cup {<<>>}]
TableBelow(nd, n) ==
  /\ nd \in [Ino -> FileBelow(n)]
  /\ \A i \in Ino : i >= n => nd[i] = Blank

Count == (ROOT + 1)..(MaxIno + 1)

(* The last segment is looked for in what the path in front of it leads to. *)
LEMMA FindRealLast ==
  ASSUME NEW nd, NEW p \in Path
  PROVE  FindReal(nd, p) = Go(nd, FindReal(nd, ParentPath(p)), TailName(p))
<1> DEFINE m == Len(p) - 1
<1>1. /\ p \in Seq(Segment) /\ m \in Nat /\ Len(p) \in 1..Len(p) /\ m <= Len(p)
      /\ ParentPath(p) \in Seq(Segment) /\ Len(ParentPath(p)) = m
      /\ \A k \in 1..m : ParentPath(p)[k] = p[k]
      /\ TailName(p) = p[Len(p)]
  BY PathParts
<1>2. PICK w : Walks(nd, p, w, Len(p)) /\ FindReal(nd, p) = w[Len(p)]
  BY <1>1, FindRealWalks
<1>3. PICK v : Walks(nd, ParentPath(p), v, m) /\ FindReal(nd, ParentPath(p)) = v[m]
  BY <1>1, FindRealWalks
<1>4. Walks(nd, p, w, m)
  BY <1>1, <1>2 DEF Walks
<1> HIDE DEF m
<1>5. w[m] = v[m]
  BY <1>1, <1>3, <1>4, WalksAgree
<1>6. w[Len(p)] = Go(nd, w[m], p[Len(p)])
  BY <1>1, <1>2 DEF Walks, m
<1> QED BY <1>1, <1>2, <1>3, <1>5, <1>6

-----------------------------------------------------------------------------
(* Path resolution yields a number that has been issued, or 0 or Stray. *)

LEMMA LookupRange ==
  ASSUME NEW n \in Count, NEW nd, TableBelow(nd, n), NEW d \in Ino, NEW s
  PROVE  Lookup(nd, s, d) \in 0..(n - 1)
<1> DEFINE hits == Named(nd, d, s)
<1>1. nd[d].dentries \in Seq(DentryBelow(n))
  BY DEF TableBelow, FileBelow
<1>2. hits \in SUBSET Nat /\ hits \subseteq DOMAIN nd[d].dentries
  BY <1>1, LenProperties DEF Named
<1>3. n - 1 >= 2 /\ n \in Nat
  BY IlistAssumption DEF Count, ROOT
<1>4. CASE hits = {}
  BY <1>3, <1>4 DEF Lookup
<1>5. CASE hits # {}
  <2>1. Min(hits) \in DOMAIN nd[d].dentries
    BY <1>2, <1>5, MinIsMember
  <2>2. nd[d].dentries[Min(hits)] \in DentryBelow(n)
    BY <1>1, <2>1, ElementOfSeq, LenProperties
  <2> QED
    BY <1>3, <1>5, <2>2 DEF Lookup, Stray, DentryBelow
<1> QED
  BY <1>4, <1>5

LEMMA FindRealRange ==
  ASSUME NEW n \in Count, NEW nd, TableBelow(nd, n), NEW p \in Seq(Segment)
  PROVE  FindReal(nd, p) \in 0..(n - 1)
<1>1. n - 1 >= 2 /\ n \in Nat
  BY IlistAssumption DEF Count, ROOT
<1>2. ASSUME NEW d \in 0..(n - 1), NEW s PROVE Go(nd, d, s) \in 0..(n - 1)
  <2>1. Step(nd, d, s) \in 0..(n - 1)
    BY <1>1, LookupRange DEF Step
  <2> QED BY <2>1 DEF Go
<1>3. PICK w : Walks(nd, p, w, Len(p)) /\ FindReal(nd, p) = w[Len(p)]
  BY FindRealWalks
<1> DEFINE S == {k \in 0..Len(p) : w[k] \notin 0..(n - 1)}
<1>4. SUFFICES ASSUME S # {} PROVE FALSE
  BY <1>3
<1>5. PICK k \in S : \A j \in S : k <= j
  <2>1. S \in SUBSET Nat
    OBVIOUS
  <2> HIDE DEF S
  <2> QED BY <1>4, <2>1, MinIsMember
<1>6. k # 0 /\ k - 1 \in 0..Len(p) /\ k \in 1..Len(p) /\ k - 1 \notin S
  BY <1>1, <1>3, <1>5 DEF Walks, ROOT
<1> QED
  BY <1>2, <1>3, <1>5, <1>6 DEF Walks

LEMMA FindRange ==
  ASSUME NEW n \in Count, NEW nd, TableBelow(nd, n), NEW p \in Seq(Segment)
  PROVE  /\ Find(nd, p) \in 0..(n - 1)
         /\ Find(nd, p) \in Ino
<1>1. FindReal(nd, p) \in 0..(n - 1) /\ FindReal(nd, p) \in Ino
  BY FindRealRange, IlistAssumption DEF Count, ROOT, Ino
<1>2. nd[FindReal(nd, p)].target \in Seq(Segment)
  BY <1>1, EmptySeq DEF TableBelow, FileBelow, Path
<1>3. Find(nd, p) \in 0..(n - 1)
  BY <1>1, <1>2, FindRealRange DEF Find
<1> QED
  BY <1>3, IlistAssumption DEF Count, ROOT, Ino

-----------------------------------------------------------------------------
(* The edits of a table keep it one.  SameStat: they touch nothing but     *)
(* dentries.  SameText: no type and no text.  OneFile: they touch neither, *)
(* or take the inode away with its last link.                              *)

SameStat(nd, md) ==
  \A i \in Ino : /\ md[i].type = nd[i].type /\ md[i].target = nd[i].target
                 /\ md[i].nlink = nd[i].nlink

SameText(nd, md) ==
  \A i \in Ino : md[i].type = nd[i].type /\ md[i].target = nd[i].target

OneFile(nd, md) ==
  \A i \in Ino : \/ md[i].type = nd[i].type /\ md[i].target = nd[i].target
                 \/ nd[i].nlink = 1 /\ md[i] = Blank

LEMMA ReplaceFile ==
  ASSUME NEW n \in Count, NEW nd, TableBelow(nd, n), NEW i \in Ino, i < n,
         NEW f \in FileBelow(n)
  PROVE  /\ TableBelow([nd EXCEPT ![i] = f], n)
         /\ [nd EXCEPT ![i] = f][i] = f
         /\ \A j \in Ino : j # i => [nd EXCEPT ![i] = f][j] = nd[j]
<1>1. n \in Nat /\ \A j \in Ino : j \in Nat
  BY IlistAssumption DEF Count, ROOT, Ino
<1> QED
  BY <1>1 DEF TableBelow

LEMMA BlankIsFile ==
  ASSUME NEW n
  PROVE  Blank \in FileBelow(n) /\ Blank.type = "none" /\ Blank.target = <<>>
BY DEF Blank, FileBelow, Type

LEMMA NewInodeIsFile ==
  ASSUME NEW n, NEW t \in Type
  PROVE  NewInode(t) \in FileBelow(n) /\ NewInode(t).type = t
BY EmptySeq DEF NewInode, FileBelow

LEMMA PushKeeps ==
  ASSUME NEW n \in Count, NEW nd, TableBelow(nd, n),
         NEW d \in 0..(n - 1), NEW s \in Segment, NEW i \in 0..(n - 1)
  PROVE  TableBelow(Push(nd, d, s, i), n) /\ SameStat(nd, Push(nd, d, s, i))
<1>1. d \in Ino /\ d < n
  BY IlistAssumption DEF Count, ROOT, Ino
<1> DEFINE e == [name |-> s, ino |-> i]
           f == [nd[d] EXCEPT !.dentries = Append(@, e)]
<1>2. nd[d] \in FileBelow(n)
  BY <1>1 DEF TableBelow
<1>3. e \in DentryBelow(n)
  BY DEF DentryBelow
<1>4. Append(nd[d].dentries, e) \in Seq(DentryBelow(n))
  <2> HIDE DEF e
  <2> QED BY <1>2, <1>3, AppendProperties DEF FileBelow
<1>5. /\ f \in FileBelow(n) /\ f.type = nd[d].type
      /\ f.nlink = nd[d].nlink /\ f.target = nd[d].target
  BY <1>2, <1>4 DEF FileBelow
<1>6. CASE d = 0
  BY <1>6 DEF Push, SameStat
<1>7. CASE d # 0
  <2>1. Push(nd, d, s, i) = [nd EXCEPT ![d] = f]
    BY <1>1, <1>7 DEF Push, TableBelow
  <2> HIDE DEF f
  <2>2. /\ TableBelow([nd EXCEPT ![d] = f], n)
        /\ [nd EXCEPT ![d] = f][d] = f
        /\ \A j \in Ino : j # d => [nd EXCEPT ![d] = f][j] = nd[j]
    BY <1>1, <1>5, ReplaceFile
  <2>3. SameStat(nd, [nd EXCEPT ![d] = f])
    BY <1>5, <2>2 DEF SameStat
  <2> QED
    BY <2>1, <2>2, <2>3
<1> QED
  BY <1>6, <1>7

LEMMA RemoveAtInSeq ==
  ASSUME NEW S, NEW s \in Seq(S), NEW k \in DOMAIN s
  PROVE  RemoveAt(s, k) \in Seq(S)
<1>1. k \in 1..Len(s) /\ Len(s) \in Nat
  BY LenProperties
<1>2. SubSeq(s, 1, k - 1) \in Seq(S)
  BY <1>1, SubSeqProperties
<1>3. SubSeq(s, k + 1, Len(s)) \in Seq(S)
  BY <1>1, SubSeqProperties
<1> QED
  BY <1>2, <1>3, ConcatProperties DEF RemoveAt

LEMMA RemoveDentryKeeps ==
  ASSUME NEW n \in Count, NEW nd, TableBelow(nd, n), NEW d \in Ino,
         NEW hits, hits \subseteq DOMAIN nd[d].dentries
  PROVE  /\ TableBelow(RemoveDentry(nd, d, hits), n)
         /\ SameStat(nd, RemoveDentry(nd, d, hits))
<1>1. CASE hits = {}
  BY <1>1 DEF RemoveDentry, SameStat
<1>2. CASE hits # {}
  <2> DEFINE f == [nd[d] EXCEPT !.dentries = RemoveAt(@, Min(hits))]
  <2>1. nd[d] \in FileBelow(n) /\ nd[d].dentries \in Seq(DentryBelow(n))
    BY DEF TableBelow, FileBelow
  <2>2. hits \in SUBSET Nat
    BY <2>1, LenProperties
  <2>3. Min(hits) \in DOMAIN nd[d].dentries
    BY <1>2, <2>2, MinIsMember
  <2>4. d < n
    <3>1. SUFFICES ASSUME d >= n PROVE FALSE
      BY IlistAssumption DEF Count, ROOT, Ino
    <3>2. nd[d].dentries = <<>>
      BY <3>1 DEF TableBelow, Blank
    <3> QED
      BY <2>3, <3>2
  <2>5. /\ f \in FileBelow(n) /\ f.type = nd[d].type
        /\ f.nlink = nd[d].nlink /\ f.target = nd[d].target
    BY <2>1, <2>3, RemoveAtInSeq DEF FileBelow
  <2>6. RemoveDentry(nd, d, hits) = [nd EXCEPT ![d] = f]
    BY <1>2 DEF RemoveDentry, TableBelow
  <2> HIDE DEF f
  <2>7. /\ TableBelow([nd EXCEPT ![d] = f], n)
        /\ [nd EXCEPT ![d] = f][d] = f
        /\ \A j \in Ino : j # d => [nd EXCEPT ![d] = f][j] = nd[j]
    BY <2>4, <2>5, ReplaceFile
  <2>8. SameStat(nd, [nd EXCEPT ![d] = f])
    BY <2>5, <2>7 DEF SameStat
  <2> QED
    BY <2>6, <2>7, <2>8
<1> QED
  BY <1>1, <1>2

LEMMA RemoveKeeps ==
  ASSUME NEW n \in Count, NEW nd, TableBelow(nd, n), NEW d \in Ino, NEW x
  PROVE  /\ TableBelow(RemoveName(nd, d, x), n) /\ SameStat(nd, RemoveName(nd, d, x))
         /\ TableBelow(RemoveIno(nd, d, x), n) /\ SameStat(nd, RemoveIno(nd, d, x))
<1>1. Named(nd, d, x) \subseteq DOMAIN nd[d].dentries
  BY DEF Named
<1>2. Holding(nd, d, x) \subseteq DOMAIN nd[d].dentries
  BY DEF Holding
<1> QED
  BY <1>1, <1>2, RemoveDentryKeeps DEF RemoveName, RemoveIno

LEMMA EraseKeeps ==
  ASSUME NEW n \in Count, NEW nd, TableBelow(nd, n), NEW i \in Ino, i < n,
         nd[i].nlink = 1
  PROVE  /\ TableBelow([nd EXCEPT ![i] = Blank], n)
         /\ OneFile(nd, [nd EXCEPT ![i] = Blank])
<1>1. /\ TableBelow([nd EXCEPT ![i] = Blank], n)
      /\ [nd EXCEPT ![i] = Blank][i] = Blank
      /\ \A j \in Ino : j # i => [nd EXCEPT ![i] = Blank][j] = nd[j]
  BY BlankIsFile, ReplaceFile
<1> QED
  BY <1>1 DEF OneFile

LEMMA LinkKeeps ==
  ASSUME NEW n \in Count, NEW nd, TableBelow(nd, n), NEW i \in Ino, i < n
  PROVE  /\ TableBelow(AddLink(nd, i), n) /\ SameText(nd, AddLink(nd, i))
         /\ TableBelow(DropLink(nd, i), n) /\ OneFile(nd, DropLink(nd, i))
<1> DEFINE up == [nd[i] EXCEPT !.nlink = @ + 1]
           down == [nd[i] EXCEPT !.nlink = @ - 1]
<1>1. nd[i] \in FileBelow(n) /\ nd[i].nlink \in Int
  BY DEF TableBelow, FileBelow
<1>2. /\ up \in FileBelow(n) /\ up.type = nd[i].type /\ up.target = nd[i].target
      /\ down \in FileBelow(n) /\ down.type = nd[i].type /\ down.target = nd[i].target
  BY <1>1 DEF FileBelow
<1>3. \A f \in {up, down} : /\ TableBelow([nd EXCEPT ![i] = f], n)
                            /\ SameText(nd, [nd EXCEPT ![i] = f])
  <2> HIDE DEF up, down
  <2>1. SUFFICES ASSUME NEW f \in {up, down}
                 PROVE  /\ TableBelow([nd EXCEPT ![i] = f], n)
                        /\ SameText(nd, [nd EXCEPT ![i] = f])
    OBVIOUS
  <2>2. f \in FileBelow(n)
    BY <1>2
  <2>3. /\ TableBelow([nd EXCEPT ![i] = f], n)
        /\ [nd EXCEPT ![i] = f][i] = f
        /\ \A j \in Ino : j # i => [nd EXCEPT ![i] = f][j] = nd[j]
    BY <2>2, ReplaceFile
  <2> QED
    BY <1>2, <2>3 DEF SameText
<1>4. AddLink(nd, i) \in {nd, [nd EXCEPT ![i] = up]} /\ SameText(nd, nd)
  BY DEF AddLink, TableBelow, SameText
<1>5. CASE nd[i].nlink = 1
  BY <1>3, <1>4, <1>5, EraseKeeps DEF DropLink
<1>6. CASE nd[i].nlink # 1
  <2>1. DropLink(nd, i) = [nd EXCEPT ![i] = down]
    BY <1>6 DEF DropLink, TableBelow
  <2> HIDE DEF down, up
  <2> QED
    BY <1>3, <1>4, <2>1 DEF SameText, OneFile
<1> QED
  BY <1>5, <1>6

-----------------------------------------------------------------------------
(* The type bits that are stored are a type. *)

LEMMA StoredIsType ==
  /\ \A t, u \in Type : WithBits(t, u) \in Type
  /\ \A t, mode \in Type : Chmoded(t, mode) \in Type
<1>1. \A t, u \in Type : WithBits(t, u) \in Type
  BY DEF WithBits, Type
<1>2. "dir" \in Type
  BY DEF Type
<1> QED
  BY <1>1, <1>2 DEF Chmoded

-----------------------------------------------------------------------------
(* Making an inode: the table of n becomes one of n + 1. *)

LEMMA WithInodeKeeps ==
  ASSUME NEW n \in Count, n <= MaxIno, NEW nd, TableBelow(nd, n), NEW t \in Type
  PROVE  /\ n + 1 \in Count
         /\ TableBelow(WithInode(nd, n, t), n + 1)
         /\ WithInode(nd, n, t)[n] = NewInode(t)
         /\ \A i \in Ino : i < n => WithInode(nd, n, t)[i] = nd[i]
<1> DEFINE f == NewInode(t)
           made == WithInode(nd, n, t)
<1>1. n \in Ino /\ n \in Nat /\ n + 1 \in Count /\ \A i \in Ino : i \in Nat
  BY IlistAssumption DEF Count, ROOT, Ino
<1>2. f \in FileBelow(n + 1) /\ f.type = t
  BY NewInodeIsFile
<1>3. ASSUME NEW g \in FileBelow(n) PROVE g \in FileBelow(n + 1)
  <2>1. DentryBelow(n) \subseteq DentryBelow(n + 1)
    BY <1>1 DEF DentryBelow
  <2>2. Seq(DentryBelow(n)) \subseteq Seq(DentryBelow(n + 1))
    BY <2>1, SeqMonotonic
  <2> QED
    BY <2>2 DEF FileBelow
<1>4. made = [nd EXCEPT ![n] = f]
  BY DEF WithInode
<1>5. nd \in [Ino -> FileBelow(n + 1)]
  BY <1>3 DEF TableBelow
<1> HIDE DEF f, made
<1>6. made \in [Ino -> FileBelow(n + 1)] /\ made[n] = f
  BY <1>1, <1>2, <1>4, <1>5
<1>7. \A i \in Ino \ {n} : made[i] = nd[i]
  BY <1>4, <1>5
<1>8. \A i \in Ino : i >= n + 1 => made[i] = Blank
  BY <1>1, <1>7 DEF TableBelow
<1>9. TableBelow(made, n + 1)
  BY <1>6, <1>8 DEF TableBelow
<1> QED
  BY <1>1, <1>6, <1>7, <1>9 DEF made, f

LEMMA WithDentriesKeeps ==
  ASSUME NEW n \in Count, NEW nd, TableBelow(nd, n),
         NEW i \in 0..(n - 1), NEW p \in Path
  PROVE  /\ TableBelow(WithDentries(nd, i, p), n)
         /\ SameStat(nd, WithDentries(nd, i, p))
<1> DEFINE up == Find(nd, ParentPath(p))
           linked == Push(nd, up, TailName(p), i)
           dot == Push(linked, i, ".", i)
           dotdot == Push(dot, i, "..", up)
<1>1. up \in 0..(n - 1)
  BY FindRange, PathParts
<1>2. TailName(p) \in Segment /\ "." \in Segment /\ ".." \in Segment
  BY TailIsSegment DEF Segment
<1>3. TableBelow(linked, n) /\ SameStat(nd, linked)
  BY <1>1, <1>2, PushKeeps
<1> HIDE DEF linked
<1>4. TableBelow(dot, n) /\ SameStat(linked, dot)
  BY <1>2, <1>3, PushKeeps
<1> HIDE DEF dot
<1>5. TableBelow(dotdot, n) /\ SameStat(dot, dotdot)
  BY <1>1, <1>2, <1>4, PushKeeps
<1>6. SameStat(nd, dotdot)
  <2> HIDE DEF dotdot
  <2> QED BY <1>3, <1>4, <1>5 DEF SameStat
<1>7. WithDentries(nd, i, p) \in {linked, dotdot}
  BY DEF WithDentries, linked, dot, dotdot
<1> QED
  BY <1>3, <1>5, <1>6, <1>7

(* No file numbered below n gets another type or another text. *)
TextBelow(nd, md, n) ==
  \A i \in Ino : i < n => md[i].type = nd[i].type /\ md[i].target = nd[i].target

LEMMA MknodKeeps ==
  ASSUME NEW n \in Count, n <= MaxIno, NEW nd, TableBelow(nd, n),
         NEW t \in Type, NEW p \in Path
  PROVE  /\ n + 1 \in Count
         /\ TableBelow(Mknod(nd, n, p, t), n + 1)
         /\ Mknod(nd, n, p, t)[n].type = t
         /\ TextBelow(nd, Mknod(nd, n, p, t), n)
<1> DEFINE made == WithInode(nd, n, t)
           full == WithDentries(made, n, p)
<1>1. /\ n + 1 \in Count
      /\ TableBelow(made, n + 1)
      /\ made[n].type = t
      /\ \A i \in Ino : i < n => made[i] = nd[i]
  BY WithInodeKeeps, NewInodeIsFile
<1>2. n \in 0..((n + 1) - 1) /\ n \in Ino
  BY IlistAssumption DEF Count, ROOT, Ino
<1> HIDE DEF made
<1>3. TableBelow(full, n + 1) /\ SameStat(made, full)
  BY <1>1, <1>2, WithDentriesKeeps
<1> HIDE DEF full
<1>4. Mknod(nd, n, p, t) \in {made, full}
  BY DEF Mknod, made, full
<1>5. full[n].type = t /\ TextBelow(nd, full, n)
  BY <1>1, <1>2, <1>3 DEF SameStat, TextBelow
<1>6. made[n].type = t /\ TextBelow(nd, made, n)
  BY <1>1 DEF TextBelow
<1> QED
  BY <1>1, <1>3, <1>4, <1>5, <1>6

-----------------------------------------------------------------------------
(* What the path of a new link finds where the first d_ino of a directory  *)
(* survives: the file made for it, or none.                                *)

(* nd, which has no file 0, before the making of file n by path q, and md  *)
(* after it.                                                               *)
Makes(nd, md, n, q) ==
  /\ n \in Count /\ n <= MaxIno /\ TableBelow(nd, n) /\ nd[0].type = "none"
  /\ md = Mknod(nd, n, q, "reg")

LEMMA AppendedLookup ==
  ASSUME NEW nd, NEW md, NEW d \in Ino, NEW s, NEW D, NEW e \in D,
         nd[d].dentries \in Seq(D),
         md[d].dentries = Append(nd[d].dentries, e), FirstSurvives
  PROVE  Lookup(md, s, d) \in {Lookup(nd, s, d), e.ino}
<1> DEFINE t == nd[d].dentries
           L == Len(t)
           old == Named(nd, d, s)
           new == Named(md, d, s)
<1>1. /\ L \in Nat /\ DOMAIN t = 1..L
      /\ md[d].dentries \in Seq(D) /\ DOMAIN md[d].dentries = 1..(L + 1)
      /\ \A k \in 1..L : md[d].dentries[k] = t[k]
      /\ md[d].dentries[L + 1] = e
  <2>1. /\ Append(t, e) \in Seq(D) /\ Len(Append(t, e)) = L + 1
        /\ \A k \in 1..L : Append(t, e)[k] = t[k]
        /\ Append(t, e)[L + 1] = e
    BY AppendProperties
  <2> QED
    BY <2>1, LenProperties
<1>2. old \in SUBSET (1..L) /\ new \in SUBSET (1..(L + 1))
  BY <1>1 DEF Named
<1>3. \A k \in 1..L : k \in old <=> k \in new
  BY <1>1 DEF Named
<1>4. \A k \in 1..(L + 1) : k \in 1..L \/ k = L + 1
  BY <1>1
<1> HIDE DEF old, new, L
<1>5. old \in SUBSET Nat /\ new \in SUBSET Nat
  BY <1>1, <1>2
<1>6. CASE old # {}
  <2>1. Min(old) \in old /\ \A k \in old : Min(old) <= k
    BY <1>5, <1>6, MinIsMember
  <2>2. Min(old) \in new /\ Min(old) \in 1..L
    BY <1>2, <1>3, <2>1
  <2>3. Min(new) \in new /\ \A k \in new : Min(new) <= k
    BY <1>5, <2>2, MinIsMember
  <2>4. Min(new) <= Min(old) /\ Min(new) \in 1..(L + 1)
    BY <1>2, <2>2, <2>3
  <2>5. Min(new) \in 1..L
    BY <1>1, <2>2, <2>4
  <2>6. Min(old) <= Min(new)
    BY <1>3, <2>1, <2>3, <2>5
  <2>7. Min(old) = Min(new)
    BY <1>1, <2>2, <2>4, <2>5, <2>6
  <2>8. Lookup(md, s, d) = md[d].dentries[Min(new)].ino
    BY <2>2 DEF Lookup, new
  <2>9. Lookup(nd, s, d) = nd[d].dentries[Min(old)].ino
    BY <1>6 DEF Lookup, old
  <2> QED
    BY <1>1, <2>5, <2>7, <2>8, <2>9
<1>7. CASE old = {}
  <2>1. CASE new = {}
    BY <1>7, <2>1 DEF Lookup, old, new
  <2>2. CASE new # {}
    <3>1. Min(new) \in new
      BY <1>5, <2>2, MinIsMember
    <3>2. Min(new) = L + 1
      BY <1>2, <1>3, <1>4, <1>7, <3>1
    <3>3. Lookup(md, s, d) = md[d].dentries[Min(new)].ino
      BY <2>2 DEF Lookup, new
    <3> QED
      BY <1>1, <3>2, <3>3
  <2> QED
    BY <2>1, <2>2
<1> QED
  BY <1>6, <1>7

LEMMA StepAfterMaking ==
  ASSUME NEW nd, NEW md, NEW n, NEW q \in Path, Makes(nd, md, n, q), FirstSurvives
  PROVE  /\ \A d \in 0..(n - 1) : \A s : /\ Step(nd, d, s) \in 0..(n - 1)
                                         /\ Step(md, d, s) \in {Step(nd, d, s), n}
         /\ \A s : Step(md, n, s) = 0 /\ Step(md, 0, s) = 0
<1> DEFINE made == WithInode(nd, n, "reg")
           up == Find(made, ParentPath(q))
           e == [name |-> TailName(q), ino |-> n]
<1>1. /\ n \in Count /\ n <= MaxIno /\ TableBelow(nd, n)
      /\ n \in Ino /\ n \in Nat /\ n >= 3 /\ 0 \in Ino /\ 0 \in 0..(n - 1)
      /\ \A d \in 0..(n - 1) : d \in Ino /\ d < n /\ d # n
  BY IlistAssumption DEF Makes, Count, ROOT, Ino
<1>2. "reg" \in Type
  BY DEF Type
<1>3. /\ n + 1 \in Count /\ TableBelow(made, n + 1)
      /\ made[n].type = "reg" /\ made[0].type = "none"
      /\ \A d \in 0..(n - 1) : made[d] = nd[d]
  <2>1. /\ n + 1 \in Count
        /\ TableBelow(WithInode(nd, n, "reg"), n + 1)
        /\ WithInode(nd, n, "reg")[n] = NewInode("reg")
        /\ \A i \in Ino : i < n => WithInode(nd, n, "reg")[i] = nd[i]
    BY <1>1, <1>2, WithInodeKeeps
  <2>2. NewInode("reg").type = "reg"
    BY DEF NewInode
  <2>3. \A d \in 0..(n - 1) : made[d] = nd[d]
    BY <1>1, <2>1
  <2>4. made[0] = nd[0]
    BY <1>1, <2>3
  <2> HIDE DEF made
  <2>5. made[0].type = "none"
    BY <2>4 DEF Makes
  <2> QED
    BY <2>1, <2>2, <2>3, <2>5 DEF made
<1> HIDE DEF made
<1>4. up \in Ino /\ TailName(q) \in Segment /\ e \in [name: Segment, ino: Ino]
  BY <1>1, <1>3, FindRange, PathParts, TailIsSegment
<1>5. md \in {made, Push(made, up, TailName(q), n)}
  BY <1>3 DEF Makes, Mknod, WithDentries, made
<1> DEFINE Has(d) == \/ md[d].dentries = made[d].dentries
                     \/ md[d].dentries = Append(made[d].dentries, e)
<1>6. \A d \in Ino : md[d].type = made[d].type /\ Has(d)
  <2>1. CASE md = made
    BY <2>1
  <2>2. CASE up # 0 /\ md = Push(made, up, TailName(q), n)
    <3>1. md = [made EXCEPT ![up].dentries = Append(@, e)]
      BY <2>2 DEF Push
    <3>2. made \in [Ino -> FileBelow(n + 1)]
      BY <1>3 DEF TableBelow
    <3> HIDE DEF up, e
    <3>3. made[up] \in FileBelow(n + 1)
      BY <1>4, <3>2
    <3>4. md[up] = [made[up] EXCEPT !.dentries = Append(@, e)]
      BY <1>4, <3>1, <3>2
    <3>5. md[up].type = made[up].type /\ md[up].dentries = Append(made[up].dentries, e)
      BY <3>3, <3>4 DEF FileBelow
    <3>6. \A d \in Ino : d # up => md[d] = made[d]
      BY <1>4, <3>1, <3>2
    <3> QED
      BY <3>5, <3>6
  <2> QED
    BY <1>5, <2>1, <2>2 DEF Push
<1> HIDE DEF up
<1>7. \A s : Step(md, n, s) = 0 /\ Step(md, 0, s) = 0
  BY <1>1, <1>3, <1>6 DEF Step
<1>8. ASSUME NEW d \in 0..(n - 1), NEW s
      PROVE  Step(nd, d, s) \in 0..(n - 1) /\ Step(md, d, s) \in {Step(nd, d, s), n}
  <2>1. Lookup(nd, s, d) \in 0..(n - 1) /\ Step(nd, d, s) \in 0..(n - 1)
    BY <1>1, LookupRange DEF Step
  <2>2. d \in Ino /\ md[d].type = nd[d].type /\ made[d] = nd[d] /\ Has(d)
    BY <1>1, <1>3, <1>6
  <2>3. Lookup(md, s, d) \in {Lookup(nd, s, d), n}
    <3>1. CASE md[d].dentries = nd[d].dentries
      BY <3>1 DEF Lookup, Named
    <3>2. CASE md[d].dentries = Append(nd[d].dentries, e)
      <4>1. nd[d].dentries \in Seq(DentryBelow(n + 1))
        BY <1>3, <2>2 DEF TableBelow, FileBelow
      <4>2. e \in DentryBelow(n + 1) /\ e.ino = n
        BY <1>1, <1>4 DEF DentryBelow
      <4> HIDE DEF e
      <4>3. Lookup(md, s, d) \in {Lookup(nd, s, d), e.ino}
        BY <2>2, <3>2, <4>1, <4>2, AppendedLookup
      <4> QED
        BY <4>2, <4>3
    <3> QED
      BY <2>2, <3>1, <3>2
  <2> QED
    BY <2>1, <2>2, <2>3 DEF Step
<1> QED
  BY <1>7, <1>8

LEMMA WalkAfterMaking ==
  ASSUME NEW nd, NEW md, NEW n, NEW q \in Path, Makes(nd, md, n, q), FirstSurvives,
         NEW r \in Seq(Segment)
  PROVE  FindReal(md, r) \in {FindReal(nd, r), 0, n}
<1>1. PICK v : Walks(nd, r, v, Len(r)) /\ FindReal(nd, r) = v[Len(r)]
  BY FindRealWalks
<1>2. PICK w : Walks(md, r, w, Len(r)) /\ FindReal(md, r) = w[Len(r)]
  BY FindRealWalks
<1>3. Len(r) \in Nat /\ n \in Nat /\ ROOT \in 0..(n - 1) /\ 0 \in 0..(n - 1)
  BY IlistAssumption DEF Makes, Count, ROOT
<1> DEFINE Good(x, y) == x \in 0..(n - 1) /\ y \in {x, 0, n}
           S == {k \in 0..Len(r) : ~ Good(v[k], w[k])}
<1>4. SUFFICES ASSUME S # {} PROVE FALSE
  BY <1>1, <1>2, <1>3
<1>5. PICK k \in S : \A j \in S : k <= j
  <2>1. S \in SUBSET Nat
    OBVIOUS
  <2> HIDE DEF S
  <2> QED BY <1>4, <2>1, MinIsMember
<1>6. Good(v[0], w[0])
  BY <1>1, <1>2, <1>3 DEF Walks
<1>7. k \in 0..Len(r) /\ ~ Good(v[k], w[k])
  BY <1>5
<1>8. k - 1 \in 0..Len(r) /\ k \in 1..Len(r) /\ ~ (k <= k - 1)
  BY <1>3, <1>6, <1>7
<1>9. Good(v[k - 1], w[k - 1])
  BY <1>5, <1>8
<1>10. v[k] = Go(nd, v[k - 1], r[k]) /\ w[k] = Go(md, w[k - 1], r[k])
  BY <1>1, <1>2, <1>8 DEF Walks
<1>11. ASSUME NEW x, NEW y, NEW s, Good(x, y)
       PROVE  Good(Go(nd, x, s), Go(md, y, s))
  <2>1. /\ Step(nd, x, s) \in 0..(n - 1) /\ Step(md, x, s) \in {Step(nd, x, s), n}
        /\ Step(md, n, s) = 0 /\ Step(md, 0, s) = 0
    BY <1>11, StepAfterMaking
  <2> QED
    BY <1>11, <2>1 DEF Go
<1> HIDE DEF Good, S
<1> QED
  BY <1>7, <1>9, <1>10, <1>11

LEMMA NewLinkFound ==
  ASSUME NEW nd, NEW md, NEW n, NEW q \in Path, Makes(nd, md, n, q), FirstSurvives,
         Find(nd, q) = 0
  PROVE  Find(md, q) \in {0, n}
<1> DEFINE x == FindReal(nd, q)
           y == FindReal(md, q)
<1>1. /\ n \in Count /\ n <= MaxIno /\ TableBelow(nd, n) /\ nd[0].type = "none"
      /\ q \in Seq(Segment) /\ 0 < n /\ 0 \in Ino
  BY IlistAssumption DEF Makes, Path, Count, ROOT, Ino
<1>2. /\ md[n].type = "reg"
      /\ \A i \in Ino : i < n => md[i].type = nd[i].type /\ md[i].target = nd[i].target
  <2>1. "reg" \in Type
    BY DEF Type
  <2>2. /\ n + 1 \in Count
        /\ TableBelow(Mknod(nd, n, q, "reg"), n + 1)
        /\ Mknod(nd, n, q, "reg")[n].type = "reg"
        /\ TextBelow(nd, Mknod(nd, n, q, "reg"), n)
    BY <1>1, <2>1, MknodKeeps
  <2> QED
    BY <2>2 DEF Makes, TextBelow
<1>3. x \in 0..(n - 1) /\ x \in Ino /\ x < n
  BY <1>1, FindRealRange, IlistAssumption DEF Count, ROOT, Ino
<1>4. y \in {x, 0, n}
  BY <1>1, WalkAfterMaking
<1> HIDE DEF x, y
<1>5. CASE y = n
  BY <1>2, <1>5 DEF Find, y
<1>6. CASE y = 0
  BY <1>1, <1>2, <1>6 DEF Find, y
<1>7. CASE y = x /\ x # 0
  <2>1. nd[x].type = "lnk" /\ FindReal(nd, nd[x].target) = 0
    BY <1>7 DEF Find, x
  <2>2. nd[x].target \in Seq(Segment)
    BY <1>1, <1>3, EmptySeq DEF TableBelow, FileBelow, Path
  <2>3. FindReal(md, nd[x].target) \in {0, n}
    BY <2>1, <2>2, WalkAfterMaking
  <2>4. Find(md, q) = FindReal(md, nd[x].target)
    BY <1>2, <1>3, <1>7, <2>1 DEF Find, y
  <2> QED
    BY <2>3, <2>4
<1> QED
  BY <1>4, <1>5, <1>6, <1>7

-----------------------------------------------------------------------------
(* The inductive invariant, and the step. *)

HeldBelow(h, n) == h \in [Ino -> Nat] /\ \A i \in Ino : i >= n => h[i] = 0

IInv == /\ count \in Count
        /\ TableBelow(entry, count)
        /\ HeldBelow(held, count)
        /\ entry[0].type = "none"

LEMMA InitIInv == Init => IInv
<1> SUFFICES ASSUME Init PROVE IInv
  OBVIOUS
<1> DEFINE void == [i \in Ino |-> Blank]
           rooted == [void EXCEPT ![ROOT] = NewInode("dir")]
<1>1. /\ count = 3 /\ count \in Count
      /\ ROOT \in Ino /\ ROOT \in 0..(count - 1) /\ 0 \in Ino /\ ROOT # 0
  BY IlistAssumption DEF Init, Count, ROOT, Ino
<1>2. Blank \in FileBelow(count) /\ Blank.type = "none"
  BY BlankIsFile
<1>3. TableBelow(rooted, count) /\ rooted[0].type = "none"
  <2>1. NewInode("dir") \in FileBelow(count)
    BY NewInodeIsFile DEF Type
  <2>2. rooted \in [Ino -> FileBelow(count)]
    BY <1>2, <2>1
  <2>3. \A i \in Ino \ {ROOT} : rooted[i] = Blank
    BY <1>1
  <2> HIDE DEF rooted
  <2>4. \A i \in Ino : i >= count => rooted[i] = Blank
    BY <1>1, <2>3 DEF ROOT
  <2> QED
    BY <1>1, <1>2, <2>2, <2>3, <2>4 DEF TableBelow
<1>4. WithInode(void, ROOT, "dir") = rooted
  BY DEF WithInode
<1>5. "." \in Segment /\ ".." \in Segment
  BY DEF Segment
<1> HIDE DEF void, rooted
<1> DEFINE dot == Push(rooted, ROOT, ".", ROOT)
<1>6. TableBelow(dot, count) /\ SameStat(rooted, dot)
  BY <1>1, <1>3, <1>5, PushKeeps
<1> HIDE DEF dot
<1> DEFINE dotdot == Push(dot, ROOT, "..", ROOT)
<1>7. TableBelow(dotdot, count) /\ SameStat(dot, dotdot)
  BY <1>1, <1>5, <1>6, PushKeeps
<1>8. entry = dotdot
  BY <1>4 DEF Init, InitialTable, dot, void
<1> HIDE DEF dotdot
<1>9. entry[0].type = "none"
  BY <1>1, <1>3, <1>6, <1>7, <1>8 DEF SameStat
<1> QED
  BY <1>1, <1>7, <1>8, <1>9 DEF IInv, Init, HeldBelow

(* What a step does to a file numbered before it.  The files of Changed    *)
(* are the one a chmod leads to and, where the first d_ino of a directory  *)
(* is lost, the one of the stray number, which my_symlink may write.       *)
Changed(i) ==
  \/ ~ FirstSurvives
  \/ /\ \E p \in Paths : Find(entry, p) = i
     /\ \E t \in Type : entry' = [entry EXCEPT ![i].type = t]

OldFiles ==
  \A i \in Ino : i < count =>
    \/ entry'[i].type = entry[i].type /\ entry'[i].target = entry[i].target
    \/ entry[i].nlink = 1 /\ entry'[i] = Blank
    \/ i # 0 /\ Changed(i)

StepKeeps == IInv' /\ OldFiles

LEMMA HeldBelowNext ==
  ASSUME IInv
  PROVE  HeldBelow(held, count + 1)
<1>1. count \in Nat /\ \A i \in Ino : i \in Nat
  BY IlistAssumption DEF IInv, Count, ROOT, Ino
<1> QED
  BY <1>1 DEF IInv, HeldBelow

(* File 0 stays what it is in any step that keeps to OldFiles. *)
LEMMA StepIs0 ==
  ASSUME IInv, count' \in Count, TableBelow(entry', count'),
         HeldBelow(held', count'), OldFiles
  PROVE  StepKeeps
<1>1. 0 \in Ino /\ 0 < count
  BY IlistAssumption DEF IInv, Count, ROOT, Ino
<1>2. entry'[0].type = "none"
  BY <1>1, BlankIsFile DEF IInv, OldFiles
<1> QED
  BY <1>2 DEF IInv, StepKeeps

(* Steps that make no inode and leave the handles alone. *)
LEMMA EditStep ==
  ASSUME IInv, TableBelow(entry', count), OneFile(entry, entry'),
         UNCHANGED <<count, held>>
  PROVE  StepKeeps
<1>1. OldFiles
  BY DEF OldFiles, OneFile
<1>2. count' \in Count /\ TableBelow(entry', count') /\ HeldBelow(held', count')
  BY DEF IInv
<1> QED
  BY <1>1, <1>2, StepIs0

LEMMA StutterStep ==
  ASSUME IInv, UNCHANGED vars
  PROVE  StepKeeps
BY DEF IInv, StepKeeps, OldFiles, vars

LEMMA MakeStep ==
  ASSUME IInv, NEW p \in Path, NEW t \in Type, Make(p, t)
  PROVE  StepKeeps
<1>1. count \in Count /\ count <= MaxIno /\ TableBelow(entry, count)
  BY DEF IInv, Make
<1>2. /\ count + 1 \in Count
      /\ TableBelow(entry', count + 1)
      /\ TextBelow(entry, entry', count)
  BY <1>1, MknodKeeps DEF Make
<1>3. OldFiles
  BY <1>2 DEF OldFiles, TextBelow
<1>4. count' = count + 1 /\ HeldBelow(held', count')
  BY HeldBelowNext DEF Make
<1> QED
  BY <1>2, <1>3, <1>4, StepIs0

LEMMA SymlinkStep ==
  ASSUME IInv, NEW p \in Path, NEW q \in Path, Symlink(p, q)
  PROVE  StepKeeps
<1>1. CASE UNCHANGED vars
  BY <1>1, StutterStep
<1>2. CASE /\ Find(entry, q) = 0
           /\ count <= MaxIno
           /\ entry' = WithLink(entry, p, q)
           /\ count' = count + 1
           /\ UNCHANGED held
  <2> DEFINE made == Mknod(entry, count, q, "reg")
             fh == Find(made, q)
             bits == Chmoded(made[fh].type, WithBits(made[fh].type, "lnk"))
             text == IF made[fh].type = "reg" THEN p ELSE made[fh].target
             f == [made[fh] EXCEPT !.type = bits, !.target = text]
  <2>1. count \in Count /\ TableBelow(entry, count) /\ entry[0].type = "none"
    BY DEF IInv
  <2>2. "reg" \in Type /\ "lnk" \in Type
    BY DEF Type
  <2>3. /\ count + 1 \in Count
        /\ TableBelow(made, count + 1)
        /\ TextBelow(entry, made, count)
    BY <1>2, <2>1, <2>2, MknodKeeps
  <2>4. count \in Ino /\ count \in Nat /\ \A i \in Ino : i \in Nat
    BY <1>2, <2>1, IlistAssumption DEF Count, ROOT, Ino
  <2>5. FirstSurvives => fh \in {0, count}
    <3> HIDE DEF fh
    <3>1. Makes(entry, made, count, q)
      BY <1>2, <2>1 DEF Makes
    <3> QED
      BY <1>2, <3>1, NewLinkFound DEF fh
  <2>6. q \in Seq(Segment)
    BY DEF Path
  <2> HIDE DEF made
  <2>7. fh \in 0..count /\ fh \in Ino /\ fh < count + 1
    <3>1. Find(made, q) \in 0..((count + 1) - 1) /\ Find(made, q) \in Ino
      BY <2>3, <2>6, FindRange
    <3> QED
      BY <2>4, <3>1
  <2>8. entry' = IF fh = 0 THEN made
                 ELSE [made EXCEPT ![fh].type = Chmoded(@, WithBits(@, "lnk")),
                                   ![fh].target = text]
    BY <1>2 DEF WithLink, made
  <2> HIDE DEF fh
  <2>9. made[fh] \in FileBelow(count + 1) /\ made \in [Ino -> FileBelow(count + 1)]
    BY <2>3, <2>7 DEF TableBelow
  <2>10. made[fh].type \in Type /\ made[fh].target \in Path \cup {<<>>}
    BY <2>9 DEF FileBelow
  <2>11. bits \in Type /\ text \in Path \cup {<<>>}
    BY <2>2, <2>10, StoredIsType
  <2>12. f \in FileBelow(count + 1)
    <3> HIDE DEF bits, text
    <3> QED
      BY <2>9, <2>11 DEF FileBelow
  <2>13. CASE fh = 0
    <3>1. entry' = made
      BY <2>8, <2>13
    <3>2. OldFiles
      BY <2>3, <3>1 DEF OldFiles, TextBelow
    <3>3. count' \in Count /\ TableBelow(entry', count') /\ HeldBelow(held', count')
      BY <1>2, <2>3, <3>1, HeldBelowNext
    <3> QED
      BY <3>2, <3>3, StepIs0
  <2>14. CASE fh # 0
    <3>1. entry' = [made EXCEPT ![fh] = f]
      BY <2>8, <2>9, <2>14
    <3> HIDE DEF f
    <3>2. /\ TableBelow(entry', count + 1)
          /\ \A j \in Ino : j # fh => entry'[j] = made[j]
      <4>1. /\ TableBelow([made EXCEPT ![fh] = f], count + 1)
            /\ \A j \in Ino : j # fh => [made EXCEPT ![fh] = f][j] = made[j]
        BY <2>3, <2>7, <2>12, ReplaceFile
      <4> QED
        BY <3>1, <4>1
    <3>3. OldFiles
      <4>1. SUFFICES ASSUME NEW i \in Ino, i < count, ~ (i # 0 /\ Changed(i))
                     PROVE  /\ entry'[i].type = entry[i].type
                            /\ entry'[i].target = entry[i].target
        BY DEF OldFiles
      <4>2. i # fh
        BY <2>4, <2>5, <2>14, <4>1 DEF Changed
      <4>3. entry'[i] = made[i]
        BY <3>2, <4>2
      <4> QED
        BY <2>3, <4>1, <4>3 DEF TextBelow
    <3>4. count' \in Count /\ TableBelow(entry', count') /\ HeldBelow(held', count')
      BY <1>2, <2>3, <3>2, HeldBelowNext
    <3> QED
      BY <3>3, <3>4, StepIs0
  <2> QED
    BY <2>13, <2>14
<1> QED
  BY <1>1, <1>2 DEF Symlink, Fails

LEMMA LinkStep ==
  ASSUME IInv, NEW p \in Path, NEW q \in Path, Link(p, q)
  PROVE  StepKeeps
<1> DEFINE fh == Find(entry, p)
           up == Find(entry, ParentPath(q))
           md == AddLink(entry, fh)
           ld == Push(md, up, TailName(q), fh)
<1>1. CASE UNCHANGED vars
  BY <1>1, StutterStep
<1>2. CASE entry' = ld /\ UNCHANGED <<count, held>>
  <2>1. count \in Count /\ TableBelow(entry, count)
    BY DEF IInv
  <2>2. fh \in 0..(count - 1) /\ fh \in Ino /\ up \in 0..(count - 1) /\ fh < count
    BY <2>1, FindRange, PathParts DEF Count
  <2> HIDE DEF fh, up
  <2>3. TableBelow(md, count) /\ SameText(entry, md)
    BY <2>1, <2>2, LinkKeeps
  <2> HIDE DEF md
  <2>4. TableBelow(ld, count) /\ SameStat(md, ld)
    BY <2>1, <2>2, <2>3, TailIsSegment, PushKeeps
  <2>5. OneFile(entry, entry')
    BY <1>2, <2>3, <2>4 DEF OneFile, SameText, SameStat
  <2> QED
    BY <1>2, <2>4, <2>5, EditStep
<1> QED
  BY <1>1, <1>2 DEF Link, Fails

LEMMA UnlinkStep ==
  ASSUME IInv, NEW p \in Path, Unlink(p)
  PROVE  StepKeeps
<1> DEFINE fh == Find(entry, p)
           up == Find(entry, ParentPath(p))
           md == RemoveName(entry, up, TailName(p))
           ld == DropLink(md, fh)
<1>1. CASE UNCHANGED vars
  BY <1>1, StutterStep
<1>2. CASE entry' = ld /\ UNCHANGED <<count, held>>
  <2>1. count \in Count /\ TableBelow(entry, count)
    BY DEF IInv
  <2>2. fh \in Ino /\ up \in Ino /\ fh < count
    BY <2>1, FindRange, PathParts DEF Count
  <2> HIDE DEF fh, up
  <2>3. TableBelow(md, count) /\ SameStat(entry, md)
    BY <2>1, <2>2, RemoveKeeps
  <2> HIDE DEF md
  <2>4. TableBelow(ld, count) /\ OneFile(md, ld)
    BY <2>1, <2>2, <2>3, LinkKeeps
  <2>5. OneFile(entry, entry')
    BY <1>2, <2>3, <2>4 DEF OneFile, SameStat
  <2> QED
    BY <1>2, <2>4, <2>5, EditStep
<1> QED
  BY <1>1, <1>2 DEF Unlink, Fails

LEMMA RmdirStep ==
  ASSUME IInv, NEW p \in Path, Rmdir(p)
  PROVE  StepKeeps
<1> DEFINE fh == Find(entry, p)
           up == Find(entry, ParentPath(p))
           cut == RemoveIno(entry, up, fh)
           gone == [cut EXCEPT ![fh] = Blank]
<1>1. CASE UNCHANGED vars
  BY <1>1, StutterStep
<1>2. CASE entry' = WithoutDir(entry, up, fh) /\ UNCHANGED <<count, held>>
  <2>1. count \in Count /\ TableBelow(entry, count)
    BY DEF IInv
  <2>2. fh \in Ino /\ up \in Ino /\ fh < count
    BY <2>1, FindRange, PathParts DEF Count
  <2> HIDE DEF fh, up
  <2>3. TableBelow(cut, count) /\ SameStat(entry, cut)
    BY <2>1, <2>2, RemoveKeeps
  <2>4. entry' = IF entry[fh].nlink = 1 THEN gone ELSE cut
    BY <1>2 DEF WithoutDir
  <2> HIDE DEF cut
  <2>5. CASE entry[fh].nlink = 1
    <3>1. cut[fh].nlink = 1
      BY <2>2, <2>3, <2>5 DEF SameStat
    <3>2. TableBelow(gone, count) /\ OneFile(cut, gone)
      BY <2>1, <2>2, <2>3, <3>1, EraseKeeps
    <3> HIDE DEF gone
    <3>3. TableBelow(entry', count) /\ OneFile(entry, entry')
      BY <2>3, <2>4, <2>5, <3>2 DEF OneFile, SameStat
    <3> QED
      BY <1>2, <3>3, EditStep
  <2>6. CASE entry[fh].nlink # 1
    <3>1. TableBelow(entry', count) /\ OneFile(entry, entry')
      BY <2>3, <2>4, <2>6 DEF OneFile, SameStat
    <3> QED
      BY <1>2, <3>1, EditStep
  <2> QED
    BY <2>5, <2>6
<1> QED
  BY <1>1, <1>2 DEF Rmdir, Fails

LEMMA RenameStep ==
  ASSUME IInv, NEW p \in Path, NEW q \in Path, Rename(p, q)
  PROVE  StepKeeps
<1> DEFINE fh == Find(entry, p)
           from == Find(entry, ParentPath(p))
           to == Find(entry, ParentPath(q))
           cleared == IF Step(entry, to, TailName(q)) = 0 THEN entry
                      ELSE RemoveName(entry, to, TailName(q))
           cut == RemoveName(cleared, from, TailName(p))
           md == Push(cut, to, TailName(q), fh)
<1>1. CASE UNCHANGED vars
  BY <1>1, StutterStep
<1>2. CASE entry' = Moved(entry, p, q) /\ UNCHANGED <<count, held>>
  <2>1. count \in Count /\ TableBelow(entry, count)
    BY DEF IInv
  <2>2. /\ fh \in 0..(count - 1)
        /\ from \in Ino
        /\ to \in Ino /\ to \in 0..(count - 1)
    BY <2>1, FindRange, PathParts
  <2>3. entry' = md
    BY <1>2 DEF Moved
  <2> HIDE DEF fh, from, to
  <2>4. TableBelow(cleared, count) /\ SameStat(entry, cleared)
    BY <2>1, <2>2, RemoveKeeps DEF SameStat
  <2> HIDE DEF cleared
  <2>5. TableBelow(cut, count) /\ SameStat(cleared, cut)
    BY <2>1, <2>2, <2>4, RemoveKeeps
  <2> HIDE DEF cut
  <2>6. TableBelow(md, count) /\ SameStat(cut, md)
    BY <2>1, <2>2, <2>5, TailIsSegment, PushKeeps
  <2> HIDE DEF md
  <2>7. OneFile(entry, entry')
    BY <2>3, <2>4, <2>5, <2>6 DEF SameStat, OneFile
  <2> QED
    BY <1>2, <2>3, <2>6, <2>7, EditStep
<1> QED
  BY <1>1, <1>2 DEF Rename, Fails

LEMMA OpenStep ==
  ASSUME IInv, NEW p \in Path, Open(p)
  PROVE  StepKeeps
<1>1. count \in Count /\ TableBelow(entry, count) /\ HeldBelow(held, count)
  BY DEF IInv
<1>2. Find(entry, p) \in Ino /\ Find(entry, p) < count
  BY <1>1, FindRange, PathParts DEF Count
<1>3. TableBelow(entry', count) /\ SameText(entry, entry')
  BY <1>1, <1>2, LinkKeeps DEF Open
<1>4. count' = count /\ held' \in {held, [held EXCEPT ![Find(entry, p)] = @ + 1]}
  BY DEF Open
<1>5. HeldBelow(held', count')
  <2> DEFINE fh == Find(entry, p)
             more == [held EXCEPT ![fh] = @ + 1]
  <2>1. \A i \in Ino : i \in Nat /\ (i >= count => i # fh)
    BY <1>1, <1>2, IlistAssumption DEF Count, ROOT, Ino
  <2>2. more \in [Ino -> Nat] /\ \A i \in Ino \ {fh} : more[i] = held[i]
    <3>1. held \in [Ino -> Nat] /\ fh \in Ino
      BY <1>1, <1>2 DEF HeldBelow
    <3>2. held[fh] + 1 \in Nat
      BY <3>1
    <3> HIDE DEF fh
    <3> QED
      BY <3>1, <3>2
  <2> HIDE DEF fh, more
  <2>3. HeldBelow(more, count)
    BY <1>1, <2>1, <2>2 DEF HeldBelow
  <2> QED
    BY <1>1, <1>4, <2>3 DEF fh, more
<1>6. OldFiles
  BY <1>3 DEF OldFiles, SameText
<1> QED
  BY <1>1, <1>3, <1>4, <1>5, <1>6, StepIs0

LEMMA CloseStep ==
  ASSUME IInv, NEW fh \in Ino, Close(fh)
  PROVE  StepKeeps
<1>1. CASE UNCHANGED vars
  BY <1>1, StutterStep
<1>2. CASE /\ held[fh] > 0
           /\ entry' = DropLink(entry, fh)
           /\ held' = [held EXCEPT ![fh] = @ - 1]
           /\ UNCHANGED count
  <2>1. count \in Count /\ TableBelow(entry, count) /\ HeldBelow(held, count)
    BY DEF IInv
  <2>2. count \in Nat /\ \A i \in Ino : i \in Nat
    BY <2>1, IlistAssumption DEF Count, ROOT, Ino
  <2>3. fh < count
    BY <1>2, <2>1, <2>2 DEF HeldBelow
  <2>4. TableBelow(entry', count) /\ OneFile(entry, entry')
    BY <1>2, <2>1, <2>3, LinkKeeps
  <2>5. held[fh] - 1 \in Nat
    BY <1>2, <2>1 DEF HeldBelow
  <2>6. HeldBelow(held', count')
    BY <1>2, <2>1, <2>2, <2>3, <2>5 DEF HeldBelow
  <2>7. OldFiles
    BY <2>4 DEF OneFile, OldFiles
  <2> QED
    BY <1>2, <2>1, <2>4, <2>6, <2>7, StepIs0
<1> QED
  BY <1>1, <1>2 DEF Close, Fails

LEMMA ChmodStep ==
  ASSUME IInv, NEW p \in Paths, NEW mode \in Modes, Chmod(p, mode)
  PROVE  StepKeeps
<1> DEFINE fh == Find(entry, p)
           t == Chmoded(entry[fh].type, mode)
           f == [entry[fh] EXCEPT !.type = t]
<1>1. CASE UNCHANGED vars
  BY <1>1, StutterStep
<1>2. CASE /\ fh # 0
           /\ entry' = [entry EXCEPT ![fh].type = Chmoded(@, mode)]
           /\ UNCHANGED <<count, held>>
  <2>1. count \in Count /\ TableBelow(entry, count)
    BY DEF IInv
  <2>2. p \in Path /\ mode \in Type
    BY NameSpaceAssumption
  <2>3. fh \in Ino /\ fh < count
    BY <2>1, <2>2, FindRange, PathParts DEF Count, Path
  <2>4. entry' = [entry EXCEPT ![fh].type = t]
    BY <1>2
  <2>5. \E q \in Paths : Find(entry, q) = fh
    OBVIOUS
  <2> HIDE DEF fh
  <2>6. entry[fh] \in FileBelow(count)
    BY <2>1, <2>3 DEF TableBelow
  <2>7. t \in Type
    BY <2>2, <2>6, StoredIsType DEF FileBelow
  <2> HIDE DEF t
  <2>8. f \in FileBelow(count)
    BY <2>6, <2>7 DEF FileBelow
  <2>9. entry' = [entry EXCEPT ![fh] = f]
    BY <2>4
  <2> HIDE DEF f
  <2>10. /\ TableBelow(entry', count)
         /\ \A j \in Ino : j # fh => entry'[j] = entry[j]
    <3>1. /\ TableBelow([entry EXCEPT ![fh] = f], count)
          /\ \A j \in Ino : j # fh => [entry EXCEPT ![fh] = f][j] = entry[j]
      BY <2>1, <2>3, <2>8, ReplaceFile
    <3> QED
      BY <2>9, <3>1
  <2>11. Changed(fh)
    BY <2>4, <2>5, <2>7 DEF Changed
  <2>12. OldFiles
    BY <1>2, <2>10, <2>11 DEF OldFiles
  <2>13. count' \in Count /\ TableBelow(entry', count') /\ HeldBelow(held', count')
    BY <1>2, <2>10 DEF IInv
  <2> QED
    BY <2>12, <2>13, StepIs0
<1> QED
  BY <1>1, <1>2 DEF Chmod, Fails

LEMMA NextStep ==
  ASSUME IInv, [Next]_vars
  PROVE  StepKeeps
<1>1. CASE UNCHANGED vars
  BY <1>1, StutterStep
<1>2. ASSUME NEW p \in Paths, NEW mode \in NewModes, Mkdir(p, mode) \/ Creat(p, mode)
      PROVE  StepKeeps
  <2>1. p \in Path /\ mode \in Type /\ "dir" \in Type /\ "reg" \in Type
    BY NameSpaceAssumption DEF Type
  <2>2. WithBits("dir", mode) \in Type /\ WithBits("reg", mode) \in Type
    BY <2>1, StoredIsType
  <2>3. CASE Mkdir(p, mode)
    BY <2>1, <2>2, <2>3, MakeStep DEF Mkdir
  <2>4. CASE Creat(p, mode)
    BY <2>1, <2>2, <2>4, MakeStep, StutterStep DEF Creat, Fails
  <2> QED
    BY <1>2, <2>3, <2>4
<1>3. ASSUME NEW p \in Paths, Unlink(p) \/ Rmdir(p) \/ Open(p)
      PROVE  StepKeeps
  BY <1>3, NameSpaceAssumption, UnlinkStep, RmdirStep, OpenStep
<1>4. ASSUME NEW p \in Paths, NEW q \in Paths,
             Link(p, q) \/ Symlink(p, q) \/ Rename(p, q)
      PROVE  StepKeeps
  BY <1>4, NameSpaceAssumption, LinkStep, SymlinkStep, RenameStep
<1>5. ASSUME NEW fh \in Ino, Close(fh) PROVE StepKeeps
  BY <1>5, CloseStep
<1>6. ASSUME NEW p \in Paths, NEW mode \in Modes, Chmod(p, mode) PROVE StepKeeps
  BY <1>6, ChmodStep
<1> QED
  BY <1>1, <1>2, <1>3, <1>4, <1>5, <1>6 DEF Next

-----------------------------------------------------------------------------
(* What the invariant gives. *)

LEMMA IInvTypeOK == IInv => TypeOK
<1> SUFFICES ASSUME IInv PROVE TypeOK
  OBVIOUS
<1>1. DentryBelow(count) \subseteq Dentry
  BY IlistAssumption DEF IInv, Count, ROOT, Ino, DentryBelow, Dentry
<1>2. Seq(DentryBelow(count)) \subseteq Seq(Dentry)
  BY <1>1, SeqMonotonic
<1>3. FileBelow(count) \subseteq File
  BY <1>2 DEF FileBelow, File
<1> QED
  BY <1>3 DEF IInv, TypeOK, TableBelow, HeldBelow, Count

LEMMA IInvNoForwardReference == IInv => NoForwardReference
<1> SUFFICES ASSUME IInv, NEW i \in Ino, NEW k \in DOMAIN entry[i].dentries
             PROVE  entry[i].dentries[k].ino < count
  BY DEF IInv, TableBelow, NoForwardReference
<1>1. entry[i].dentries \in Seq(DentryBelow(count))
  BY DEF IInv, TableBelow, FileBelow
<1>2. entry[i].dentries[k] \in DentryBelow(count)
  BY <1>1, ElementOfSeq, LenProperties
<1> QED
  BY <1>2, IlistAssumption DEF DentryBelow, IInv, Count, ROOT

(* Whatever calls are made: the table is one of files, no dentry holds a   *)
(* number that has not been issued, no handle is one, and number 0 never   *)
(* gets a type.                                                            *)
THEOREM Invariance == Spec => []IInv
<1>1. Init => IInv
  BY InitIInv
<1>2. IInv /\ [Next]_vars => IInv'
  BY NextStep DEF StepKeeps
<1> QED
  BY <1>1, <1>2, PTL DEF Spec

(* Every table the calls can make is a table of files, whatever the paths  *)
(* and the type bits of the modes.                                         *)
THEOREM TypeCorrect == Spec => []TypeOK
BY Invariance, IInvTypeOK, PTL

(* No dentry and no phantom entry is ever ahead of the counter of next():  *)
(* a new inode starts with no name but the one my_mknod gives it.          *)
THEOREM NoForwardReferenceHolds == Spec => []NoForwardReference
BY Invariance, IInvNoForwardReference, PTL

(* Where the first d_ino of a freed block survives, a number stands for    *)
(* one file for good: no call gives what was issued before another type or *)
(* text, but by taking it away with its last link or by a chmod of a path  *)
(* that leads there.                                                       *)
THEOREM NumberIsOneFileHolds == Spec => NumberIsOneFile
<1> DEFINE A == FirstSurvives => \A i \in 0..(count - 1) :
       \/ entry'[i].type = entry[i].type /\ entry'[i].target = entry[i].target
       \/ entry[i].nlink = 1 /\ entry'[i] = Blank
       \/ /\ \E p \in Paths : Find(entry, p) = i
          /\ \E t \in Type : entry' = [entry EXCEPT ![i].type = t]
<1>1. IInv /\ [Next]_vars => [A]_vars
  <2> SUFFICES ASSUME IInv, [Next]_vars, FirstSurvives, NEW i \in 0..(count - 1)
               PROVE  \/ /\ entry'[i].type = entry[i].type
                         /\ entry'[i].target = entry[i].target
                      \/ entry[i].nlink = 1 /\ entry'[i] = Blank
                      \/ /\ \E p \in Paths : Find(entry, p) = i
                         /\ \E t \in Type : entry' = [entry EXCEPT ![i].type = t]
    OBVIOUS
  <2>1. OldFiles
    BY NextStep DEF StepKeeps
  <2>2. i \in Ino /\ i < count
    BY IlistAssumption DEF IInv, Count, ROOT, Ino
  <2> QED
    BY <2>1, <2>2 DEF OldFiles, Changed
<1> QED
  BY <1>1, Invariance, PTL DEF Spec, NumberIsOneFile
=============================================================================
