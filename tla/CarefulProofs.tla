---------------------------- MODULE CarefulProofs ----------------------------
(***************************************************************************)
(* Proofs about CarefulCaller: what the inode table is for a caller that   *)
(* keeps to the contract, for every number of inodes, every set of names   *)
(* and paths, and both values of FirstSurvives.                            *)
(***************************************************************************)
EXTENDS CarefulCaller, NameSpaceProofs, FiniteSetTheorems

LEMMA Segments ==
  /\ \A n \in Name : n \in Segment /\ n # "" /\ n # "." /\ n # ".."
  /\ "." \in Segment /\ ".." \in Segment
  /\ \A s \in Segment : s = "" \/ s = "." \/ s = ".." \/ s \in Name
BY NameAssumption DEF Segment

LEMMA Numbers ==
  /\ ROOT \in Ino /\ 0 \in Ino /\ Stray \in Ino
  /\ \A i \in Ino : i \in Nat /\ i <= MaxIno
BY IlistAssumption DEF Ino, ROOT, Stray

-----------------------------------------------------------------------------
(* A table whose directories are what my_mknod, my_link and the removals   *)
(* leave: "." and ".." in front, then names, no two of them the same.  A   *)
(* file of another type has no dentries and a number with no type no file. *)
DirShaped(nd, d) ==
  LET s == nd[d].dentries
  IN /\ Len(s) >= 2
     /\ s[1] = [name |-> ".", ino |-> d] /\ s[2].name = ".."
     /\ \A k \in 3..Len(s) : s[k].name \in Name
     /\ \A k, l \in 3..Len(s) : s[k].name = s[l].name => k = l

Shaped(nd) ==
  /\ nd \in [Ino -> File]
  /\ \A i \in Ino : /\ nd[i].type = "dir" => DirShaped(nd, i)
                    /\ nd[i].type # "dir" => nd[i].dentries = <<>>
                    /\ nd[i].type = "none" => nd[i] = Blank

(* The names of the tree, as the refinement mapping of Tree has them. *)
TreeName(d, e) == [dir |-> d, name |-> e.name, obj |-> e.ino]

TreeNames(nd) == {TreeName(x[1], nd[x[1]].dentries[x[2]]) : x \in NamesIn(nd)}

NamesTo(nd, i) == {x \in TreeNames(nd) : x.obj = i}

Up(nd, d) == nd[d].dentries[2].ino

(* The k-th dentry of d is a name. *)
NameAt(nd, d, k) == /\ d \in Ino /\ nd[d].type = "dir"
                    /\ k \in Nat /\ 3 <= k /\ k <= Len(nd[d].dentries)

LEMMA DentriesAre ==
  ASSUME NEW nd, Shaped(nd), NEW d \in Ino
  PROVE  /\ nd[d] \in File /\ nd[d].dentries \in Seq(Dentry)
         /\ Len(nd[d].dentries) \in Nat
         /\ DOMAIN nd[d].dentries = 1..Len(nd[d].dentries)
         /\ \A k \in 1..Len(nd[d].dentries) : /\ nd[d].dentries[k] \in Dentry
                                              /\ nd[d].dentries[k].ino \in Ino
                                              /\ nd[d].dentries[k].name \in Segment
<1>1. nd[d] \in File /\ nd[d].dentries \in Seq(Dentry)
  BY DEF Shaped, File
<1>2. \A k \in 1..Len(nd[d].dentries) : nd[d].dentries[k] \in Dentry
  BY <1>1, ElementOfSeq
<1> QED
  BY <1>1, <1>2, LenProperties DEF Dentry

LEMMA NamesInAre ==
  ASSUME NEW nd, Shaped(nd)
  PROVE  /\ \A x \in NamesIn(nd) : x = <<x[1], x[2]>> /\ NameAt(nd, x[1], x[2])
         /\ \A d, k : NameAt(nd, d, k) => <<d, k>> \in NamesIn(nd)
<1>1. ASSUME NEW x \in NamesIn(nd)
      PROVE  x = <<x[1], x[2]>> /\ NameAt(nd, x[1], x[2])
  <2>1. PICK i \in Ino : \E k \in DOMAIN nd[i].dentries :
          x = <<i, k>> /\ nd[i].dentries[k].name \notin {".", ".."}
    BY DEF NamesIn
  <2>2. PICK k \in DOMAIN nd[i].dentries :
          x = <<i, k>> /\ nd[i].dentries[k].name \notin {".", ".."}
    BY <2>1
  <2>3. k \in 1..Len(nd[i].dentries) /\ Len(nd[i].dentries) \in Nat
    BY DentriesAre
  <2>4. nd[i].dentries # <<>>
    BY <2>3, EmptySeq
  <2>5. nd[i].type = "dir" /\ DirShaped(nd, i)
    BY <2>4 DEF Shaped
  <2>6. k # 1 /\ k # 2
    BY <2>2, <2>5 DEF DirShaped
  <2> QED
    BY <2>2, <2>3, <2>5, <2>6 DEF NameAt
<1>2. ASSUME NEW d, NEW k, NameAt(nd, d, k)
      PROVE  <<d, k>> \in NamesIn(nd)
  <2>1. d \in Ino /\ k \in DOMAIN nd[d].dentries
    BY <1>2, DentriesAre DEF NameAt
  <2>2. k \in 3..Len(nd[d].dentries) /\ DirShaped(nd, d)
    BY <1>2, DentriesAre DEF NameAt, Shaped
  <2>3. nd[d].dentries[k].name \notin {".", ".."}
    BY <2>2, Segments DEF DirShaped
  <2> DEFINE names == {j \in DOMAIN nd[d].dentries : nd[d].dentries[j].name \notin {".", ".."}}
  <2>4. <<d, k>> \in {<<d, j>> : j \in names}
    BY <2>1, <2>3
  <2> QED
    BY <2>1, <2>4 DEF NamesIn
<1> QED
  BY <1>1, <1>2

LEMMA TreeNamesAre ==
  ASSUME NEW nd, Shaped(nd)
  PROVE  /\ \A x \in TreeNames(nd) : \E d, k : /\ NameAt(nd, d, k)
                                               /\ x = TreeName(d, nd[d].dentries[k])
         /\ \A d, k : NameAt(nd, d, k) => TreeName(d, nd[d].dentries[k]) \in TreeNames(nd)
<1>1. ASSUME NEW x \in TreeNames(nd)
      PROVE  \E d, k : NameAt(nd, d, k) /\ x = TreeName(d, nd[d].dentries[k])
  BY NamesInAre DEF TreeNames
<1>2. ASSUME NEW d, NEW k, NameAt(nd, d, k)
      PROVE  TreeName(d, nd[d].dentries[k]) \in TreeNames(nd)
  <2>1. <<d, k>> \in NamesIn(nd)
    BY <1>2, NamesInAre
  <2>2. <<d, k>>[1] = d /\ <<d, k>>[2] = k
    OBVIOUS
  <2> QED BY <2>1, <2>2 DEF TreeNames
<1> QED
  BY <1>1, <1>2

(* What a name of the tree is, and that a directory has it once. *)
LEMMA NameParts ==
  ASSUME NEW nd, Shaped(nd)
  PROVE  /\ \A x \in TreeNames(nd) :
              /\ x = [dir |-> x.dir, name |-> x.name, obj |-> x.obj]
              /\ x.dir \in Ino /\ nd[x.dir].type = "dir"
              /\ x.name \in Name /\ x.obj \in Ino
              /\ \E k \in Nat : /\ NameAt(nd, x.dir, k)
                                /\ nd[x.dir].dentries[k].name = x.name
                                /\ nd[x.dir].dentries[k].ino = x.obj
         /\ \A x, y \in TreeNames(nd) : x.dir = y.dir /\ x.name = y.name => x = y
<1>1. ASSUME NEW x \in TreeNames(nd)
      PROVE  /\ x = [dir |-> x.dir, name |-> x.name, obj |-> x.obj]
             /\ x.dir \in Ino /\ nd[x.dir].type = "dir"
             /\ x.name \in Name /\ x.obj \in Ino
             /\ \E k \in Nat : /\ NameAt(nd, x.dir, k)
                               /\ nd[x.dir].dentries[k].name = x.name
                               /\ nd[x.dir].dentries[k].ino = x.obj
  <2>1. PICK d, k : NameAt(nd, d, k) /\ x = TreeName(d, nd[d].dentries[k])
    BY TreeNamesAre
  <2>2. /\ x = [dir |-> x.dir, name |-> x.name, obj |-> x.obj]
        /\ x.dir = d /\ x.name = nd[d].dentries[k].name /\ x.obj = nd[d].dentries[k].ino
    BY <2>1 DEF TreeName
  <2>3. /\ d \in Ino /\ nd[d].type = "dir" /\ DirShaped(nd, d)
        /\ k \in Nat /\ k \in 3..Len(nd[d].dentries) /\ k \in 1..Len(nd[d].dentries)
    BY <2>1, DentriesAre DEF NameAt, Shaped
  <2>4. x.name \in Name /\ x.obj \in Ino
    BY <2>2, <2>3, DentriesAre DEF DirShaped
  <2> QED
    BY <2>1, <2>2, <2>3, <2>4
<1>2. ASSUME NEW x \in TreeNames(nd), NEW y \in TreeNames(nd),
             x.dir = y.dir, x.name = y.name
      PROVE  x = y
  <2>1. PICK k \in Nat : /\ NameAt(nd, x.dir, k)
                         /\ nd[x.dir].dentries[k].name = x.name
                         /\ nd[x.dir].dentries[k].ino = x.obj
    BY <1>1
  <2>2. PICK l \in Nat : /\ NameAt(nd, y.dir, l)
                         /\ nd[y.dir].dentries[l].name = y.name
                         /\ nd[y.dir].dentries[l].ino = y.obj
    BY <1>1
  <2>3. k \in 3..Len(nd[x.dir].dentries) /\ l \in 3..Len(nd[x.dir].dentries)
    BY <1>2, <2>1, <2>2, DentriesAre DEF NameAt
  <2>4. DirShaped(nd, x.dir)
    BY <2>1 DEF NameAt, Shaped
  <2>5. k = l
    BY <1>2, <2>1, <2>2, <2>3, <2>4 DEF DirShaped
  <2>6. x.obj = y.obj
    BY <1>2, <2>1, <2>2, <2>5
  <2>7. /\ x = [dir |-> x.dir, name |-> x.name, obj |-> x.obj]
        /\ y = [dir |-> y.dir, name |-> y.name, obj |-> y.obj]
    BY <1>1
  <2> QED
    BY <1>2, <2>6, <2>7
<1> QED
  BY <1>1, <1>2

-----------------------------------------------------------------------------
(* What a walk does at a directory: the names lead to their files, ".." to *)
(* the parent, and "." to the directory or, where the block my_readdir     *)
(* freed has lost its first word, to no file.                              *)

LEMMA OnlyHit ==
  ASSUME NEW nd, Shaped(nd), NEW d \in Ino, nd[d].type = "dir",
         NEW k \in 1..Len(nd[d].dentries)
  PROVE  /\ k \in Named(nd, d, nd[d].dentries[k].name)
         /\ \A j \in Named(nd, d, nd[d].dentries[k].name) : j = k
<1>1. /\ DOMAIN nd[d].dentries = 1..Len(nd[d].dentries)
      /\ Len(nd[d].dentries) \in Nat /\ DirShaped(nd, d)
  BY DentriesAre DEF Shaped
<1>2. ASSUME NEW j \in 1..Len(nd[d].dentries),
             nd[d].dentries[j].name = nd[d].dentries[k].name
      PROVE  j = k
  <2>1. \A i \in 1..Len(nd[d].dentries) : i = 1 \/ i = 2 \/ i \in 3..Len(nd[d].dentries)
    BY <1>1
  <2>2. nd[d].dentries[1].name = "." /\ nd[d].dentries[2].name = ".."
    BY <1>1 DEF DirShaped
  <2>3. \A i \in 3..Len(nd[d].dentries) :
          nd[d].dentries[i].name # "." /\ nd[d].dentries[i].name # ".."
    BY <1>1, Segments DEF DirShaped
  <2>4. ~ ("." = "..")
    OBVIOUS
  <2>5. CASE j \in 3..Len(nd[d].dentries) /\ k \in 3..Len(nd[d].dentries)
    BY <1>1, <1>2, <2>5 DEF DirShaped
  <2> QED
    BY <1>2, <2>1, <2>2, <2>3, <2>4, <2>5
<1> QED
  BY <1>1, <1>2 DEF Named

LEMMA LookupAt ==
  ASSUME NEW nd, Shaped(nd), NEW d \in Ino, nd[d].type = "dir",
         NEW k \in 1..Len(nd[d].dentries)
  PROVE  Step(nd, d, nd[d].dentries[k].name) =
           IF k = 1 /\ ~FirstSurvives THEN Stray ELSE nd[d].dentries[k].ino
<1>0. Named(nd, d, nd[d].dentries[k].name) = {k}
  BY OnlyHit
<1> DEFINE hits == Named(nd, d, nd[d].dentries[k].name)
<1>1. hits = {k} /\ k \in Nat
  BY <1>0, DentriesAre
<1> HIDE DEF hits
<1>2. hits \in SUBSET Nat /\ hits # {}
  BY <1>1
<1>3. Min(hits) = k
  BY <1>1, <1>2, MinIsMember
<1> QED
  BY <1>1, <1>2, <1>3 DEF Step, Lookup, hits

LEMMA StepIs ==
  ASSUME NEW nd, Shaped(nd), NEW d \in Ino, nd[d].type = "dir"
  PROVE  /\ \A x \in TreeNames(nd) : x.dir = d => Step(nd, d, x.name) = x.obj
         /\ \A s \in Name : (\A x \in TreeNames(nd) : ~(x.dir = d /\ x.name = s))
                            => Step(nd, d, s) = 0
         /\ Step(nd, d, "..") = Up(nd, d)
         /\ Step(nd, d, ".") = IF FirstSurvives THEN d ELSE Stray
<1>1. /\ DirShaped(nd, d) /\ Len(nd[d].dentries) \in Nat
      /\ 1 \in 1..Len(nd[d].dentries) /\ 2 \in 1..Len(nd[d].dentries)
  BY DentriesAre DEF Shaped, DirShaped
<1>2. ASSUME NEW x \in TreeNames(nd), x.dir = d
      PROVE  Step(nd, d, x.name) = x.obj
  <2>1. PICK k \in Nat : /\ NameAt(nd, x.dir, k)
                         /\ nd[x.dir].dentries[k].name = x.name
                         /\ nd[x.dir].dentries[k].ino = x.obj
    BY NameParts
  <2>2. k \in 1..Len(nd[d].dentries) /\ k # 1
    BY <1>1, <1>2, <2>1 DEF NameAt
  <2> QED
    BY <1>2, <2>1, <2>2, LookupAt
<1>3. ASSUME NEW s \in Name, \A x \in TreeNames(nd) : ~(x.dir = d /\ x.name = s)
      PROVE  Step(nd, d, s) = 0
  <2>1. ASSUME NEW k \in 1..Len(nd[d].dentries), nd[d].dentries[k].name = s
        PROVE  FALSE
    <3>1. nd[d].dentries[1].name = "." /\ nd[d].dentries[2].name = ".."
      BY <1>1 DEF DirShaped
    <3>2. k # 1 /\ k # 2
      BY <2>1, <3>1, Segments
    <3>3. NameAt(nd, d, k)
      BY <1>1, <3>2 DEF NameAt
    <3>4. TreeName(d, nd[d].dentries[k]) \in TreeNames(nd)
      BY <3>3, TreeNamesAre
    <3> QED
      BY <1>3, <2>1, <3>4 DEF TreeName
  <2>2. Named(nd, d, s) = {}
    BY <2>1, DentriesAre DEF Named
  <2> QED
    BY <2>2 DEF Step, Lookup
<1>4. Step(nd, d, "..") = Up(nd, d)
  BY <1>1, LookupAt DEF DirShaped, Up
<1>5. Step(nd, d, ".") = IF FirstSurvives THEN d ELSE Stray
  <2>1. nd[d].dentries[1].name = "." /\ nd[d].dentries[1].ino = d
    BY <1>1 DEF DirShaped
  <2> QED BY <1>1, <2>1, LookupAt
<1> QED
  BY <1>2, <1>3, <1>4, <1>5

-----------------------------------------------------------------------------
(* The edits of a table, as edits of the tree.  SameFiles: all but the     *)
(* dentries of the files is the same, and so is every "..".                *)

SameFiles(nd, md) ==
  \A i \in Ino : /\ md[i].type = nd[i].type /\ md[i].nlink = nd[i].nlink
                 /\ md[i].target = nd[i].target
                 /\ nd[i].type = "dir" => Up(md, i) = Up(nd, i)

(* my_link, my_mknod and my_rename put a name at the end of a directory    *)
(* that does not have it.                                                  *)
LEMMA PushAddsName ==
  ASSUME NEW nd, Shaped(nd), NEW d \in Ino, nd[d].type = "dir", d # 0,
         NEW n \in Name, NEW i \in Ino,
         \A x \in TreeNames(nd) : ~(x.dir = d /\ x.name = n)
  PROVE  /\ Shaped(Push(nd, d, n, i)) /\ SameFiles(nd, Push(nd, d, n, i))
         /\ TreeNames(Push(nd, d, n, i)) =
              TreeNames(nd) \cup {[dir |-> d, name |-> n, obj |-> i]}
<1> DEFINE e == [name |-> n, ino |-> i]
           s == nd[d].dentries
           L == Len(s)
           f == [nd[d] EXCEPT !.dentries = Append(s, e)]
           md == [nd EXCEPT ![d] = f]
<1>1. e \in Dentry /\ e.name = n /\ e.ino = i
  BY Segments DEF Dentry
<1>2. nd \in [Ino -> File] /\ nd[d] \in File /\ s \in Seq(Dentry) /\ L \in Nat /\ DirShaped(nd, d)
  BY DentriesAre DEF Shaped
<1>3. Push(nd, d, n, i) = md
  BY <1>2 DEF Push
<1> HIDE DEF e, s
<1>4. /\ Append(s, e) \in Seq(Dentry) /\ Len(Append(s, e)) = L + 1
      /\ \A k \in 1..L : Append(s, e)[k] = s[k]
      /\ Append(s, e)[L + 1] = e
  BY <1>1, <1>2, AppendProperties
<1>5. /\ f \in File /\ f.dentries = Append(s, e)
      /\ f.type = nd[d].type /\ f.nlink = nd[d].nlink /\ f.target = nd[d].target
  BY <1>2, <1>4 DEF File
<1> HIDE DEF f
<1>6. /\ md \in [Ino -> File] /\ md[d] = f
      /\ \A j \in Ino \ {d} : md[j] = nd[j]
  BY <1>2, <1>5
<1> HIDE DEF md
<1>7. L >= 2 /\ \A k \in Nat : (3 <= k /\ k <= L + 1) <=> (3 <= k /\ k <= L) \/ k = L + 1
  BY <1>2 DEF DirShaped, s
<1>8. ASSUME NEW j, NEW k, NameAt(nd, j, k)
      PROVE  NameAt(md, j, k) /\ md[j].dentries[k] = nd[j].dentries[k]
  <2>1. CASE j = d
    <3>1. k \in Nat /\ 3 <= k /\ k <= L /\ k \in 1..L
      BY <1>2, <1>8, <2>1 DEF NameAt, s
    <3> QED BY <1>4, <1>5, <1>6, <1>7, <1>8, <2>1, <3>1 DEF NameAt, s
  <2> QED BY <1>6, <1>8, <2>1 DEF NameAt
<1>9. NameAt(md, d, L + 1) /\ md[d].dentries[L + 1] = e
  BY <1>2, <1>4, <1>5, <1>6, <1>7 DEF NameAt
<1>10. ASSUME NEW j, NEW k, NameAt(md, j, k), ~ (j = d /\ k = L + 1)
       PROVE  NameAt(nd, j, k)
  BY <1>2, <1>4, <1>5, <1>6, <1>7, <1>10 DEF NameAt, s
<1>11. Shaped(md)
  <2>1. DirShaped(md, d)
    <3> DEFINE r == md[d].dentries
    <3>1. Len(r) >= 2 /\ r[1] = s[1] /\ r[2] = s[2] /\ Len(r) = L + 1
      BY <1>2, <1>4, <1>5, <1>6, <1>7
    <3>2. \A k \in 3..Len(r) : (k \in 3..L /\ r[k] = s[k]) \/ (k = L + 1 /\ r[k] = e)
      <4>1. r = Append(s, e)
        BY <1>5, <1>6
      <4>2. L \in Nat /\ \A k \in 3..(L + 1) : (k \in 1..L /\ k \in 3..L) \/ k = L + 1
        BY <1>2
      <4> HIDE DEF r, L
      <4> QED BY <1>4, <3>1, <4>1, <4>2
    <3>3. \A k \in 3..L : s[k].name \in Name /\ s[k].name # n
      <4>1. ASSUME NEW k \in 3..L PROVE s[k].name # n
        <5>1. NameAt(nd, d, k)
          BY <1>2 DEF NameAt, s
        <5>2. TreeName(d, s[k]) \in TreeNames(nd)
          BY <5>1, TreeNamesAre DEF s
        <5> QED BY <5>2 DEF TreeName
      <4> QED BY <1>2, <4>1 DEF DirShaped, s
    <3>4. \A k, l \in 3..L : s[k].name = s[l].name => k = l
      BY <1>2 DEF DirShaped, s
    <3>5. r[1] = [name |-> ".", ino |-> d] /\ r[2].name = ".."
      BY <1>2, <3>1 DEF DirShaped, s
    <3> HIDE DEF r
    <3>6. \A k \in 3..Len(r) : r[k].name \in Name
      BY <1>1, <3>2, <3>3
    <3>7. \A k, l \in 3..Len(r) : r[k].name = r[l].name => k = l
      BY <1>1, <3>2, <3>3, <3>4
    <3> QED BY <3>1, <3>5, <3>6, <3>7 DEF DirShaped, r
  <2>2. ASSUME NEW j \in Ino, j # d, nd[j].type = "dir" PROVE DirShaped(md, j)
    BY <1>6, <2>2 DEF Shaped, DirShaped
  <2> QED BY <1>5, <1>6, <2>1, <2>2 DEF Shaped
<1>12. SameFiles(nd, md)
  <2>1. Up(md, d) = Up(nd, d)
    <3>1. 2 \in 1..L
      BY <1>2, <1>7
    <3> QED BY <1>4, <1>5, <1>6, <3>1 DEF Up, s
  <2> QED BY <1>5, <1>6, <2>1 DEF SameFiles, Up
<1>13. TreeName(d, e) = [dir |-> d, name |-> n, obj |-> i]
  BY <1>1 DEF TreeName
<1>14. ASSUME NEW x \in TreeNames(md) PROVE x \in TreeNames(nd) \/ x = TreeName(d, e)
  <2>1. PICK j, k : NameAt(md, j, k) /\ x = TreeName(j, md[j].dentries[k])
    BY <1>11, TreeNamesAre
  <2>2. CASE j = d /\ k = L + 1
    BY <1>9, <2>1, <2>2
  <2>3. CASE ~ (j = d /\ k = L + 1)
    BY <1>8, <1>10, <2>1, <2>3, TreeNamesAre
  <2> QED BY <2>2, <2>3
<1>15. ASSUME NEW x \in TreeNames(nd) PROVE x \in TreeNames(md)
  <2>1. PICK j, k : NameAt(nd, j, k) /\ x = TreeName(j, nd[j].dentries[k])
    BY TreeNamesAre
  <2> QED BY <1>8, <1>11, <2>1, TreeNamesAre
<1>16. TreeName(d, e) \in TreeNames(md)
  BY <1>9, <1>11, TreeNamesAre
<1>17. TreeNames(md) = TreeNames(nd) \cup {TreeName(d, e)}
  BY <1>14, <1>15, <1>16
<1> QED
  BY <1>3, <1>11, <1>12, <1>13, <1>17

LEMMA RemoveAtEntries ==
  ASSUME NEW S, NEW s \in Seq(S), NEW k \in 1..Len(s)
  PROVE  /\ RemoveAt(s, k) \in Seq(S) /\ Len(RemoveAt(s, k)) = Len(s) - 1
         /\ \A j \in 1..(k - 1) : RemoveAt(s, k)[j] = s[j]
         /\ \A j \in k..(Len(s) - 1) : RemoveAt(s, k)[j] = s[j + 1]
<1> DEFINE L == Len(s)
           front == SubSeq(s, 1, k - 1)
           back == SubSeq(s, k + 1, L)
<1>1. L \in Nat /\ k \in Nat /\ 1 <= k /\ k <= L /\ k - 1 \in Int /\ k + 1 \in Int /\ L \in Int
  BY LenProperties
<1>2. \A j \in 1..L : s[j] \in S
  BY ElementOfSeq
<1>3. /\ front \in Seq(S) /\ Len(front) = k - 1
      /\ \A j \in 1..(k - 1) : front[j] = s[j]
  <2>1. \A j \in 1..(k - 1) : s[j] \in S
    BY <1>1, <1>2
  <2>2. /\ front \in Seq(S) /\ Len(front) = IF 1 <= k - 1 THEN k - 1 - 1 + 1 ELSE 0
        /\ \A j \in 1..(k - 1 - 1 + 1) : front[j] = s[1 + j - 1]
    BY <1>1, <2>1, SubSeqProperties
  <2> HIDE DEF front
  <2> QED BY <1>1, <2>2
<1>4. /\ back \in Seq(S) /\ Len(back) = L - k
      /\ \A j \in 1..(L - k) : back[j] = s[k + j]
  <2>1. \A j \in (k + 1)..L : s[j] \in S
    BY <1>1, <1>2
  <2>2. /\ back \in Seq(S) /\ Len(back) = IF k + 1 <= L THEN L - (k + 1) + 1 ELSE 0
        /\ \A j \in 1..(L - (k + 1) + 1) : back[j] = s[(k + 1) + j - 1]
    <3> HIDE DEF L
    <3> QED BY <1>1, <2>1, SubSeqProperties
  <2> HIDE DEF back, L
  <2>3. /\ L - (k + 1) + 1 = L - k
        /\ \A j \in 1..(L - k) : (k + 1) + j - 1 = k + j
        /\ (IF k + 1 <= L THEN L - (k + 1) + 1 ELSE 0) = L - k
    BY <1>1
  <2> QED BY <2>2, <2>3
<1>5. RemoveAt(s, k) = front \o back
  BY DEF RemoveAt
<1> HIDE DEF front, back, L
<1>6. /\ front \o back \in Seq(S) /\ Len(front \o back) = (k - 1) + (L - k)
      /\ \A j \in 1..((k - 1) + (L - k)) :
           (front \o back)[j] = IF j <= k - 1 THEN front[j] ELSE back[j - (k - 1)]
  <2>1. /\ front \o back \in Seq(S) /\ Len(front \o back) = Len(front) + Len(back)
        /\ \A j \in 1..(Len(front) + Len(back)) :
             (front \o back)[j] = IF j <= Len(front) THEN front[j] ELSE back[j - Len(front)]
    BY <1>3, <1>4, ConcatProperties
  <2>2. Len(front) = k - 1 /\ Len(back) = L - k
    BY <1>3, <1>4
  <2> QED BY <2>1, <2>2, Zenon
<1> DEFINE r == front \o back
<1> HIDE DEF r
<1>7. Len(r) = L - 1
  BY <1>1, <1>6 DEF r
<1>8. \A j \in 1..(k - 1) : r[j] = s[j]
  BY <1>1, <1>3, <1>6 DEF r
<1>9. ASSUME NEW j \in k..(L - 1) PROVE r[j] = s[j + 1]
  <2>1. j - (k - 1) \in 1..(L - k) /\ k + (j - (k - 1)) = j + 1 /\ ~ (j <= k - 1)
        /\ j \in 1..((k - 1) + (L - k))
    BY <1>1
  <2>2. r[j] = back[j - (k - 1)]
    BY <1>6, <2>1 DEF r
  <2> QED BY <1>4, <2>1, <2>2
<1> QED
  BY <1>5, <1>6, <1>7, <1>8, <1>9 DEF r, L

(* my_unlink and my_rename take a name out of a directory. *)
Without(nd, d, k) == [nd EXCEPT ![d].dentries = RemoveAt(@, k)]

LEMMA RemoveNameIs ==
  ASSUME NEW nd, Shaped(nd), NEW d, NEW k, NameAt(nd, d, k)
  PROVE  RemoveName(nd, d, nd[d].dentries[k].name) = Without(nd, d, k)
<1> DEFINE hits == Named(nd, d, nd[d].dentries[k].name)
<1>1. d \in Ino /\ nd[d].type = "dir" /\ k \in 1..Len(nd[d].dentries) /\ k \in Nat
  BY DentriesAre DEF NameAt
<1>2. k \in hits /\ \A j \in hits : j = k
  BY <1>1, OnlyHit
<1> HIDE DEF hits
<1>3. hits \in SUBSET Nat /\ hits # {}
  BY <1>1, <1>2
<1>4. Min(hits) = k
  BY <1>2, <1>3, MinIsMember
<1> QED
  BY <1>3, <1>4 DEF RemoveName, RemoveDentry, Without, hits

LEMMA RemoveNameDrops ==
  ASSUME NEW nd, Shaped(nd), NEW x \in TreeNames(nd)
  PROVE  /\ Shaped(RemoveName(nd, x.dir, x.name))
         /\ SameFiles(nd, RemoveName(nd, x.dir, x.name))
         /\ TreeNames(RemoveName(nd, x.dir, x.name)) = TreeNames(nd) \ {x}
<1> DEFINE d == x.dir
           s == nd[d].dentries
           L == Len(s)
<1>1. PICK h \in Nat : NameAt(nd, d, h) /\ s[h].name = x.name /\ s[h].ino = x.obj
  BY NameParts
<1> DEFINE f == [nd[d] EXCEPT !.dentries = RemoveAt(s, h)]
           md == [nd EXCEPT ![d] = f]
<1>2. /\ nd \in [Ino -> File] /\ d \in Ino /\ nd[d].type = "dir"
      /\ nd[d] \in File /\ s \in Seq(Dentry) /\ L \in Nat /\ DirShaped(nd, d)
      /\ 3 <= h /\ h <= L /\ h \in 1..L
  BY <1>1, DentriesAre DEF Shaped, NameAt
<1>3. RemoveName(nd, d, x.name) = md
  <2>1. RemoveName(nd, d, s[h].name) = Without(nd, d, h)
    BY <1>1, RemoveNameIs
  <2> QED BY <1>1, <1>2, <2>1 DEF Without
<1>x. x = TreeName(d, s[h])
  BY <1>1, NameParts DEF TreeName
<1> HIDE DEF s, d
<1>4. /\ RemoveAt(s, h) \in Seq(Dentry) /\ Len(RemoveAt(s, h)) = L - 1
      /\ \A k \in 1..(h - 1) : RemoveAt(s, h)[k] = s[k]
      /\ \A k \in h..(L - 1) : RemoveAt(s, h)[k] = s[k + 1]
  BY <1>2, RemoveAtEntries
<1>5. /\ f \in File /\ f.dentries = RemoveAt(s, h)
      /\ f.type = nd[d].type /\ f.nlink = nd[d].nlink /\ f.target = nd[d].target
  BY <1>2, <1>4 DEF File
<1> HIDE DEF f
<1>6. /\ md \in [Ino -> File] /\ md[d] = f
      /\ \A j \in Ino \ {d} : md[j] = nd[j]
  BY <1>2, <1>5
<1> HIDE DEF md
<1>7. ASSUME NEW j, NEW k, NameAt(md, j, k)
      PROVE  \E l : NameAt(nd, j, l) /\ md[j].dentries[k] = nd[j].dentries[l] /\ ~ (j = d /\ l = h)
  <2>1. CASE j # d
    BY <1>6, <1>7, <2>1 DEF NameAt
  <2>2. CASE j = d
    <3>1. k \in Nat /\ 3 <= k /\ k <= L - 1
      BY <1>4, <1>5, <1>6, <1>7, <2>2 DEF NameAt
    <3>2. CASE k < h
      <4>1. k \in 1..(h - 1) /\ k <= L /\ k # h
        BY <1>2, <3>1, <3>2
      <4>2. NameAt(nd, d, k)
        BY <1>2, <3>1, <4>1 DEF NameAt, s
      <4> QED BY <1>4, <1>5, <1>6, <2>2, <4>1, <4>2 DEF s
    <3>3. CASE ~ (k < h)
      <4>1. k \in h..(L - 1) /\ k + 1 \in Nat /\ 3 <= k + 1 /\ k + 1 <= L /\ k + 1 # h
        BY <1>2, <3>1, <3>3
      <4>2. NameAt(nd, d, k + 1)
        BY <1>2, <3>1, <4>1 DEF NameAt, s
      <4> QED BY <1>4, <1>5, <1>6, <2>2, <4>1, <4>2 DEF s
    <3> QED BY <3>2, <3>3
  <2> QED BY <2>1, <2>2
<1>8. ASSUME NEW j, NEW l, NameAt(nd, j, l), ~ (j = d /\ l = h)
      PROVE  \E k : NameAt(md, j, k) /\ md[j].dentries[k] = nd[j].dentries[l]
  <2>1. CASE j # d
    BY <1>6, <1>8, <2>1 DEF NameAt
  <2>2. CASE j = d
    <3>1. l \in Nat /\ 3 <= l /\ l <= L /\ l # h
      BY <1>8, <2>2 DEF NameAt, s
    <3>2. CASE l < h
      <4>1. l \in 1..(h - 1) /\ l <= L - 1
        BY <1>2, <3>1, <3>2
      <4>2. NameAt(md, d, l)
        BY <1>2, <1>4, <1>5, <1>6, <3>1, <4>1 DEF NameAt
      <4> QED BY <1>4, <1>5, <1>6, <2>2, <4>1, <4>2 DEF s
    <3>3. CASE ~ (l < h)
      <4>1. l - 1 \in h..(L - 1) /\ l - 1 \in Nat /\ 3 <= l - 1 /\ l - 1 <= L - 1 /\ l - 1 + 1 = l
        BY <1>2, <3>1, <3>3
      <4>2. NameAt(md, d, l - 1)
        BY <1>2, <1>4, <1>5, <1>6, <4>1 DEF NameAt
      <4>3. RemoveAt(s, h)[l - 1] = s[l - 1 + 1]
        BY <1>4, <4>1
      <4>4. md[d].dentries[l - 1] = nd[d].dentries[l]
        BY <1>5, <1>6, <4>1, <4>3 DEF s
      <4> QED BY <2>2, <4>2, <4>4
    <3> QED BY <3>2, <3>3
  <2> QED BY <2>1, <2>2
<1>9. Shaped(md)
  <2>1. DirShaped(md, d)
    <3> DEFINE r == md[d].dentries
    <3>1. /\ \A k, l \in 3..L : s[k].name = s[l].name => k = l
          /\ \A k \in 3..L : s[k].name \in Name
          /\ s[1] = [name |-> ".", ino |-> d] /\ s[2].name = ".."
      BY <1>2 DEF DirShaped, s
    <3>2. r = RemoveAt(s, h)
      BY <1>5, <1>6
    <3>3. Len(r) >= 2 /\ r[1] = s[1] /\ r[2] = s[2] /\ Len(r) = L - 1
      BY <1>2, <1>4, <3>2
    <3>4. \A k \in 3..Len(r) : (k \in 3..L /\ k < h /\ r[k] = s[k])
                               \/ (k + 1 \in 3..L /\ h < k + 1 /\ r[k] = s[k + 1])
      <4>1. ASSUME NEW k \in 3..Len(r)
            PROVE  \/ k \in 1..(h - 1) /\ k \in 3..L /\ k < h
                   \/ k \in h..(L - 1) /\ k + 1 \in 3..L /\ h < k + 1
        BY <1>2, <3>3
      <4> HIDE DEF r
      <4> QED BY <1>4, <3>2, <4>1
    <3> HIDE DEF r
    <3>5. \A k \in 3..Len(r) : r[k].name \in Name
      BY <3>1, <3>4
    <3>6. ASSUME NEW k \in 3..Len(r), NEW l \in 3..Len(r), r[k].name = r[l].name
          PROVE  k = l
      <4>1. k \in Nat /\ l \in Nat /\ h \in Nat
        BY <1>2, <3>3
      <4>2. CASE k < h /\ l < h
        BY <3>1, <3>4, <3>6, <4>1, <4>2
      <4>3. CASE ~ (k < h) /\ ~ (l < h)
        <5>1. k + 1 \in 3..L /\ l + 1 \in 3..L /\ r[k] = s[k + 1] /\ r[l] = s[l + 1]
          BY <3>4, <4>1, <4>3
        <5>2. k + 1 = l + 1
          BY <3>1, <3>6, <5>1
        <5> QED BY <4>1, <5>2
      <4>4. CASE k < h /\ ~ (l < h)
        <5>1. k \in 3..L /\ l + 1 \in 3..L /\ r[k] = s[k] /\ r[l] = s[l + 1]
          BY <3>4, <4>1, <4>4
        <5>2. k = l + 1
          BY <3>1, <3>6, <5>1
        <5> QED BY <4>1, <4>4, <5>2
      <4>5. CASE ~ (k < h) /\ l < h
        <5>1. k + 1 \in 3..L /\ l \in 3..L /\ r[k] = s[k + 1] /\ r[l] = s[l]
          BY <3>4, <4>1, <4>5
        <5>2. k + 1 = l
          BY <3>1, <3>6, <5>1
        <5> QED BY <4>1, <4>5, <5>2
      <4> QED BY <4>2, <4>3, <4>4, <4>5
    <3> QED BY <3>1, <3>3, <3>5, <3>6 DEF DirShaped, r
  <2>2. ASSUME NEW j \in Ino, j # d, nd[j].type = "dir" PROVE DirShaped(md, j)
    BY <1>6, <2>2 DEF Shaped, DirShaped
  <2> QED BY <1>2, <1>5, <1>6, <2>1, <2>2 DEF Shaped
<1>10. SameFiles(nd, md)
  <2>1. Up(md, d) = Up(nd, d)
    <3>1. 2 \in 1..(h - 1)
      BY <1>2
    <3> QED BY <1>4, <1>5, <1>6, <3>1 DEF Up, s
  <2> QED BY <1>5, <1>6, <2>1 DEF SameFiles, Up
<1>11. ASSUME NEW y \in TreeNames(md) PROVE y \in TreeNames(nd) /\ y # x
  <2>1. PICK j, k : NameAt(md, j, k) /\ y = TreeName(j, md[j].dentries[k])
    BY <1>9, TreeNamesAre
  <2>2. PICK l : NameAt(nd, j, l) /\ md[j].dentries[k] = nd[j].dentries[l] /\ ~ (j = d /\ l = h)
    BY <1>7, <2>1
  <2>3. y \in TreeNames(nd)
    BY <2>1, <2>2, TreeNamesAre
  <2>4. ASSUME y = x PROVE FALSE
    <3>1. j = d /\ nd[j].dentries[l].name = s[h].name
      BY <1>x, <2>1, <2>2, <2>4 DEF TreeName
    <3>2. l \in 3..L /\ h \in 3..L
      BY <1>1, <1>2, <2>2, <3>1 DEF NameAt, s
    <3>3. l = h
      BY <1>2, <3>1, <3>2 DEF DirShaped, s
    <3> QED BY <2>2, <3>1, <3>3
  <2> QED BY <2>3, <2>4
<1>12. ASSUME NEW y \in TreeNames(nd), y # x PROVE y \in TreeNames(md)
  <2>1. PICK j, l : NameAt(nd, j, l) /\ y = TreeName(j, nd[j].dentries[l])
    BY TreeNamesAre
  <2>2. ~ (j = d /\ l = h)
    BY <1>x, <1>12, <2>1 DEF s
  <2> QED BY <1>8, <1>9, <2>1, <2>2, TreeNamesAre
<1>13. TreeNames(md) = TreeNames(nd) \ {x}
  BY <1>11, <1>12
<1> QED
  BY <1>3, <1>9, <1>10, <1>13 DEF d

(* my_rmdir looks for the number instead of the name: the same dentry, as  *)
(* long as the directory's own two dentries do not hold that number.       *)
LEMMA RemoveInoDrops ==
  ASSUME NEW nd, Shaped(nd), NEW x \in TreeNames(nd),
         \A y \in TreeNames(nd) : y.obj = x.obj => y = x,
         x.dir # x.obj, Up(nd, x.dir) # x.obj
  PROVE  RemoveIno(nd, x.dir, x.obj) = RemoveName(nd, x.dir, x.name)
<1> DEFINE d == x.dir
           s == nd[d].dentries
           hits == Holding(nd, d, x.obj)
<1>1. PICK h \in Nat : NameAt(nd, d, h) /\ s[h].name = x.name /\ s[h].ino = x.obj
  BY NameParts
<1>2. /\ d \in Ino /\ DirShaped(nd, d) /\ Len(s) \in Nat
      /\ DOMAIN s = 1..Len(s) /\ 3 <= h /\ h <= Len(s)
  BY <1>1, DentriesAre DEF NameAt, Shaped
<1>3. ASSUME NEW k \in DOMAIN s, s[k].ino = x.obj PROVE k = h
  <2>1. k # 1 /\ k # 2
    BY <1>2, <1>3 DEF DirShaped, Up
  <2>2. NameAt(nd, d, k)
    BY <1>1, <1>2, <2>1 DEF NameAt
  <2>3. TreeName(d, s[k]) \in TreeNames(nd) /\ TreeName(d, s[h]) \in TreeNames(nd)
    BY <1>1, <2>2, TreeNamesAre
  <2>4. TreeName(d, s[k]) = TreeName(d, s[h])
    BY <1>1, <1>3, <2>3 DEF TreeName
  <2>5. s[k].name = s[h].name
    BY <2>4 DEF TreeName
  <2>6. k \in 3..Len(s) /\ h \in 3..Len(s)
    BY <1>2, <2>1
  <2> QED BY <1>2, <2>5, <2>6 DEF DirShaped
<1>4. hits = {h}
  BY <1>1, <1>2, <1>3 DEF Holding
<1> HIDE DEF hits
<1>5. hits \in SUBSET Nat /\ hits # {}
  BY <1>4
<1>6. Min(hits) = h
  BY <1>4, <1>5, MinIsMember
<1>7. RemoveIno(nd, d, x.obj) = Without(nd, d, h)
  BY <1>5, <1>6 DEF RemoveIno, RemoveDentry, Without, hits
<1>8. RemoveName(nd, d, s[h].name) = Without(nd, d, h)
  BY <1>1, RemoveNameIs
<1> QED
  BY <1>1, <1>7, <1>8

(* Edits that touch no name: a file is replaced by one with the same       *)
(* dentries, or a file without names by another one without.               *)
LEMMA SameNames ==
  ASSUME NEW nd, Shaped(nd), NEW md, Shaped(md),
         \A j, k : NameAt(md, j, k) => NameAt(nd, j, k) /\ md[j].dentries[k] = nd[j].dentries[k],
         \A j, k : NameAt(nd, j, k) => NameAt(md, j, k)
  PROVE  TreeNames(md) = TreeNames(nd)
<1>1. ASSUME NEW x \in TreeNames(nd) PROVE x \in TreeNames(md)
  <2>1. PICK j, k : NameAt(nd, j, k) /\ x = TreeName(j, nd[j].dentries[k])
    BY TreeNamesAre
  <2> QED BY <2>1, TreeNamesAre
<1>2. ASSUME NEW x \in TreeNames(md) PROVE x \in TreeNames(nd)
  <2>1. PICK j, k : NameAt(md, j, k) /\ x = TreeName(j, md[j].dentries[k])
    BY TreeNamesAre
  <2> QED BY <2>1, TreeNamesAre
<1> QED
  BY <1>1, <1>2

LEMMA SameDentries ==
  ASSUME NEW nd, Shaped(nd), NEW i \in Ino, NEW f \in File,
         f.dentries = nd[i].dentries, nd[i].type # "none", f.type # "none",
         f.type = "dir" <=> nd[i].type = "dir"
  PROVE  /\ Shaped([nd EXCEPT ![i] = f])
         /\ TreeNames([nd EXCEPT ![i] = f]) = TreeNames(nd)
<1> DEFINE md == [nd EXCEPT ![i] = f]
<1>1. md \in [Ino -> File] /\ md[i] = f /\ \A j \in Ino \ {i} : md[j] = nd[j]
  BY DEF Shaped
<1> HIDE DEF md
<1>2. Shaped(md)
  BY <1>1 DEF Shaped, DirShaped
<1>3. \A j \in Ino : md[j].dentries = nd[j].dentries /\ (md[j].type = "dir" <=> nd[j].type = "dir")
  BY <1>1
<1>4. TreeNames(md) = TreeNames(nd)
  BY <1>2, <1>3, SameNames DEF NameAt
<1> QED
  BY <1>2, <1>4 DEF md

LEMMA NoNames ==
  ASSUME NEW nd, Shaped(nd), NEW i \in Ino, Len(nd[i].dentries) <= 2,
         NEW f \in File, Len(f.dentries) <= 2,
         f.type = "dir" => f.dentries[1] = [name |-> ".", ino |-> i] /\ f.dentries[2].name = ".."
                           /\ Len(f.dentries) = 2,
         f.type # "dir" => f.dentries = <<>>,
         f.type = "none" => f = Blank
  PROVE  /\ Shaped([nd EXCEPT ![i] = f])
         /\ TreeNames([nd EXCEPT ![i] = f]) = TreeNames(nd)
<1> DEFINE md == [nd EXCEPT ![i] = f]
<1>1. md \in [Ino -> File] /\ md[i] = f /\ \A j \in Ino \ {i} : md[j] = nd[j]
  BY DEF Shaped
<1> HIDE DEF md
<1>2. Shaped(md)
  <2>1. ASSUME f.type = "dir" PROVE DirShaped(md, i)
    <3>1. ~ \E k \in 3..Len(md[i].dentries) : TRUE
      BY <1>1, <2>1
    <3> QED BY <1>1, <2>1, <3>1 DEF DirShaped
  <2>2. ASSUME NEW j \in Ino, j # i, nd[j].type = "dir" PROVE DirShaped(md, j)
    BY <1>1, <2>2 DEF Shaped, DirShaped
  <2> QED BY <1>1, <2>1, <2>2 DEF Shaped
<1>3. Len(nd[i].dentries) \in Nat /\ Len(f.dentries) \in Nat
  BY DentriesAre DEF File
<1>4. \A k : ~NameAt(nd, i, k) /\ ~NameAt(md, i, k)
  BY <1>1, <1>3 DEF NameAt
<1>5. \A j, k : NameAt(md, j, k) => NameAt(nd, j, k) /\ md[j].dentries[k] = nd[j].dentries[k]
  BY <1>1, <1>4 DEF NameAt
<1>6. \A j, k : NameAt(nd, j, k) => NameAt(md, j, k)
  BY <1>1, <1>4 DEF NameAt
<1>7. TreeNames(md) = TreeNames(nd)
  BY <1>2, <1>5, <1>6, SameNames
<1> QED
  BY <1>2, <1>7 DEF md

-----------------------------------------------------------------------------
(* What an edit means for the walks of find_real_ino. *)

IsDir(nd, i) == i \in Ino /\ nd[i].type = "dir"

Proper == Segment \ {""}

(* The numbers of B can only be come to from numbers of B, and there the   *)
(* tables agree: a walk that ends in B is in B all the way, and the same.  *)
LEMMA WalkKept ==
  ASSUME NEW nd, NEW md, NEW p \in Seq(Segment), NEW B, FindReal(nd, p) \in B,
         \A i : \A k \in 1..Len(p) :
           p[k] \in Proper /\ Step(nd, i, p[k]) \in B =>
             i \in B /\ Step(md, i, p[k]) = Step(nd, i, p[k])
  PROVE  FindReal(md, p) = FindReal(nd, p)
<1> DEFINE L == Len(p)
<1>0. L \in Nat
  BY LenProperties
<1>1. PICK w : Walks(nd, p, w, L) /\ FindReal(nd, p) = w[L]
  BY FindRealWalks
<1>2. PICK v : Walks(md, p, v, L) /\ FindReal(md, p) = v[L]
  BY FindRealWalks
<1>3. ASSUME NEW i, NEW k \in 1..L, Go(nd, i, p[k]) \in B
      PROVE  i \in B /\ Go(md, i, p[k]) = Go(nd, i, p[k])
  <2>1. p[k] \in Segment
    BY ElementOfSeq
  <2> QED BY <1>3, <2>1 DEF Go, Proper
<1> HIDE DEF L
<1>4. \A k \in 0..L : w[k] \in B
  <2> DEFINE S == {k \in 0..L : w[L - k] \notin B}
  <2>1. SUFFICES S = {}
    <3>1. \A k \in 0..L : L - k \in 0..L /\ L - (L - k) = k
      BY <1>0
    <3> QED BY <3>1
  <2>2. SUFFICES ASSUME S # {} PROVE FALSE
    OBVIOUS
  <2>3. PICK k \in S : \A j \in S : k <= j
    <3>1. S \in SUBSET Nat
      OBVIOUS
    <3> HIDE DEF S
    <3> QED BY <2>2, <3>1, MinIsMember
  <2>4. k \in 0..L /\ k # 0
    BY <1>0, <1>1, <2>3
  <2>5. /\ k - 1 \in 0..L /\ ~ (k <= k - 1) /\ L - (k - 1) = L - k + 1
        /\ L - k + 1 \in 1..L
    BY <1>0, <2>4
  <2>6. PICK j \in 1..L : j = L - k + 1
    BY <2>5
  <2>7. w[j] = Go(nd, w[j - 1], p[j]) /\ j - 1 = L - k
    <3>1. j - 1 = L - k
      BY <1>0, <2>4, <2>6
    <3> QED BY <1>1, <3>1 DEF Walks
  <2>8. w[j] \in B
    BY <2>3, <2>5, <2>6
  <2>9. w[L - k] \in B
    BY <1>3, <2>7, <2>8
  <2> QED BY <2>3, <2>9
<1> DEFINE R == {k \in 0..L : v[k] # w[k]}
<1>5. SUFFICES ASSUME R # {} PROVE FALSE
  BY <1>0, <1>1, <1>2
<1>6. PICK k \in R : \A j \in R : k <= j
  <2>1. R \in SUBSET Nat
    OBVIOUS
  <2> HIDE DEF R
  <2> QED BY <1>5, <2>1, MinIsMember
<1>7. k # 0 /\ k - 1 \in 0..L /\ k \in 1..L /\ k - 1 \notin R
  BY <1>0, <1>1, <1>2, <1>6 DEF Walks
<1>8. v[k - 1] = w[k - 1] /\ v[k] = Go(md, w[k - 1], p[k]) /\ w[k] = Go(nd, w[k - 1], p[k])
  BY <1>1, <1>2, <1>7 DEF Walks
<1>9. Go(nd, w[k - 1], p[k]) \in B
  <2>1. w[k] \in B
    BY <1>4, <1>7
  <2> QED BY <1>8, <2>1
<1>10. Go(md, w[k - 1], p[k]) = Go(nd, w[k - 1], p[k])
  BY <1>3, <1>7, <1>9
<1> QED BY <1>6, <1>8, <1>10

(* Where directories have lost names and gained none, a walk goes where it *)
(* went, or to no file.                                                    *)
LEMMA WalkShrunk ==
  ASSUME NEW nd, NEW md, NEW p \in Seq(Segment), ~IsDir(md, 0),
         \A d : \A s \in Proper : Step(md, d, s) \in {Step(nd, d, s), 0}
  PROVE  FindReal(md, p) \in {FindReal(nd, p), 0}
<1> DEFINE L == Len(p)
<1>0. L \in Nat /\ \A k \in 1..L : p[k] \in Segment
  BY ElementOfSeq, LenProperties
<1>1. PICK w : Walks(nd, p, w, L) /\ FindReal(nd, p) = w[L]
  BY FindRealWalks
<1>2. PICK v : Walks(md, p, v, L) /\ FindReal(md, p) = v[L]
  BY FindRealWalks
<1> HIDE DEF L
<1> DEFINE R == {k \in 0..L : v[k] \notin {w[k], 0}}
<1>5. SUFFICES ASSUME R # {} PROVE FALSE
  BY <1>0, <1>1, <1>2
<1>6. PICK k \in R : \A j \in R : k <= j
  <2>1. R \in SUBSET Nat
    OBVIOUS
  <2> HIDE DEF R
  <2> QED BY <1>5, <2>1, MinIsMember
<1>7. k # 0 /\ k - 1 \in 0..L /\ k \in 1..L /\ k - 1 \notin R
  BY <1>0, <1>1, <1>2, <1>6 DEF Walks
<1>8. v[k] = Go(md, v[k - 1], p[k]) /\ w[k] = Go(nd, w[k - 1], p[k]) /\ p[k] \in Segment
  BY <1>0, <1>1, <1>2, <1>7 DEF Walks
<1>9. CASE v[k - 1] = w[k - 1]
  <2>1. \A i : \A s \in Segment : Go(md, i, s) \in {Go(nd, i, s), 0}
    BY DEF Go, Proper
  <2> QED BY <1>6, <1>8, <1>9, <2>1
<1>10. CASE v[k - 1] = 0
  <2>1. Go(md, 0, p[k]) = 0
    BY DEF Go, Step, IsDir
  <2> QED BY <1>6, <1>8, <1>10, <2>1
<1> QED BY <1>7, <1>9, <1>10

-----------------------------------------------------------------------------
(* The tree of a table.  The root is a directory and its own parent; what  *)
(* has a name is there; every other directory has one name, in the         *)
(* directory its ".." leads to, which is of a lower number: a directory    *)
(* never changes its parent.  X is the directories that have no name now,  *)
(* in the middle of a call.                                                *)
PlantedBut(nd, X) ==
  /\ IsFiniteSet(TreeNames(nd))
  /\ \A i \in Ino : i < ROOT => nd[i].type = "none"
  /\ nd[ROOT].type = "dir" /\ Up(nd, ROOT) = ROOT
  /\ \A x \in TreeNames(nd) : nd[x.obj].type # "none" /\ x.obj # ROOT
  /\ \A d \in Ino \ {ROOT} : nd[d].type = "dir" =>
       /\ Up(nd, d) \in Ino /\ nd[Up(nd, d)].type = "dir" /\ Up(nd, d) < d
       /\ IF d \in X THEN \A x \in TreeNames(nd) : x.obj # d
          ELSE /\ \E x \in TreeNames(nd) : x.dir = Up(nd, d) /\ x.obj = d
               /\ \A x, y \in TreeNames(nd) : x.obj = d /\ y.obj = d => x = y

Planted(nd) == PlantedBut(nd, {})

NameCount(nd, i) == Cardinality(NamesTo(nd, i))

LEMMA NameCountIs ==
  ASSUME NEW nd, IsFiniteSet(TreeNames(nd)), NEW i
  PROVE  /\ IsFiniteSet(NamesTo(nd, i)) /\ NameCount(nd, i) \in Nat
         /\ NameCount(nd, i) = 0 <=> \A x \in TreeNames(nd) : x.obj # i
<1>1. NamesTo(nd, i) \in SUBSET TreeNames(nd)
  BY DEF NamesTo
<1>2. IsFiniteSet(NamesTo(nd, i))
  BY <1>1, FS_Subset
<1>3. NameCount(nd, i) \in Nat
  BY <1>2, FS_CardinalityType DEF NameCount
<1>4. NameCount(nd, i) = 0 <=> NamesTo(nd, i) = {}
  BY <1>2, FS_EmptySet DEF NameCount
<1> QED
  BY <1>2, <1>3, <1>4 DEF NamesTo

(* A name is added, to a file, or to the directory it makes the name of.   *)
LEMMA NameAdded ==
  ASSUME NEW nd, NEW md, NEW X, NEW x, Shaped(nd),
         PlantedBut(nd, X), SameFiles(nd, md), x \notin TreeNames(nd),
         TreeNames(md) = TreeNames(nd) \cup {x}, x.obj \in Ino,
         nd[x.obj].type # "none", x.obj # ROOT,
         nd[x.obj].type = "dir" => x.obj \in X /\ x.dir = Up(nd, x.obj)
  PROVE  /\ PlantedBut(md, X \ {x.obj})
         /\ \A j \in Ino :
              NameCount(md, j) = NameCount(nd, j) + (IF j = x.obj THEN 1 ELSE 0)
<1> DEFINE T == TreeNames(nd)
           U == TreeNames(md)
<1>1. IsFiniteSet(T) /\ IsFiniteSet(U)
  BY FS_AddElement DEF PlantedBut
<1>2. ROOT \in Ino /\ \A y \in T : y.obj \in Ino
  BY Numbers, NameParts
<1>3. \A j \in Ino : md[j].type = nd[j].type /\ (nd[j].type = "dir" => Up(md, j) = Up(nd, j))
  BY DEF SameFiles
<1>4. \A y : y \in U <=> y \in T \/ y = x
  OBVIOUS
<1> HIDE DEF T, U
<1>5. PlantedBut(md, X \ {x.obj})
  <2>1. \A y \in U : md[y.obj].type # "none" /\ y.obj # ROOT
    BY <1>2, <1>3, <1>4 DEF PlantedBut, T
  <2>2. ASSUME NEW d \in Ino \ {ROOT}, md[d].type = "dir"
        PROVE  /\ Up(md, d) \in Ino /\ md[Up(md, d)].type = "dir" /\ Up(md, d) < d
               /\ IF d \in X \ {x.obj} THEN \A y \in U : y.obj # d
                  ELSE /\ \E y \in U : y.dir = Up(md, d) /\ y.obj = d
                       /\ \A y, z \in U : y.obj = d /\ z.obj = d => y = z
    <3>1. /\ nd[d].type = "dir" /\ Up(nd, d) \in Ino /\ nd[Up(nd, d)].type = "dir"
          /\ Up(nd, d) < d /\ Up(md, d) = Up(nd, d)
      BY <1>3, <2>2 DEF PlantedBut
    <3>2. CASE d = x.obj
      <4>1. d \in X /\ x.dir = Up(nd, d)
        BY <3>1, <3>2
      <4>2. \A y \in T : y.obj # d
        BY <2>2, <3>1, <4>1 DEF PlantedBut, T
      <4> QED BY <1>3, <1>4, <3>1, <3>2, <4>1, <4>2
    <3>3. CASE d # x.obj /\ d \in X
      <4>1. \A y \in T : y.obj # d
        BY <2>2, <3>1, <3>3 DEF PlantedBut, T
      <4> QED BY <1>3, <1>4, <3>1, <3>3, <4>1
    <3>4. CASE d # x.obj /\ d \notin X
      <4>1. /\ \E y \in T : y.dir = Up(nd, d) /\ y.obj = d
            /\ \A y, z \in T : y.obj = d /\ z.obj = d => y = z
        BY <2>2, <3>1, <3>4 DEF PlantedBut, T
      <4> QED BY <1>3, <1>4, <3>1, <3>4, <4>1
    <3> QED BY <3>2, <3>3, <3>4
  <2> QED BY <1>1, <1>2, <1>3, <2>1, <2>2 DEF PlantedBut, U
<1>6. ASSUME NEW j \in Ino
      PROVE  NameCount(md, j) = NameCount(nd, j) + (IF j = x.obj THEN 1 ELSE 0)
  <2>1. IsFiniteSet(NamesTo(nd, j)) /\ NameCount(nd, j) \in Nat
    BY <1>1, NameCountIs DEF T
  <2>2. CASE j = x.obj
    <3>1. NamesTo(md, j) = NamesTo(nd, j) \cup {x} /\ x \notin NamesTo(nd, j)
      BY <1>4, <2>2 DEF NamesTo, T, U
    <3> QED BY <2>1, <2>2, <3>1, FS_AddElement DEF NameCount
  <2>3. CASE j # x.obj
    <3>1. NamesTo(md, j) = NamesTo(nd, j)
      BY <1>4, <2>3 DEF NamesTo, T, U
    <3> QED BY <2>1, <2>3, <3>1 DEF NameCount
  <2> QED BY <2>2, <2>3
<1> QED BY <1>5, <1>6

(* A name is dropped: a directory is left without one. *)
LEMMA NameDropped ==
  ASSUME NEW nd, NEW md, NEW x \in TreeNames(nd), Shaped(nd),
         Planted(nd), SameFiles(nd, md), TreeNames(md) = TreeNames(nd) \ {x}
  PROVE  /\ PlantedBut(md, {x.obj})
         /\ \A j \in Ino :
              NameCount(md, j) = NameCount(nd, j) - (IF j = x.obj THEN 1 ELSE 0)
<1> DEFINE T == TreeNames(nd)
           U == TreeNames(md)
<1>1. IsFiniteSet(T) /\ IsFiniteSet(U)
  BY FS_RemoveElement DEF Planted, PlantedBut
<1>2. ROOT \in Ino /\ \A y \in T : y.obj \in Ino
  BY Numbers, NameParts
<1>3. \A j \in Ino : md[j].type = nd[j].type /\ (nd[j].type = "dir" => Up(md, j) = Up(nd, j))
  BY DEF SameFiles
<1>4. \A y : y \in U <=> y \in T /\ y # x
  OBVIOUS
<1> HIDE DEF T, U
<1>5. PlantedBut(md, {x.obj})
  <2>1. \A y \in U : md[y.obj].type # "none" /\ y.obj # ROOT
    BY <1>2, <1>3, <1>4 DEF Planted, PlantedBut, T
  <2>2. ASSUME NEW d \in Ino \ {ROOT}, md[d].type = "dir"
        PROVE  /\ Up(md, d) \in Ino /\ md[Up(md, d)].type = "dir" /\ Up(md, d) < d
               /\ IF d \in {x.obj} THEN \A y \in U : y.obj # d
                  ELSE /\ \E y \in U : y.dir = Up(md, d) /\ y.obj = d
                       /\ \A y, z \in U : y.obj = d /\ z.obj = d => y = z
    <3>1. /\ nd[d].type = "dir" /\ Up(nd, d) \in Ino /\ nd[Up(nd, d)].type = "dir"
          /\ Up(nd, d) < d /\ Up(md, d) = Up(nd, d)
          /\ \E y \in T : y.dir = Up(nd, d) /\ y.obj = d
          /\ \A y, z \in T : y.obj = d /\ z.obj = d => y = z
      BY <1>3, <2>2 DEF Planted, PlantedBut, T
    <3>2. CASE d = x.obj
      BY <1>3, <1>4, <3>1, <3>2 DEF T
    <3>3. CASE d # x.obj
      BY <1>3, <1>4, <3>1, <3>3
    <3> QED BY <3>2, <3>3
  <2> QED BY <1>1, <1>2, <1>3, <2>1, <2>2 DEF Planted, PlantedBut, U
<1>6. ASSUME NEW j \in Ino
      PROVE  NameCount(md, j) = NameCount(nd, j) - (IF j = x.obj THEN 1 ELSE 0)
  <2>1. IsFiniteSet(NamesTo(nd, j)) /\ NameCount(nd, j) \in Nat
    BY <1>1, NameCountIs DEF T
  <2>2. CASE j = x.obj
    <3>1. NamesTo(md, j) = NamesTo(nd, j) \ {x} /\ x \in NamesTo(nd, j)
      BY <1>4, <2>2 DEF NamesTo, T, U
    <3> QED BY <2>1, <2>2, <3>1, FS_RemoveElement DEF NameCount
  <2>3. CASE j # x.obj
    <3>1. NamesTo(md, j) = NamesTo(nd, j)
      BY <1>4, <2>3 DEF NamesTo, T, U
    <3> QED BY <2>1, <2>3, <3>1 DEF NameCount
  <2> QED BY <2>2, <2>3
<1> QED BY <1>5, <1>6

(* A file that nothing names and that names nothing is erased. *)
LEMMA FileErased ==
  ASSUME NEW nd, NEW md, NEW i \in Ino, Shaped(nd), PlantedBut(nd, {i}), i # ROOT,
         TreeNames(md) = TreeNames(nd), \A x \in TreeNames(nd) : x.dir # i /\ x.obj # i,
         md = [nd EXCEPT ![i] = Blank]
  PROVE  /\ Planted(md)
         /\ \A j \in Ino : NameCount(md, j) = NameCount(nd, j)
<1> DEFINE T == TreeNames(nd)
<1>1. ROOT \in Ino /\ \A y \in T : y.obj \in Ino
  BY Numbers, NameParts
<1>2. /\ md[i].type = "none"
      /\ \A j \in Ino \ {i} : md[j].type = nd[j].type /\ Up(md, j) = Up(nd, j)
  BY DEF Shaped, Up, Blank
<1> HIDE DEF T
<1>3. \A y \in T : md[y.obj].type # "none" /\ y.obj # ROOT
  BY <1>1, <1>2 DEF PlantedBut, T
<1>4. ASSUME NEW d \in Ino \ {ROOT}, md[d].type = "dir"
      PROVE  /\ Up(md, d) \in Ino /\ md[Up(md, d)].type = "dir" /\ Up(md, d) < d
             /\ \E y \in T : y.dir = Up(md, d) /\ y.obj = d
             /\ \A y, z \in T : y.obj = d /\ z.obj = d => y = z
  <2>1. d # i
    BY <1>2, <1>4
  <2>2. nd[d].type = "dir" /\ Up(md, d) = Up(nd, d)
    BY <1>2, <1>4, <2>1
  <2>3. /\ Up(nd, d) \in Ino /\ nd[Up(nd, d)].type = "dir" /\ Up(nd, d) < d
        /\ \E y \in T : y.dir = Up(nd, d) /\ y.obj = d
        /\ \A y, z \in T : y.obj = d /\ z.obj = d => y = z
    BY <2>1, <2>2 DEF PlantedBut, T
  <2>4. Up(nd, d) # i
    BY <2>3 DEF T
  <2> QED BY <1>2, <2>2, <2>3, <2>4
<1>5. Planted(md)
  <2>1. md[ROOT].type = "dir" /\ Up(md, ROOT) = ROOT
    BY <1>1, <1>2 DEF PlantedBut
  <2>2. \A j \in Ino : j < ROOT => md[j].type = "none"
    BY <1>2 DEF PlantedBut
  <2>3. IsFiniteSet(TreeNames(md)) /\ TreeNames(md) = T
    BY DEF PlantedBut, T
  <2>4. \A x \in TreeNames(md) : md[x.obj].type # "none" /\ x.obj # ROOT
    BY <1>3, <2>3
  <2>5. \A d \in Ino \ {ROOT} : md[d].type = "dir" =>
          /\ Up(md, d) \in Ino /\ md[Up(md, d)].type = "dir" /\ Up(md, d) < d
          /\ \E x \in TreeNames(md) : x.dir = Up(md, d) /\ x.obj = d
          /\ \A x, y \in TreeNames(md) : x.obj = d /\ y.obj = d => x = y
    BY <1>4, <2>3
  <2> QED BY <2>1, <2>2, <2>3, <2>4, <2>5 DEF Planted, PlantedBut
<1> QED
  BY <1>5 DEF NameCount, NamesTo

(* A number gets its file, which nothing names yet. *)
LEMMA FileMade ==
  ASSUME NEW nd, NEW md, NEW i \in Ino, Shaped(nd), Planted(nd), i > ROOT,
         nd[i].type = "none", TreeNames(md) = TreeNames(nd), NEW f,
         md = [nd EXCEPT ![i] = f], f.type # "none",
         f.type = "dir" => /\ f.dentries[2].ino \in Ino /\ f.dentries[2].ino < i
                           /\ nd[f.dentries[2].ino].type = "dir"
  PROVE  /\ PlantedBut(md, {i})
         /\ \A j \in Ino : NameCount(md, j) = NameCount(nd, j)
         /\ NameCount(md, i) = 0
<1> DEFINE T == TreeNames(nd)
<1>1. ROOT \in Ino /\ (\A y \in T : y.obj \in Ino) /\ \A j \in Ino : j \in Nat
  BY Numbers, NameParts
<1>2. /\ md[i] = f /\ i # ROOT /\ ~ (i < ROOT)
      /\ \A j \in Ino \ {i} : md[j].type = nd[j].type /\ Up(md, j) = Up(nd, j)
  BY <1>1 DEF Shaped, Up, ROOT
<1>3. \A y \in T : y.obj # i
  BY DEF Planted, PlantedBut
<1> HIDE DEF T
<1>4. \A y \in T : md[y.obj].type # "none" /\ y.obj # ROOT
  BY <1>1, <1>2, <1>3 DEF Planted, PlantedBut, T
<1>5. ASSUME NEW d \in Ino \ {ROOT}, md[d].type = "dir"
      PROVE  /\ Up(md, d) \in Ino /\ md[Up(md, d)].type = "dir" /\ Up(md, d) < d
             /\ IF d \in {i} THEN \A y \in T : y.obj # d
                ELSE /\ \E y \in T : y.dir = Up(md, d) /\ y.obj = d
                     /\ \A y, z \in T : y.obj = d /\ z.obj = d => y = z
  <2>1. CASE d = i
    <3>1. /\ Up(md, i) = f.dentries[2].ino /\ Up(md, i) \in Ino
          /\ Up(md, i) < i /\ nd[Up(md, i)].type = "dir" /\ Up(md, i) # i
      BY <1>1, <1>2, <1>5, <2>1 DEF Up
    <3> QED BY <1>2, <1>3, <2>1, <3>1
  <2>2. CASE d # i
    <3>1. /\ nd[d].type = "dir" /\ Up(md, d) = Up(nd, d)
      BY <1>2, <1>5, <2>2
    <3>2. /\ Up(nd, d) \in Ino /\ nd[Up(nd, d)].type = "dir" /\ Up(nd, d) < d
          /\ \E y \in T : y.dir = Up(nd, d) /\ y.obj = d
          /\ \A y, z \in T : y.obj = d /\ z.obj = d => y = z
      BY <3>1 DEF Planted, PlantedBut, T
    <3> QED BY <1>2, <2>2, <3>1, <3>2
  <2> QED BY <2>1, <2>2
<1>6. PlantedBut(md, {i})
  <2>1. md[ROOT].type = "dir" /\ Up(md, ROOT) = ROOT
    BY <1>1, <1>2 DEF Planted, PlantedBut
  <2>2. \A j \in Ino : j < ROOT => md[j].type = "none"
    BY <1>1, <1>2 DEF Planted, PlantedBut
  <2>3. IsFiniteSet(TreeNames(md)) /\ TreeNames(md) = T
    BY DEF Planted, PlantedBut, T
  <2>4. \A x \in TreeNames(md) : md[x.obj].type # "none" /\ x.obj # ROOT
    BY <1>4, <2>3
  <2>5. \A d \in Ino \ {ROOT} : md[d].type = "dir" =>
          /\ Up(md, d) \in Ino /\ md[Up(md, d)].type = "dir" /\ Up(md, d) < d
          /\ IF d \in {i} THEN \A x \in TreeNames(md) : x.obj # d
             ELSE /\ \E x \in TreeNames(md) : x.dir = Up(md, d) /\ x.obj = d
                  /\ \A x, y \in TreeNames(md) : x.obj = d /\ y.obj = d => x = y
    BY <1>5, <2>3
  <2> QED BY <2>1, <2>2, <2>3, <2>4, <2>5 DEF PlantedBut
<1>7. NameCount(md, i) = 0
  BY <1>3, <1>6, NameCountIs DEF PlantedBut, T
<1> QED
  BY <1>6, <1>7 DEF NameCount, NamesTo

(* Only counts, or what kind of file it is that is no directory, change.   *)
LEMMA TreeKept ==
  ASSUME NEW nd, NEW md, NEW X, Shaped(nd), PlantedBut(nd, X), TreeNames(md) = TreeNames(nd),
         \A i \in Ino : /\ md[i].type = "none" <=> nd[i].type = "none"
                        /\ md[i].type = "dir" <=> nd[i].type = "dir"
                        /\ md[i].dentries = nd[i].dentries
  PROVE  /\ PlantedBut(md, X)
         /\ \A j \in Ino : NameCount(md, j) = NameCount(nd, j)
<1>1. ROOT \in Ino /\ \A y \in TreeNames(nd) : y.obj \in Ino
  BY Numbers, NameParts
<1>2. \A i \in Ino : Up(md, i) = Up(nd, i)
  BY DEF Up
<1>3. PlantedBut(md, X)
  BY <1>1, <1>2 DEF PlantedBut
<1> QED
  BY <1>3 DEF NameCount, NamesTo

-----------------------------------------------------------------------------
(* Walks in the tree of a table. *)

LEMMA StepSame ==
  ASSUME NEW nd, NEW md, NEW i, i \in Ino => md[i] = nd[i], NEW s
  PROVE  Step(md, i, s) = Step(nd, i, s)
<1>1. CASE i \in Ino
  BY <1>1 DEF Step, Lookup, Named
<1>2. CASE i \notin Ino
  BY <1>2 DEF Step
<1> QED BY <1>1, <1>2

LEMMA ZeroIsNone ==
  ASSUME NEW nd, Shaped(nd), NEW X, PlantedBut(nd, X)
  PROVE  /\ nd[0].type = "none" /\ ~IsDir(nd, 0)
         /\ nd[Stray].type = "none" /\ ~IsDir(nd, Stray)
         /\ \A x \in TreeNames(nd) : x.obj # 0 /\ x.obj # Stray
<1>1. nd[0].type = "none" /\ nd[Stray].type = "none"
  BY Numbers DEF PlantedBut, Stray, ROOT
<1> QED
  BY <1>1 DEF IsDir, PlantedBut

(* What leads to a directory leads there as long as the names of           *)
(* directories stay.                                                       *)
LEMMA StepKept ==
  ASSUME NEW nd, NEW md, Shaped(nd), Shaped(md), NEW X, PlantedBut(nd, X),
         NEW i, NEW s \in Proper, IsDir(nd, Step(nd, i, s)),
         IsDir(nd, i) => IsDir(md, i) /\ Up(md, i) = Up(nd, i),
         \A x \in TreeNames(nd) : x.dir = i /\ x.name = s /\ IsDir(nd, x.obj)
                                  => x \in TreeNames(md)
  PROVE  IsDir(nd, i) /\ Step(md, i, s) = Step(nd, i, s)
<1>1. IsDir(nd, i)
  BY ZeroIsNone DEF Step, IsDir
<1>2. /\ i \in Ino /\ nd[i].type = "dir" /\ md[i].type = "dir"
      /\ Up(md, i) = Up(nd, i)
  BY <1>1 DEF IsDir
<1>3. CASE s = "." \/ s = ".."
  <2>1. Step(nd, i, s) = Step(md, i, s)
    BY <1>2, <1>3, StepIs
  <2> QED BY <1>1, <2>1
<1>4. CASE s \in Name
  <2>1. Step(nd, i, s) # 0
    BY ZeroIsNone
  <2>2. PICK x \in TreeNames(nd) : x.dir = i /\ x.name = s
    BY <1>2, <1>4, <2>1, StepIs
  <2>3. Step(nd, i, s) = x.obj
    BY <1>2, <2>2, StepIs
  <2>4. x \in TreeNames(md)
    BY <2>2, <2>3
  <2>5. Step(md, i, s) = x.obj
    BY <1>2, <2>2, <2>4, StepIs
  <2> QED BY <1>1, <2>3, <2>5
<1> QED
  BY <1>1, <1>3, <1>4, Segments DEF Proper

LEMMA DirWalkKept ==
  ASSUME NEW nd, NEW md, Shaped(nd), Shaped(md), NEW X, PlantedBut(nd, X),
         NEW p \in Seq(Segment), IsDir(nd, FindReal(nd, p)),
         \A i \in Ino : nd[i].type = "dir" => md[i].type = "dir" /\ Up(md, i) = Up(nd, i),
         \A x \in TreeNames(nd) : nd[x.obj].type = "dir" => x \in TreeNames(md)
  PROVE  FindReal(md, p) = FindReal(nd, p)
<1> DEFINE B == {i \in Ino : nd[i].type = "dir"}
<1>1. \A i : i \in B <=> IsDir(nd, i)
  BY DEF IsDir
<1> HIDE DEF B
<1>2. \A i : IsDir(nd, i) => IsDir(md, i) /\ Up(md, i) = Up(nd, i)
  BY DEF IsDir
<1>3. \A x \in TreeNames(nd) : IsDir(nd, x.obj) => x \in TreeNames(md)
  BY DEF IsDir
<1>4. ASSUME NEW i, NEW k \in 1..Len(p), p[k] \in Proper, Step(nd, i, p[k]) \in B
      PROVE  i \in B /\ Step(md, i, p[k]) = Step(nd, i, p[k])
  <2>1. IsDir(nd, Step(nd, i, p[k]))
    BY <1>1, <1>4
  <2>2. IsDir(nd, i) /\ Step(md, i, p[k]) = Step(nd, i, p[k])
    BY <1>2, <1>3, <1>4, <2>1, StepKept
  <2> QED BY <1>1, <2>2
<1> QED
  BY <1>1, <1>4, WalkKept

(* A removal makes a walk go where it went, or to no file. *)
LEMMA NamesShrunk ==
  ASSUME NEW nd, NEW md, Shaped(nd), Shaped(md), ~IsDir(md, 0),
         \A i \in Ino : md[i].type = "dir" => nd[i].type = "dir" /\ Up(md, i) = Up(nd, i),
         TreeNames(md) \subseteq TreeNames(nd),
         NEW p \in Seq(Segment)
  PROVE  FindReal(md, p) \in {FindReal(nd, p), 0}
<1>1. ASSUME NEW i, NEW s \in Proper
      PROVE  Step(md, i, s) \in {Step(nd, i, s), 0}
  <2>1. CASE ~IsDir(md, i)
    BY <2>1 DEF Step, IsDir
  <2>2. CASE IsDir(md, i)
    <3>1. /\ i \in Ino /\ nd[i].type = "dir" /\ md[i].type = "dir"
          /\ Up(md, i) = Up(nd, i)
      BY <2>2 DEF IsDir
    <3>2. CASE s = "." \/ s = ".."
      BY <3>1, <3>2, StepIs
    <3>3. CASE s \in Name
      <4>1. CASE \E x \in TreeNames(md) : x.dir = i /\ x.name = s
        BY <3>1, <4>1, StepIs
      <4>2. CASE ~ \E x \in TreeNames(md) : x.dir = i /\ x.name = s
        BY <3>1, <3>3, <4>2, StepIs
      <4> QED BY <4>1, <4>2
    <3> QED BY <3>2, <3>3, Segments DEF Proper
  <2> QED BY <2>1, <2>2
<1> QED
  BY <1>1, WalkShrunk

-----------------------------------------------------------------------------
(* Where a path with a name at its end leads. *)

LEMMA PathLeads ==
  ASSUME NEW nd, Shaped(nd), Planted(nd), NEW p \in Path, TailName(p) \in Name,
         NEW d, d = FindReal(nd, ParentPath(p))
  PROVE  /\ FindReal(nd, p) = Step(nd, d, TailName(p))
         /\ IsDir(nd, d) => Find(nd, ParentPath(p)) = d /\ d # 0
         /\ IsDir(nd, d) /\ FindReal(nd, p) = 0 =>
              \A x \in TreeNames(nd) : ~(x.dir = d /\ x.name = TailName(p))
         /\ nd[FindReal(nd, p)].type # "none" =>
              /\ IsDir(nd, d)
              /\ \E x \in TreeNames(nd) :
                   x.dir = d /\ x.name = TailName(p) /\ x.obj = FindReal(nd, p)
<1>1. TailName(p) # ""
  BY Segments
<1>2. FindReal(nd, p) = Step(nd, d, TailName(p))
  BY <1>1, FindRealLast DEF Go
<1>3. IsDir(nd, d) => Find(nd, ParentPath(p)) = d /\ d # 0
  BY ZeroIsNone DEF Planted, IsDir, Find
<1>4. ASSUME IsDir(nd, d), FindReal(nd, p) = 0, NEW x \in TreeNames(nd),
             x.dir = d, x.name = TailName(p)
      PROVE  FALSE
  <2>1. x.obj = 0
    BY <1>2, <1>4, StepIs DEF IsDir
  <2> QED BY <2>1, ZeroIsNone DEF Planted
<1>5. ASSUME nd[FindReal(nd, p)].type # "none"
      PROVE  /\ IsDir(nd, d)
             /\ \E x \in TreeNames(nd) :
                  x.dir = d /\ x.name = TailName(p) /\ x.obj = FindReal(nd, p)
  <2>1. FindReal(nd, p) # 0
    BY <1>5, ZeroIsNone DEF Planted
  <2>2. IsDir(nd, d)
    BY <1>2, <2>1 DEF Step, IsDir
  <2>3. PICK x \in TreeNames(nd) : x.dir = d /\ x.name = TailName(p)
    BY <1>2, <2>1, <2>2, StepIs DEF IsDir
  <2>4. x.obj = FindReal(nd, p)
    BY <1>2, <2>2, <2>3, StepIs DEF IsDir
  <2> QED BY <2>2, <2>3, <2>4
<1> QED
  BY <1>2, <1>3, <1>4, <1>5

(* A path leads to what its last name is the name of, in a table where the *)
(* directories in front of it have stayed.                                 *)
LEMMA NewPathLeads ==
  ASSUME NEW nd, NEW md, Shaped(nd), Planted(nd), Shaped(md),
         \A i \in Ino : nd[i].type = "dir" => md[i].type = "dir" /\ Up(md, i) = Up(nd, i),
         \A y \in TreeNames(nd) : nd[y.obj].type = "dir" => y \in TreeNames(md),
         NEW p \in Path, NEW d \in Ino, d = FindReal(nd, ParentPath(p)), nd[d].type = "dir",
         NEW x \in TreeNames(md), x.dir = d, x.name = TailName(p)
  PROVE  FindReal(md, p) = x.obj
<1>1. IsDir(nd, FindReal(nd, ParentPath(p))) /\ ParentPath(p) \in Seq(Segment)
  BY PathParts DEF IsDir
<1>2. FindReal(md, ParentPath(p)) = d
  BY <1>1, DirWalkKept DEF Planted
<1>3. Step(md, d, TailName(p)) = x.obj
  BY StepIs
<1>4. TailName(p) # ""
  BY NameParts, Segments
<1> QED
  BY <1>2, <1>3, <1>4, FindRealLast DEF Go

-----------------------------------------------------------------------------
(* The inductive invariant of a careful caller.  Every link of a file is a *)
(* name or a handle, and what has a handle is there.                       *)
Counted(nd, h) ==
  \A i \in Ino :
    /\ h[i] > 0 => nd[i].type # "none"
    /\ nd[i].type # "none" =>
         nd[i].nlink = NameCount(nd, i) + h[i] + (IF i = ROOT THEN 1 ELSE 0)

CInv == IInv /\ Shaped(entry) /\ Planted(entry) /\ Counted(entry, held)

LEMMA CInvFacts ==
  ASSUME CInv
  PROVE  /\ count \in Nat /\ count > ROOT /\ count \in Count
         /\ TableBelow(entry, count) /\ Shaped(entry) /\ Planted(entry)
         /\ Counted(entry, held)
         /\ \A i \in Ino : entry[i].type # "none" => i < count
         /\ held \in [Ino -> Nat]
         /\ \A p \in Seq(Segment) : FindReal(entry, p) \in Ino /\ Find(entry, p) \in Ino
<1>1. /\ count \in Nat /\ count > ROOT /\ count \in Count
  BY DEF CInv, IInv, Count, ROOT
<1>2. TableBelow(entry, count)
  BY DEF CInv, IInv
<1>3. \A i \in Ino : entry[i].type # "none" => i < count
  BY <1>1, <1>2, Numbers DEF TableBelow, Blank
<1>4. \A p \in Seq(Segment) : FindReal(entry, p) \in Ino /\ Find(entry, p) \in Ino
  BY <1>1, <1>2, FindRange, FindRealRange, IlistAssumption DEF Count, ROOT, Ino
<1> QED
  BY <1>1, <1>2, <1>3, <1>4 DEF CInv, IInv, HeldBelow

-----------------------------------------------------------------------------
(* my_mkdir and my_creat: the new file, its one name, and nothing else.    *)

Fresh(t, i, d) == [type |-> t, nlink |-> 1, target |-> <<>>,
                   dentries |-> IF t = "dir" THEN << [name |-> ".", ino |-> i],
                                                     [name |-> "..", ino |-> d] >>
                                ELSE <<>>]

LEMMA FreshIsFile ==
  ASSUME NEW t \in {"dir", "reg"}, NEW i \in Ino, NEW d \in Ino
  PROVE  /\ Fresh(t, i, d) \in File /\ Fresh(t, i, d).type = t
         /\ Fresh(t, i, d).nlink = 1 /\ Fresh(t, i, d).target = <<>>
         /\ Len(Fresh(t, i, d).dentries) <= 2
         /\ t = "dir" => /\ Fresh(t, i, d).dentries[1] = [name |-> ".", ino |-> i]
                         /\ Fresh(t, i, d).dentries[2] = [name |-> "..", ino |-> d]
                         /\ Len(Fresh(t, i, d).dentries) = 2
         /\ t # "dir" => Fresh(t, i, d).dentries = <<>>
<1> DEFINE s == << [name |-> ".", ino |-> i], [name |-> "..", ino |-> d] >>
<1>1. [name |-> ".", ino |-> i] \in Dentry /\ [name |-> "..", ino |-> d] \in Dentry
  BY Segments DEF Dentry
<1>2. s \in Seq(Dentry) /\ Len(s) = 2
  BY <1>1
<1>3. <<>> \in Seq(Dentry) /\ Len(<<>>) = 0
  BY EmptySeq
<1> QED
  BY <1>2, <1>3 DEF Fresh, File, Type

Extended(f, n, i) == [f EXCEPT !.dentries = Append(@, [name |-> n, ino |-> i])]

LEMMA PushIs ==
  ASSUME NEW nd \in [Ino -> File], NEW d \in Ino, d # 0, NEW n \in Segment, NEW i \in Ino
  PROVE  /\ Push(nd, d, n, i) \in [Ino -> File]
         /\ Push(nd, d, n, i)[d] = Extended(nd[d], n, i)
         /\ \A j \in Ino \ {d} : Push(nd, d, n, i)[j] = nd[j]
<1> DEFINE e == [name |-> n, ino |-> i]
           f == Extended(nd[d], n, i)
<1>1. e \in Dentry
  BY DEF Dentry
<1>2. nd[d].dentries \in Seq(Dentry)
  BY DEF File
<1>3. Append(nd[d].dentries, e) \in Seq(Dentry)
  <2> HIDE DEF e
  <2> QED BY <1>1, <1>2, AppendProperties
<1>4. f \in File
  BY <1>3 DEF File, Extended
<1>5. Push(nd, d, n, i) = [nd EXCEPT ![d] = f]
  BY DEF Push, Extended
<1> HIDE DEF f
<1> QED
  BY <1>4, <1>5 DEF f

LEMMA AppendTwo ==
  ASSUME NEW S, NEW a \in S, NEW b \in S
  PROVE  Append(<<>>, a) = <<a>> /\ Append(<<a>>, b) = <<a, b>>
<1>1. <<>> \in Seq(S) /\ <<a>> \in Seq(S) /\ <<a, b>> \in Seq(S) /\ Len(<<a>>) = 1 /\ Len(<<a, b>>) = 2
      /\ Len(<<>>) = 0
  BY EmptySeq
<1>2. /\ Append(<<>>, a) \in Seq(S) /\ Len(Append(<<>>, a)) = 1 /\ Append(<<>>, a)[1] = a
  BY <1>1, AppendProperties
<1>3. Append(<<>>, a) = <<a>>
  <2>1. Len(Append(<<>>, a)) = Len(<<a>>)
    BY <1>1, <1>2
  <2>2. \A k \in 1..Len(Append(<<>>, a)) : Append(<<>>, a)[k] = <<a>>[k]
    BY <1>2
  <2> QED BY <1>1, <1>2, <2>1, <2>2, SeqEqual
<1>4. /\ Append(<<a>>, b) \in Seq(S) /\ Len(Append(<<a>>, b)) = 2
      /\ Append(<<a>>, b)[1] = a /\ Append(<<a>>, b)[2] = b
  BY <1>1, AppendProperties
<1>5. Append(<<a>>, b) = <<a, b>>
  <2>1. Len(Append(<<a>>, b)) = Len(<<a, b>>)
    BY <1>1, <1>4
  <2>2. \A k \in 1..Len(Append(<<a>>, b)) : Append(<<a>>, b)[k] = <<a, b>>[k]
    BY <1>4
  <2> QED BY <1>1, <1>4, <2>1, <2>2, SeqEqual
<1> QED BY <1>3, <1>5

LEMMA NewInodeDentries ==
  ASSUME NEW t \in {"dir", "reg"}, NEW i \in Ino, NEW d \in Ino
  PROVE  /\ NewInode(t) \in File
         /\ t = "reg" => NewInode(t) = Fresh(t, i, d)
         /\ t = "dir" => Extended(Extended(NewInode(t), ".", i), "..", d) = Fresh(t, i, d)
<1> DEFINE a == [name |-> ".", ino |-> i]
           b == [name |-> "..", ino |-> d]
           rec(s) == [type |-> t, nlink |-> 1, dentries |-> s, target |-> <<>>]
<1>1. a \in Dentry /\ b \in Dentry
  BY Segments DEF Dentry
<1> HIDE DEF a, b
<1>2. Append(<<>>, a) = <<a>> /\ Append(<<a>>, b) = <<a, b>>
  BY <1>1, AppendTwo
<1>3. [rec(<<>>) EXCEPT !.dentries = Append(@, a)] = rec(<<a>>)
  BY <1>2
<1>4. [rec(<<a>>) EXCEPT !.dentries = Append(@, b)] = rec(<<a, b>>)
  BY <1>2
<1>5. Extended(rec(<<>>), ".", i) = rec(<<a>>) /\ Extended(rec(<<a>>), "..", d) = rec(<<a, b>>)
  BY <1>3, <1>4 DEF Extended, a, b
<1>6. t = "dir" => rec(<<a, b>>) = Fresh(t, i, d)
  BY DEF Fresh, a, b
<1>7. NewInode(t) = rec(<<>>)
  BY DEF NewInode
<1>8. t = "reg" => NewInode(t) = Fresh(t, i, d)
  BY DEF NewInode, Fresh
<1>9. NewInode(t) \in File
  BY EmptySeq DEF NewInode, File, Type
<1> HIDE DEF rec
<1> QED
  BY <1>5, <1>6, <1>7, <1>8, <1>9

(* The name is put in front of "." and "..", and it is the same table.     *)
Linked(nd, i, d, n, t) ==
  LET linked == Push(WithInode(nd, i, t), d, n, i)
  IN IF t = "dir" THEN Push(Push(linked, i, ".", i), i, "..", d) ELSE linked

Grown(nd, i, d, n, t) == Push([nd EXCEPT ![i] = Fresh(t, i, d)], d, n, i)

LEMMA WithDentriesAre ==
  ASSUME NEW nd, Shaped(nd), NEW i \in Ino, i # 0, NEW d \in Ino, d # 0, d # i,
         NEW n \in Segment, NEW t \in {"dir", "reg"}
  PROVE  Linked(nd, i, d, n, t) = Grown(nd, i, d, n, t)
<1> DEFINE made == WithInode(nd, i, t)
           f == Fresh(t, i, d)
           grown == [nd EXCEPT ![i] = f]
           linked == Push(made, d, n, i)
           dot == Push(linked, i, ".", i)
           dots == Push(dot, i, "..", d)
           full == Push(grown, d, n, i)
           e == Extended(nd[d], n, i)
<1>0. "." \in Segment /\ ".." \in Segment
  BY Segments
<1>1. nd \in [Ino -> File] /\ f \in File /\ NewInode(t) \in File
  BY FreshIsFile, NewInodeDentries DEF Shaped
<1>2. made \in [Ino -> File] /\ made[i] = NewInode(t) /\ \A j \in Ino \ {i} : made[j] = nd[j]
  BY <1>1 DEF WithInode
<1> HIDE DEF f
<1>3. grown \in [Ino -> File] /\ grown[i] = f /\ \A j \in Ino \ {i} : grown[j] = nd[j]
  BY <1>1
<1> HIDE DEF made, grown
<1>4. /\ linked \in [Ino -> File] /\ linked[d] = e /\ linked[i] = NewInode(t)
      /\ \A j \in Ino \ {d, i} : linked[j] = nd[j]
  BY <1>2, PushIs
<1>5. /\ full \in [Ino -> File] /\ full[d] = e /\ full[i] = f
      /\ \A j \in Ino \ {d, i} : full[j] = nd[j]
  BY <1>3, PushIs
<1> HIDE DEF linked, full, e
<1>6. CASE t = "reg"
  <2>1. linked[i] = f
    BY <1>4, <1>6, NewInodeDentries DEF f
  <2>2. linked = full
    BY <1>4, <1>5, <2>1
  <2> QED BY <1>6, <2>2 DEF linked, full, made, grown, f, Linked, Grown
<1>7. CASE t = "dir"
  <2>1. /\ dot \in [Ino -> File] /\ \A j \in Ino \ {i} : dot[j] = linked[j]
        /\ dot[i] = Extended(linked[i], ".", i)
    BY <1>0, <1>4, PushIs
  <2> HIDE DEF dot
  <2>2. /\ dots \in [Ino -> File] /\ \A j \in Ino \ {i} : dots[j] = dot[j]
        /\ dots[i] = Extended(dot[i], "..", d)
    BY <1>0, <2>1, PushIs
  <2> HIDE DEF dots
  <2>3. dots[i] = f
    BY <1>4, <1>7, <2>1, <2>2, NewInodeDentries DEF f
  <2>4. dots = full
    BY <1>4, <1>5, <2>1, <2>2, <2>3
  <2> QED BY <1>7, <2>4 DEF dots, dot, linked, full, made, grown, f, Linked, Grown
<1> QED BY <1>6, <1>7

LEMMA MayMakeMeans ==
  ASSUME CInv, NEW p \in Path, MayMake(p), NEW d, d = FindReal(entry, ParentPath(p))
  PROVE  /\ TailName(p) \in Name /\ TailName(p) \in Segment
         /\ d \in Ino /\ d # 0 /\ d < count /\ entry[d].type = "dir"
         /\ FindReal(entry, p) = 0 /\ Step(entry, d, TailName(p)) = 0
         /\ Find(entry, p) = 0 /\ Find(entry, ParentPath(p)) = d
         /\ \A x \in TreeNames(entry) : ~(x.dir = d /\ x.name = TailName(p))
<1>1. TailName(p) \in Name /\ entry[d].type = "dir" /\ FindReal(entry, p) = 0
  BY DEF MayMake, Plain, TypeAt
<1>2. Shaped(entry) /\ Planted(entry) /\ ParentPath(p) \in Seq(Segment)
  BY CInvFacts, PathParts
<1>3. d \in Ino /\ d < count
  BY <1>1, <1>2, CInvFacts
<1>4. IsDir(entry, d)
  BY <1>1, <1>3 DEF IsDir
<1>5. /\ FindReal(entry, p) = Step(entry, d, TailName(p))
      /\ Find(entry, ParentPath(p)) = d /\ d # 0
      /\ \A x \in TreeNames(entry) : ~(x.dir = d /\ x.name = TailName(p))
  BY <1>1, <1>2, <1>4, PathLeads
<1>6. Find(entry, p) = 0
  <2>1. entry[0].type = "none"
    BY <1>2, ZeroIsNone DEF Planted
  <2> QED BY <1>1, <2>1 DEF Find
<1> QED
  BY <1>1, <1>3, <1>5, <1>6, Segments

LEMMA MknodIs ==
  ASSUME CInv, NEW p \in Path, MayMake(p), NEW t \in {"dir", "reg"}, count <= MaxIno,
         NEW d, d = FindReal(entry, ParentPath(p))
  PROVE  Mknod(entry, count, p, t) = Grown(entry, count, d, TailName(p), t)
<1> DEFINE made == WithInode(entry, count, t)
           linked == Push(made, d, TailName(p), count)
<1>1. /\ TailName(p) \in Name /\ TailName(p) \in Segment
      /\ d \in Ino /\ d # 0 /\ d < count /\ entry[d].type = "dir"
      /\ Step(entry, d, TailName(p)) = 0
  BY MayMakeMeans
<1>2. /\ count \in Ino /\ count # 0 /\ count # d
      /\ Shaped(entry) /\ Planted(entry) /\ entry[count].type = "none"
  <2>1. count \in Ino
    BY CInvFacts, Numbers DEF Ino, ROOT
  <2>2. ~ (count < count) /\ count # 0 /\ count # d
    BY <1>1, CInvFacts, Numbers DEF ROOT
  <2>3. entry[count] = Blank
    BY <2>1, CInvFacts DEF TableBelow
  <2> QED BY <2>1, <2>2, <2>3, CInvFacts DEF Blank
<1>3. made[count] = NewInode(t) /\ \A j \in Ino \ {count} : made[j] = entry[j]
  BY <1>2 DEF WithInode, Shaped
<1>4. FindReal(made, ParentPath(p)) = d
  <2> DEFINE B == {i \in Ino : entry[i].type = "dir"}
  <2>1. ASSUME NEW i, NEW s \in Proper, Step(entry, i, s) \in B
        PROVE  i \in B /\ Step(made, i, s) = Step(entry, i, s)
    <3>1. IsDir(entry, i)
      BY <1>2, <2>1, ZeroIsNone DEF Step, IsDir, Planted
    <3>2. i \in Ino => made[i] = entry[i]
      BY <1>2, <1>3, <3>1 DEF IsDir
    <3> QED BY <3>1, <3>2, StepSame DEF IsDir
  <2>2. d \in B
    BY <1>1
  <2> HIDE DEF B, made
  <2>3. ParentPath(p) \in Seq(Segment)
    BY PathParts
  <2> QED BY <2>1, <2>2, <2>3, WalkKept
<1>5. made[d] = entry[d] /\ made[0] = entry[0]
  BY <1>1, <1>2, <1>3, Numbers
<1>6. FindReal(made, p) = 0
  <2>1. Step(made, d, TailName(p)) = 0
    <3> HIDE DEF made
    <3> QED BY <1>1, <1>5, StepSame
  <2>2. TailName(p) # ""
    BY <1>1, Segments
  <2> QED BY <1>4, <2>1, <2>2, FindRealLast DEF Go
<1>7. Find(made, ParentPath(p)) = d /\ Find(made, p) = 0
  <2>1. made[0].type = "none"
    BY <1>2, <1>5, ZeroIsNone DEF Planted
  <2> QED BY <1>1, <1>4, <1>5, <1>6, <2>1 DEF Find
<1>8. made[count].type = t
  BY <1>3 DEF NewInode
<1>9. Mknod(entry, count, p, t) = Linked(entry, count, d, TailName(p), t)
  BY <1>1, <1>7, <1>8 DEF Mknod, Creatable, WithDentries, Linked
<1>10. Linked(entry, count, d, TailName(p), t) = Grown(entry, count, d, TailName(p), t)
  BY <1>1, <1>2, WithDentriesAre
<1> QED
  BY <1>9, <1>10

LEMMA GrownIs ==
  ASSUME CInv, NEW p \in Path, MayMake(p), NEW t \in {"dir", "reg"}, count <= MaxIno,
         NEW d, d = FindReal(entry, ParentPath(p)),
         NEW md, md = Grown(entry, count, d, TailName(p), t)
  PROVE  /\ count \in Ino /\ entry[count] = Blank /\ held[count] = 0
         /\ Shaped(md) /\ Planted(md) /\ Counted(md, held)
         /\ TreeNames(md) =
              TreeNames(entry) \cup {[dir |-> d, name |-> TailName(p), obj |-> count]}
         /\ md[count] = Fresh(t, count, d)
         /\ md[d] = Extended(entry[d], TailName(p), count)
         /\ \A j \in Ino \ {count, d} : md[j] = entry[j]
         /\ \A j \in Ino \ {count} : md[j].type = entry[j].type
         /\ \A j \in Ino : entry[j].type = "dir" => Up(md, j) = Up(entry, j)
         /\ FindReal(md, p) = count
<1> DEFINE f == Fresh(t, count, d)
           nd == [entry EXCEPT ![count] = f]
           n == TailName(p)
           x == [dir |-> d, name |-> n, obj |-> count]
<1>1. /\ n \in Name /\ n \in Segment
      /\ d \in Ino /\ d # 0 /\ d < count /\ entry[d].type = "dir"
      /\ \A y \in TreeNames(entry) : ~(y.dir = d /\ y.name = n)
  BY MayMakeMeans
<1>2. /\ count \in Ino /\ count \in Nat /\ count > ROOT /\ count # d /\ count # ROOT
      /\ Shaped(entry) /\ Planted(entry) /\ Counted(entry, held)
      /\ entry[count] = Blank /\ entry[count].type = "none" /\ held[count] = 0
      /\ entry[count].dentries = <<>>
  <2>1. count \in Ino
    BY CInvFacts, Numbers DEF Ino, ROOT
  <2>2. entry[count] = Blank
    BY <2>1, CInvFacts DEF TableBelow
  <2>3. held[count] \in Nat /\ ~ (held[count] > 0)
    BY <2>1, <2>2, CInvFacts DEF Counted, Blank
  <2> QED BY <1>1, <2>1, <2>2, <2>3, CInvFacts, Numbers DEF Blank, ROOT
<1>3. /\ f \in File /\ f.type = t /\ f.nlink = 1 /\ Len(f.dentries) <= 2
      /\ t = "dir" => /\ f.dentries[1] = [name |-> ".", ino |-> count]
                      /\ f.dentries[2] = [name |-> "..", ino |-> d]
                      /\ Len(f.dentries) = 2
      /\ t # "dir" => f.dentries = <<>>
  BY <1>1, <1>2, FreshIsFile
<1> HIDE DEF f, n
<1>4. Shaped(nd) /\ TreeNames(nd) = TreeNames(entry)
  <2>1. Len(entry[count].dentries) <= 2
    BY <1>2, EmptySeq
  <2>2. f.type = "dir" => f.dentries[1] = [name |-> ".", ino |-> count]
                          /\ f.dentries[2].name = ".." /\ Len(f.dentries) = 2
    BY <1>3
  <2>3. (f.type # "dir" => f.dentries = <<>>) /\ f.type # "none"
    BY <1>3
  <2> QED BY <1>2, <1>3, <2>1, <2>2, <2>3, NoNames
<1>5. /\ PlantedBut(nd, {count}) /\ NameCount(nd, count) = 0
      /\ \A j \in Ino : NameCount(nd, j) = NameCount(entry, j)
  <2>1. f.type # "none"
    BY <1>3
  <2>2. f.type = "dir" => /\ f.dentries[2].ino \in Ino /\ f.dentries[2].ino < count
                          /\ entry[f.dentries[2].ino].type = "dir"
    BY <1>1, <1>3
  <2>3. count \in Ino /\ count > ROOT /\ Shaped(entry) /\ Planted(entry) /\ entry[count].type = "none"
    BY <1>2
  <2>4. TreeNames(nd) = TreeNames(entry)
    BY <1>4
  <2> QED BY <2>1, <2>2, <2>3, <2>4, FileMade
<1>6. nd[count] = f /\ \A j \in Ino \ {count} : nd[j] = entry[j]
  BY <1>2 DEF Shaped
<1> HIDE DEF nd
<1>7. md = Push(nd, d, n, count)
  BY DEF Grown, nd, f, n
<1>8. /\ Shaped(md) /\ SameFiles(nd, md)
      /\ TreeNames(md) = TreeNames(nd) \cup {x}
  <2>1. \A y \in TreeNames(nd) : ~(y.dir = d /\ y.name = n)
    BY <1>1, <1>4
  <2>2. nd[d].type = "dir"
    BY <1>1, <1>2, <1>6
  <2> QED BY <1>1, <1>2, <1>4, <1>7, <2>1, <2>2, PushAddsName
<1>9. md[d] = Extended(nd[d], n, count) /\ \A j \in Ino \ {d} : md[j] = nd[j]
  BY <1>1, <1>2, <1>4, <1>7, PushIs DEF Shaped
<1>10. md[count] = f /\ md[d] = Extended(entry[d], n, count)
       /\ \A j \in Ino \ {count, d} : md[j] = entry[j]
  BY <1>1, <1>2, <1>6, <1>9
<1>11. \A j \in Ino \ {count} : md[j].type = entry[j].type /\ md[j].nlink = entry[j].nlink
  BY <1>6, <1>8 DEF SameFiles
<1>12. /\ PlantedBut(md, {count} \ {count})
       /\ \A j \in Ino : NameCount(md, j) = NameCount(nd, j) + (IF j = count THEN 1 ELSE 0)
  <2>1. x.dir = d /\ x.name = n /\ x.obj = count
    OBVIOUS
  <2>2. x \notin TreeNames(nd)
    BY <1>1, <1>4, <2>1
  <2>3. nd[count].type # "none"
    BY <1>3, <1>6
  <2>4. nd[count].type = "dir" => d = Up(nd, count)
    BY <1>3, <1>6 DEF Up
  <2>5. TreeNames(md) = TreeNames(nd) \cup {x}
    BY <1>8
  <2> HIDE DEF x
  <2>6. /\ x.obj \in Ino /\ nd[x.obj].type # "none" /\ x.obj # ROOT
        /\ nd[x.obj].type = "dir" => x.obj \in {count} /\ x.dir = Up(nd, x.obj)
    BY <1>2, <2>1, <2>3, <2>4
  <2>7. Shaped(nd) /\ PlantedBut(nd, {count}) /\ SameFiles(nd, md)
    BY <1>4, <1>5, <1>8
  <2>8. /\ PlantedBut(md, {count} \ {x.obj})
        /\ \A j \in Ino : NameCount(md, j) = NameCount(nd, j) + (IF j = x.obj THEN 1 ELSE 0)
    BY <2>2, <2>5, <2>6, <2>7, NameAdded
  <2> QED BY <2>1, <2>8
<1>13. Planted(md)
  <2>1. {count} \ {count} = {}
    OBVIOUS
  <2> QED BY <1>12, <2>1 DEF Planted
<1>14. Counted(md, held)
  <2>1. SUFFICES ASSUME NEW j \in Ino
                 PROVE  /\ held[j] > 0 => md[j].type # "none"
                        /\ md[j].type # "none" =>
                             md[j].nlink = NameCount(md, j) + held[j] + (IF j = ROOT THEN 1 ELSE 0)
    BY DEF Counted
  <2>2. CASE j = count
    <3>1. md[j].nlink = 1 /\ NameCount(md, j) = 1 /\ held[j] = 0 /\ j # ROOT
      BY <1>2, <1>3, <1>5, <1>10, <1>12, <2>2
    <3> QED BY <3>1
  <2>3. CASE j # count
    <3>1. NameCount(entry, j) \in Nat
      BY <1>2, NameCountIs DEF Planted, PlantedBut
    <3>2. NameCount(md, j) = NameCount(entry, j)
      BY <1>5, <1>12, <2>3, <3>1
    <3> QED BY <1>2, <1>11, <2>3, <3>2 DEF Counted
  <2> QED BY <2>2, <2>3
<1>15. ASSUME NEW i \in Ino, entry[i].type = "dir"
       PROVE  md[i].type = "dir" /\ Up(md, i) = Up(entry, i)
  BY <1>2, <1>6, <1>8, <1>15 DEF SameFiles, Up
<1>16. FindReal(md, p) = count
  <2>2. \A y \in TreeNames(entry) : y \in TreeNames(md)
    BY <1>4, <1>8
  <2>3. x \in TreeNames(md) /\ x.dir = d /\ x.name = TailName(p) /\ x.obj = count
    BY <1>8 DEF n
  <2> HIDE DEF x
  <2>4. \A i \in Ino : entry[i].type = "dir" => md[i].type = "dir" /\ Up(md, i) = Up(entry, i)
    BY <1>15
  <2>5. \A y \in TreeNames(entry) : entry[y.obj].type = "dir" => y \in TreeNames(md)
    BY <2>2
  <2>6. Shaped(entry) /\ Planted(entry) /\ Shaped(md) /\ d \in Ino /\ entry[d].type = "dir"
    BY <1>1, <1>2, <1>8
  <2>7. FindReal(md, p) = x.obj
    BY <2>3, <2>4, <2>5, <2>6, NewPathLeads
  <2> QED BY <2>3, <2>7
<1> QED
  BY <1>2, <1>4, <1>8, <1>10, <1>11, <1>13, <1>14, <1>15, <1>16 DEF f, n

(* my_symlink turns the new file into a link. *)
LEMMA SymlinkIs ==
  ASSUME CInv, NEW p \in Path, NEW q \in Path, MayMake(q), count <= MaxIno,
         NEW d, d = FindReal(entry, ParentPath(q)),
         NEW md, md = WithLink(entry, p, q)
  PROVE  /\ count \in Ino /\ entry[count] = Blank /\ held[count] = 0
         /\ Shaped(md) /\ Planted(md) /\ Counted(md, held)
         /\ TreeNames(md) =
              TreeNames(entry) \cup {[dir |-> d, name |-> TailName(q), obj |-> count]}
         /\ md[count].type = "lnk" /\ md[count].target = p /\ md[count].dentries = <<>>
         /\ md[d] = Extended(entry[d], TailName(q), count)
         /\ \A j \in Ino \ {count, d} : md[j] = entry[j]
         /\ \A j \in Ino \ {count} : md[j].type = entry[j].type
         /\ FindReal(md, q) = count
<1> DEFINE nd == Grown(entry, count, d, TailName(q), "reg")
           f == [nd[count] EXCEPT !.type = "lnk", !.target = p]
<1>1. /\ count \in Ino /\ entry[count] = Blank /\ held[count] = 0
      /\ Shaped(nd) /\ Planted(nd) /\ Counted(nd, held)
      /\ TreeNames(nd) =
           TreeNames(entry) \cup {[dir |-> d, name |-> TailName(q), obj |-> count]}
      /\ nd[count] = Fresh("reg", count, d)
      /\ nd[d] = Extended(entry[d], TailName(q), count)
      /\ \A j \in Ino \ {count, d} : nd[j] = entry[j]
      /\ \A j \in Ino \ {count} : nd[j].type = entry[j].type
      /\ \A j \in Ino : entry[j].type = "dir" => Up(nd, j) = Up(entry, j)
      /\ FindReal(nd, q) = count
  BY GrownIs
<1>2. /\ TailName(q) \in Name /\ d \in Ino /\ d # count /\ entry[d].type = "dir"
  BY <1>1, MayMakeMeans DEF Blank
<1>3. Mknod(entry, count, q, "reg") = nd
  BY MknodIs
<1>4. nd[count] \in File /\ nd[count].type = "reg" /\ nd[count].dentries = <<>>
  BY <1>1, <1>2, FreshIsFile
<1> HIDE DEF nd
<1>5. Find(nd, q) = count
  BY <1>1, <1>4 DEF Find
<1>6. md = [nd EXCEPT ![count] = f]
  <2>1. Chmoded("reg", WithBits("reg", "lnk")) = "lnk"
    BY DEF Chmoded, WithBits
  <2>2. count # 0
    BY IlistAssumption DEF CInv, IInv, Count, ROOT
  <2>3. md = [nd EXCEPT ![count].type = Chmoded(@, WithBits(@, "lnk")), ![count].target = p]
    BY <1>3, <1>4, <1>5, <2>2 DEF WithLink
  <2>4. nd \in [Ino -> File]
    BY <1>1 DEF Shaped
  <2> QED
    BY <1>1, <1>4, <2>1, <2>3, <2>4
<1>7. /\ f \in File /\ f.dentries = nd[count].dentries /\ f.type = "lnk"
      /\ f.nlink = nd[count].nlink /\ f.target = p
  BY <1>4 DEF File, Type
<1> HIDE DEF f
<1>8. Shaped(md) /\ TreeNames(md) = TreeNames(nd)
  <2>1. f.type # "none" /\ nd[count].type # "none" /\ f.type # "dir" /\ nd[count].type # "dir"
    BY <1>4, <1>7
  <2>2. f.type = "dir" <=> nd[count].type = "dir"
    BY <1>4, <1>7
  <2>3. Shaped(nd) /\ count \in Ino /\ f \in File /\ f.dentries = nd[count].dentries
    BY <1>1, <1>7
  <2>4. /\ Shaped([nd EXCEPT ![count] = f])
        /\ TreeNames([nd EXCEPT ![count] = f]) = TreeNames(nd)
    BY <2>1, <2>2, <2>3, SameDentries
  <2> QED BY <1>6, <2>4
<1>9. md[count] = f /\ \A j \in Ino \ {count} : md[j] = nd[j]
  BY <1>1, <1>6 DEF Shaped
<1>10. \A j \in Ino : /\ md[j].type = "none" <=> nd[j].type = "none"
                      /\ md[j].type = "dir" <=> nd[j].type = "dir"
                      /\ md[j].dentries = nd[j].dentries
                      /\ md[j].nlink = nd[j].nlink
  BY <1>4, <1>7, <1>9
<1>11. Planted(md) /\ \A j \in Ino : NameCount(md, j) = NameCount(nd, j)
  BY <1>1, <1>8, <1>10, TreeKept DEF Planted
<1>12. Counted(md, held)
  BY <1>1, <1>10, <1>11 DEF Counted
<1>13. FindReal(md, q) = count
  <2>1. ASSUME NEW i \in Ino, entry[i].type = "dir"
        PROVE  md[i].type = "dir" /\ Up(md, i) = Up(entry, i)
    BY <1>1, <1>9, <2>1 DEF Up, Blank
  <2>2. \A y \in TreeNames(entry) : y \in TreeNames(md)
    BY <1>1, <1>8
  <2> DEFINE x == [dir |-> d, name |-> TailName(q), obj |-> count]
  <2>3. x \in TreeNames(md) /\ x.dir = d /\ x.name = TailName(q) /\ x.obj = count
    BY <1>1, <1>8
  <2> HIDE DEF x
  <2>4. Shaped(entry) /\ Planted(entry)
    BY CInvFacts
  <2> QED BY <1>2, <1>8, <2>1, <2>2, <2>3, <2>4, NewPathLeads
<1> QED
  BY <1>1, <1>2, <1>4, <1>7, <1>8, <1>9, <1>11, <1>12, <1>13

-----------------------------------------------------------------------------
(* The link counts. *)

LinkSet(nd, i, k) == [nd EXCEPT ![i].nlink = k]

LEMMA LinkSetKeeps ==
  ASSUME NEW nd, Shaped(nd), NEW X, PlantedBut(nd, X), NEW i \in Ino,
         nd[i].type # "none", NEW k \in Int
  PROVE  LET md == LinkSet(nd, i, k)
         IN /\ Shaped(md) /\ PlantedBut(md, X) /\ TreeNames(md) = TreeNames(nd)
            /\ md[i].nlink = k /\ md[i].type = nd[i].type /\ md[i].dentries = nd[i].dentries
            /\ \A j \in Ino \ {i} : md[j] = nd[j]
            /\ \A j \in Ino : NameCount(md, j) = NameCount(nd, j) /\ Up(md, j) = Up(nd, j)
<1> DEFINE f == [nd[i] EXCEPT !.nlink = k]
           md == LinkSet(nd, i, k)
<1>1. nd \in [Ino -> File] /\ nd[i] \in File
  BY DEF Shaped
<1>2. /\ f \in File /\ f.type = nd[i].type /\ f.dentries = nd[i].dentries /\ f.nlink = k
  BY <1>1 DEF File
<1>3. md = [nd EXCEPT ![i] = f]
  BY <1>1 DEF LinkSet
<1> HIDE DEF f, md
<1>4. Shaped(md) /\ TreeNames(md) = TreeNames(nd)
  <2>1. f.type # "none" /\ (f.type = "dir" <=> nd[i].type = "dir")
    BY <1>2
  <2>2. /\ Shaped([nd EXCEPT ![i] = f])
        /\ TreeNames([nd EXCEPT ![i] = f]) = TreeNames(nd)
    BY <1>2, <2>1, SameDentries
  <2> QED BY <1>3, <2>2
<1>5. md[i] = f /\ \A j \in Ino \ {i} : md[j] = nd[j]
  BY <1>1, <1>3
<1>6. \A j \in Ino : md[j].type = nd[j].type /\ md[j].dentries = nd[j].dentries
  BY <1>2, <1>5
<1>7. PlantedBut(md, X) /\ \A j \in Ino : NameCount(md, j) = NameCount(nd, j)
  BY <1>4, <1>6, TreeKept
<1>8. \A j \in Ino : Up(md, j) = Up(nd, j)
  BY <1>6 DEF Up
<1> QED
  BY <1>2, <1>4, <1>5, <1>7, <1>8 DEF md

LEMMA NotHung ==
  ASSUME NEW nd, NEW i, nd[i].type # "dir"
  PROVE  PlantedBut(nd, {i}) <=> Planted(nd)
<1>1. \A d \in Ino \ {ROOT} : nd[d].type = "dir" => (d \in {i} <=> d \in {})
  OBVIOUS
<1> QED
  BY <1>1 DEF Planted, PlantedBut

(* A file whose count is one too high loses that link: it goes if that was *)
(* the last one.  h is the handles there are then.                         *)
LEMMA DropLinkIs ==
  ASSUME NEW nd, Shaped(nd), Planted(nd), NEW h \in [Ino -> Nat],
         NEW i \in Ino, nd[i].type # "none",
         nd[i].nlink = NameCount(nd, i) + h[i] + (IF i = ROOT THEN 1 ELSE 0) + 1,
         \A j \in Ino \ {i} :
           /\ h[j] > 0 => nd[j].type # "none"
           /\ nd[j].type # "none" =>
                nd[j].nlink = NameCount(nd, j) + h[j] + (IF j = ROOT THEN 1 ELSE 0),
         NEW md, md = DropLink(nd, i)
  PROVE  /\ Shaped(md) /\ Planted(md) /\ Counted(md, h) /\ TreeNames(md) = TreeNames(nd)
         /\ \A j \in Ino \ {i} : md[j] = nd[j]
         /\ \A j \in Ino : nd[j].type = "dir" => md[j].type = "dir" /\ Up(md, j) = Up(nd, j)
         /\ md[i].type = IF i = ROOT \/ h[i] > 0 \/ (\E x \in TreeNames(nd) : x.obj = i)
                         THEN nd[i].type ELSE "none"
         /\ md[i].dentries = nd[i].dentries
<1>1. /\ NameCount(nd, i) \in Nat /\ h[i] \in Nat
      /\ NameCount(nd, i) = 0 <=> \A x \in TreeNames(nd) : x.obj # i
  BY NameCountIs DEF Planted, PlantedBut
<1>2. nd[i].type = "dir" => i = ROOT \/ \E x \in TreeNames(nd) : x.obj = i
  BY DEF Planted, PlantedBut
<1>3. nd[i].nlink \in Int /\ (nd[i].nlink = 1 <=> ~ (i = ROOT \/ h[i] > 0 \/ \E x \in TreeNames(nd) : x.obj = i))
  BY <1>1
<1>4. CASE nd[i].nlink = 1
  <2>1. /\ i # ROOT /\ ~ (h[i] > 0) /\ \A x \in TreeNames(nd) : x.obj # i
    BY <1>3, <1>4
  <2>2. nd[i].type # "dir" /\ nd[i].dentries = <<>>
    BY <1>2, <2>1 DEF Shaped
  <2>3. md = [nd EXCEPT ![i] = Blank]
    BY <1>4 DEF DropLink
  <2>4. Shaped(md) /\ TreeNames(md) = TreeNames(nd)
    <3>1. Blank \in File /\ Blank.type = "none" /\ Blank.dentries = <<>> /\ Len(<<>>) = 0
      BY EmptySeq DEF Blank, File, Type
    <3>2. Blank.type # "dir" /\ Len(Blank.dentries) <= 2 /\ Len(nd[i].dentries) <= 2
      BY <2>2, <3>1
    <3> HIDE DEF Blank
    <3>3. /\ Shaped([nd EXCEPT ![i] = Blank])
          /\ TreeNames([nd EXCEPT ![i] = Blank]) = TreeNames(nd)
      BY <3>1, <3>2, NoNames
    <3> QED BY <2>3, <3>3
  <2>5. Planted(md) /\ \A j \in Ino : NameCount(md, j) = NameCount(nd, j)
    <3>1. PlantedBut(nd, {i})
      BY <2>2, NotHung
    <3>2. \A x \in TreeNames(nd) : x.dir # i /\ x.obj # i
      BY <2>1, <2>2, NameParts
    <3> QED BY <2>1, <2>3, <2>4, <3>1, <3>2, FileErased
  <2>6. md[i] = Blank /\ \A j \in Ino \ {i} : md[j] = nd[j]
    BY <2>3 DEF Shaped
  <2>7. Counted(md, h)
    BY <2>1, <2>5, <2>6 DEF Counted, Blank
  <2>8. md[i].type = "none" /\ md[i].dentries = nd[i].dentries
    BY <2>2, <2>6 DEF Blank
  <2>9. \A j \in Ino : nd[j].type = "dir" => md[j].type = "dir" /\ Up(md, j) = Up(nd, j)
    BY <2>2, <2>6 DEF Up
  <2> QED BY <1>3, <1>4, <2>4, <2>5, <2>6, <2>7, <2>8, <2>9
<1>5. CASE nd[i].nlink # 1
  <2>1. md = LinkSet(nd, i, nd[i].nlink - 1)
    BY <1>5 DEF DropLink, LinkSet
  <2>2. /\ Shaped(md) /\ PlantedBut(md, {}) /\ TreeNames(md) = TreeNames(nd)
        /\ md[i].nlink = nd[i].nlink - 1 /\ md[i].type = nd[i].type
        /\ md[i].dentries = nd[i].dentries
        /\ \A j \in Ino \ {i} : md[j] = nd[j]
        /\ \A j \in Ino : NameCount(md, j) = NameCount(nd, j) /\ Up(md, j) = Up(nd, j)
    <3>1. nd[i].nlink - 1 \in Int
      BY <1>3
    <3> QED BY <2>1, <3>1, LinkSetKeeps DEF Planted
  <2>3. Counted(md, h)
    <3>1. SUFFICES ASSUME NEW j \in Ino
                   PROVE  /\ h[j] > 0 => md[j].type # "none"
                          /\ md[j].type # "none" =>
                               md[j].nlink = NameCount(md, j) + h[j] + (IF j = ROOT THEN 1 ELSE 0)
      BY DEF Counted
    <3>2. CASE j = i
      BY <1>1, <1>3, <2>2, <3>2
    <3>3. CASE j # i
      BY <2>2, <3>3
    <3> QED BY <3>2, <3>3
  <2>4. \A j \in Ino : md[j].type = nd[j].type
    BY <2>2
  <2> QED BY <1>3, <1>5, <2>2, <2>3, <2>4 DEF Planted
<1> QED
  BY <1>4, <1>5

-----------------------------------------------------------------------------
(* my_link, my_unlink, my_rmdir and my_rename *)

LEMMA OldName ==
  ASSUME CInv, NEW p \in Path, TailName(p) \in Name,
         NEW i, i = FindReal(entry, p), entry[i].type \in {"dir", "reg"},
         NEW d, d = FindReal(entry, ParentPath(p)),
         NEW x, x = [dir |-> d, name |-> TailName(p), obj |-> i]
  PROVE  /\ i \in Ino /\ i # 0 /\ Find(entry, p) = i
         /\ d \in Ino /\ d # 0 /\ entry[d].type = "dir" /\ Find(entry, ParentPath(p)) = d
         /\ x \in TreeNames(entry) /\ x.dir = d /\ x.name = TailName(p) /\ x.obj = i
         /\ i # ROOT
<1>1. Shaped(entry) /\ Planted(entry) /\ p \in Seq(Segment) /\ ParentPath(p) \in Seq(Segment)
  BY CInvFacts, PathParts
<1>2. i \in Ino /\ d \in Ino /\ Find(entry, p) = i
  BY <1>1, CInvFacts DEF Find
<1>3. entry[FindReal(entry, p)].type # "none"
  OBVIOUS
<1>4. /\ IsDir(entry, d)
      /\ \E y \in TreeNames(entry) : y.dir = d /\ y.name = TailName(p) /\ y.obj = i
  BY <1>1, <1>3, PathLeads
<1>5. d # 0 /\ Find(entry, ParentPath(p)) = d
  BY <1>1, <1>4, PathLeads
<1>6. PICK y \in TreeNames(entry) : y.dir = d /\ y.name = TailName(p) /\ y.obj = i
  BY <1>4
<1>7. y = x
  BY <1>1, <1>6, NameParts
<1>8. i # ROOT
  BY <1>1, <1>6 DEF Planted, PlantedBut
<1>9. i # 0
  BY <1>1, ZeroIsNone DEF Planted
<1> QED
  BY <1>2, <1>4, <1>5, <1>6, <1>7, <1>8, <1>9 DEF IsDir

LEMMA LinkIs ==
  ASSUME CInv, NEW p \in Path, NEW q \in Path, MayLink(p, q), Link(p, q),
         NEW i, i = FindReal(entry, p), NEW d, d = FindReal(entry, ParentPath(q))
  PROVE  /\ Shaped(entry') /\ Planted(entry') /\ Counted(entry', held')
         /\ count' = count /\ held' = held
         /\ i \in Ino /\ entry[i].type = "reg"
         /\ TreeNames(entry') =
              TreeNames(entry) \cup {[dir |-> d, name |-> TailName(q), obj |-> i]}
         /\ \A j \in Ino : entry'[j].type = entry[j].type
         /\ \A j \in Ino : entry[j].type = "dir" => Up(entry', j) = Up(entry, j)
         /\ entry'[d].dentries = Append(entry[d].dentries, [name |-> TailName(q), ino |-> i])
         /\ \A j \in Ino \ {d} : entry'[j].dentries = entry[j].dentries
         /\ FindReal(entry', q) = i
<1> DEFINE n == TailName(q)
           x == [dir |-> d, name |-> n, obj |-> i]
           k == entry[i].nlink + 1
           nd == LinkSet(entry, i, k)
           md == Push(nd, d, n, i)
<1>1. /\ Shaped(entry) /\ Planted(entry) /\ Counted(entry, held)
  BY CInvFacts
<1>2. /\ TailName(p) \in Name /\ entry[i].type = "reg" /\ MayMake(q)
  BY DEF MayLink, Plain, TypeAt
<1>3. i \in Ino /\ i # 0 /\ i # ROOT /\ Find(entry, p) = i
  <2>1. PICK u, y : u = FindReal(entry, ParentPath(p))
                   /\ y = [dir |-> u, name |-> TailName(p), obj |-> i]
    OBVIOUS
  <2>2. entry[i].type \in {"dir", "reg"}
    BY <1>2
  <2> QED BY <1>2, <2>1, <2>2, OldName
<1>4. /\ n \in Name /\ n \in Segment /\ d \in Ino /\ d # 0 /\ entry[d].type = "dir"
      /\ Find(entry, q) = 0 /\ Find(entry, ParentPath(q)) = d
      /\ \A y \in TreeNames(entry) : ~(y.dir = d /\ y.name = n)
  BY <1>2, MayMakeMeans
<1>5. entry' = Push(AddLink(entry, i), d, n, i) /\ count' = count /\ held' = held
  BY <1>2, <1>3, <1>4 DEF Link, Creatable, Fails
<1>6. AddLink(entry, i) = nd
  BY <1>3 DEF AddLink, LinkSet
<1>7. k \in Int
  BY <1>1, <1>3 DEF Shaped, File
<1>8. /\ Shaped(nd) /\ PlantedBut(nd, {}) /\ TreeNames(nd) = TreeNames(entry)
      /\ nd[i].nlink = k /\ nd[i].type = entry[i].type /\ nd[i].dentries = entry[i].dentries
      /\ \A j \in Ino \ {i} : nd[j] = entry[j]
      /\ \A j \in Ino : NameCount(nd, j) = NameCount(entry, j) /\ Up(nd, j) = Up(entry, j)
  BY <1>1, <1>2, <1>3, <1>7, LinkSetKeeps DEF Planted
<1> HIDE DEF n, k, nd
<1>9. \A j \in Ino : nd[j].type = entry[j].type /\ nd[j].dentries = entry[j].dentries
  BY <1>8
<1>10. Shaped(md) /\ SameFiles(nd, md) /\ TreeNames(md) = TreeNames(nd) \cup {x}
  <2>1. nd[d].type = "dir" /\ \A y \in TreeNames(nd) : ~(y.dir = d /\ y.name = n)
    BY <1>4, <1>8, <1>9
  <2> QED BY <1>3, <1>4, <1>8, <2>1, PushAddsName
<1>11. /\ md[d] = Extended(nd[d], n, i) /\ \A j \in Ino \ {d} : md[j] = nd[j]
  BY <1>3, <1>4, <1>8, PushIs DEF Shaped
<1>12. x.dir = d /\ x.name = n /\ x.obj = i
  OBVIOUS
<1>13. entry' = md
  BY <1>5, <1>6
<1> HIDE DEF x, md
<1>14. /\ PlantedBut(md, {} \ {x.obj})
       /\ \A j \in Ino : NameCount(md, j) = NameCount(nd, j) + (IF j = x.obj THEN 1 ELSE 0)
  <2>1. x \notin TreeNames(nd)
    BY <1>4, <1>8, <1>12
  <2>2. /\ x.obj \in Ino /\ nd[x.obj].type # "none" /\ x.obj # ROOT /\ nd[x.obj].type # "dir"
    BY <1>2, <1>3, <1>8, <1>12
  <2> QED BY <1>8, <1>10, <2>1, <2>2, NameAdded
<1>15. Planted(md)
  <2>1. {} \ {x.obj} = {}
    OBVIOUS
  <2> QED BY <1>14, <2>1 DEF Planted
<1>16. Counted(md, held)
  <2>1. SUFFICES ASSUME NEW j \in Ino
                 PROVE  /\ held[j] > 0 => md[j].type # "none"
                        /\ md[j].type # "none" =>
                             md[j].nlink = NameCount(md, j) + held[j] + (IF j = ROOT THEN 1 ELSE 0)
    BY DEF Counted
  <2>2. NameCount(entry, j) \in Nat /\ held[j] \in Nat
    BY <1>1, NameCountIs, CInvFacts DEF Planted, PlantedBut
  <2>3. md[j].type = entry[j].type /\ md[j].nlink = nd[j].nlink
    BY <1>9, <1>10 DEF SameFiles
  <2>4. /\ held[j] > 0 => entry[j].type # "none"
        /\ entry[j].type # "none" =>
             entry[j].nlink = NameCount(entry, j) + held[j] + (IF j = ROOT THEN 1 ELSE 0)
    BY <1>1 DEF Counted
  <2>5. CASE j = i
    <3>1. NameCount(md, j) = NameCount(entry, j) + 1 /\ md[j].nlink = entry[j].nlink + 1
      BY <1>8, <1>12, <1>14, <2>3, <2>5 DEF k
    <3> QED BY <1>2, <1>3, <2>2, <2>3, <2>4, <2>5, <3>1
  <2>6. CASE j # i
    <3>1. NameCount(md, j) = NameCount(entry, j) /\ md[j].nlink = entry[j].nlink
      BY <1>8, <1>12, <1>14, <2>2, <2>3, <2>6
    <3> QED BY <2>3, <2>4, <3>1
  <2> QED BY <2>5, <2>6
<1>17. /\ \A j \in Ino : md[j].type = entry[j].type
       /\ \A j \in Ino : entry[j].type = "dir" => Up(md, j) = Up(entry, j)
  BY <1>8, <1>9, <1>10 DEF SameFiles
<1>18. TreeNames(md) = TreeNames(entry) \cup {x}
  BY <1>8, <1>10
<1>19. FindReal(md, q) = i
  <2>1. \A j \in Ino : entry[j].type = "dir" => md[j].type = "dir" /\ Up(md, j) = Up(entry, j)
    BY <1>17
  <2>2. \A y \in TreeNames(entry) : entry[y.obj].type = "dir" => y \in TreeNames(md)
    BY <1>18
  <2>3. x \in TreeNames(md) /\ x.dir = d /\ x.name = TailName(q)
    BY <1>12, <1>18 DEF n
  <2>4. Shaped(entry) /\ Planted(entry) /\ Shaped(md) /\ d \in Ino /\ entry[d].type = "dir"
    BY <1>1, <1>4, <1>10
  <2>5. FindReal(md, q) = x.obj
    BY <2>1, <2>2, <2>3, <2>4, NewPathLeads
  <2> QED BY <1>12, <2>5
<1>20. /\ md[d].dentries = Append(entry[d].dentries, [name |-> n, ino |-> i])
       /\ \A j \in Ino \ {d} : md[j].dentries = entry[j].dentries
  <2>1. nd[d] \in File
    BY <1>4, <1>8 DEF Shaped
  <2>2. md[d].dentries = Append(nd[d].dentries, [name |-> n, ino |-> i])
    BY <1>11, <2>1 DEF Extended, File
  <2> QED BY <1>4, <1>9, <1>11, <2>2
<1> QED
  BY <1>2, <1>3, <1>5, <1>10, <1>13, <1>15, <1>16, <1>17, <1>18, <1>19, <1>20 DEF x, n

(* A path whose last name has gone leads nowhere. *)
LEMMA NameGone ==
  ASSUME NEW nd, NEW md, Shaped(nd), Shaped(md), Planted(md),
         \A j \in Ino : md[j].type = "dir" => nd[j].type = "dir" /\ Up(md, j) = Up(nd, j),
         NEW p \in Path, NEW d \in Ino, d = FindReal(nd, ParentPath(p)),
         NEW x \in TreeNames(nd), x.dir = d, x.name = TailName(p),
         TreeNames(md) = TreeNames(nd) \ {x}
  PROVE  FindReal(md, p) = 0
<1>1. TailName(p) \in Name /\ TailName(p) # "" /\ ParentPath(p) \in Seq(Segment)
  BY NameParts, Segments, PathParts
<1>2. ~IsDir(md, 0)
  BY ZeroIsNone DEF Planted
<1>3. FindReal(md, ParentPath(p)) \in {d, 0}
  <2>1. TreeNames(md) \subseteq TreeNames(nd)
    OBVIOUS
  <2> QED BY <1>1, <1>2, <2>1, NamesShrunk
<1>4. \A y \in TreeNames(md) : ~(y.dir = d /\ y.name = TailName(p))
  BY NameParts
<1>5. ASSUME NEW e \in {d, 0} PROVE Step(md, e, TailName(p)) = 0
  <2>1. CASE ~IsDir(md, e)
    BY <2>1 DEF Step, IsDir
  <2>2. CASE IsDir(md, e)
    <3>1. e = d /\ md[d].type = "dir"
      BY <1>2, <1>5, <2>2 DEF IsDir
    <3> QED BY <1>1, <1>4, <3>1, StepIs
  <2> QED BY <2>1, <2>2
<1> QED
  BY <1>1, <1>3, <1>5, FindRealLast DEF Go

(* my_unlink and my_rmdir: the name goes, and the file with the last one. *)
LEMMA UnlinkIs ==
  ASSUME CInv, NEW p \in Path, CarefulUnlink(p),
         NEW i, i = FindReal(entry, p), NEW d, d = FindReal(entry, ParentPath(p)),
         NEW x, x = [dir |-> d, name |-> TailName(p), obj |-> i]
  PROVE  /\ Shaped(entry') /\ Planted(entry') /\ Counted(entry', held')
         /\ count' = count /\ held' = held
         /\ i \in Ino /\ entry[i].type = "reg"
         /\ d \in Ino /\ x \in TreeNames(entry)
         /\ entry'[d].dentries = RemoveName(entry, d, TailName(p))[d].dentries
         /\ \A j \in Ino \ {d} : entry'[j].dentries = entry[j].dentries
         /\ TreeNames(entry') = TreeNames(entry) \ {x}
         /\ \A j \in Ino \ {i} : entry'[j].type = entry[j].type
         /\ entry'[i].type = IF held[i] > 0 \/ (\E y \in TreeNames(entry') : y.obj = i)
                             THEN "reg" ELSE "none"
         /\ FindReal(entry', p) = 0
<1> DEFINE n == TailName(p)
           nd == RemoveName(entry, d, n)
<1>1. Shaped(entry) /\ Planted(entry) /\ Counted(entry, held) /\ held \in [Ino -> Nat]
  BY CInvFacts
<1>2. n \in Name /\ entry[i].type = "reg" /\ Unlink(p)
  BY DEF CarefulUnlink, MayUnlink, Plain, TypeAt
<1>3. /\ i \in Ino /\ i # 0 /\ i # ROOT /\ Find(entry, p) = i
      /\ d \in Ino /\ d # 0 /\ entry[d].type = "dir" /\ Find(entry, ParentPath(p)) = d
      /\ x \in TreeNames(entry) /\ x.dir = d /\ x.name = n /\ x.obj = i
  <2>1. entry[i].type \in {"dir", "reg"}
    BY <1>2
  <2> QED BY <1>2, <2>1, OldName
<1>4. n \notin {".", ".."}
  BY <1>2, Segments
<1>5. entry' = DropLink(nd, i) /\ count' = count /\ held' = held
  BY <1>2, <1>3, <1>4 DEF Unlink, Fails
<1>6. Shaped(nd) /\ SameFiles(entry, nd) /\ TreeNames(nd) = TreeNames(entry) \ {x}
  BY <1>1, <1>3, RemoveNameDrops
<1> HIDE DEF nd, n
<1>7. /\ PlantedBut(nd, {i})
      /\ \A j \in Ino : NameCount(nd, j) = NameCount(entry, j) - (IF j = i THEN 1 ELSE 0)
  <2>1. /\ PlantedBut(nd, {x.obj})
        /\ \A j \in Ino : NameCount(nd, j) = NameCount(entry, j) - (IF j = x.obj THEN 1 ELSE 0)
    BY <1>1, <1>3, <1>6, NameDropped
  <2> QED BY <1>3, <2>1
<1>8. /\ \A j \in Ino : nd[j].type = entry[j].type /\ nd[j].nlink = entry[j].nlink
      /\ \A j \in Ino : entry[j].type = "dir" => Up(nd, j) = Up(entry, j)
  BY <1>6 DEF SameFiles
<1>9. Planted(nd)
  <2>1. nd[i].type # "dir"
    BY <1>2, <1>3, <1>8
  <2> QED BY <1>7, <2>1, NotHung
<1>10. ASSUME NEW j \in Ino
       PROVE  NameCount(entry, j) \in Nat /\ NameCount(nd, j) \in Nat /\ held[j] \in Nat
  BY <1>1, <1>9, <1>10, NameCountIs DEF Planted, PlantedBut
<1>11. nd[i].nlink = NameCount(nd, i) + held[i] + (IF i = ROOT THEN 1 ELSE 0) + 1
  <2>1. entry[i].nlink = NameCount(entry, i) + held[i]
    BY <1>1, <1>2, <1>3, <1>10 DEF Counted
  <2>2. NameCount(nd, i) = NameCount(entry, i) - 1
    BY <1>3, <1>7
  <2> QED BY <1>3, <1>8, <1>10, <2>1, <2>2
<1>12. \A j \in Ino \ {i} :
         /\ held[j] > 0 => nd[j].type # "none"
         /\ nd[j].type # "none" =>
              nd[j].nlink = NameCount(nd, j) + held[j] + (IF j = ROOT THEN 1 ELSE 0)
  <2>1. SUFFICES ASSUME NEW j \in Ino \ {i}
                 PROVE  /\ held[j] > 0 => nd[j].type # "none"
                        /\ nd[j].type # "none" =>
                             nd[j].nlink = NameCount(nd, j) + held[j] + (IF j = ROOT THEN 1 ELSE 0)
    OBVIOUS
  <2>2. NameCount(nd, j) = NameCount(entry, j)
    BY <1>7, <1>10
  <2> QED BY <1>1, <1>8, <2>2 DEF Counted
<1>13. nd[i].type # "none"
  BY <1>2, <1>3, <1>8
<1>14. /\ Shaped(entry') /\ Planted(entry') /\ Counted(entry', held)
       /\ TreeNames(entry') = TreeNames(nd)
       /\ \A j \in Ino \ {i} : entry'[j] = nd[j]
       /\ \A j \in Ino : nd[j].type = "dir" => entry'[j].type = "dir" /\ Up(entry', j) = Up(nd, j)
       /\ entry'[i].type = IF i = ROOT \/ held[i] > 0 \/ (\E y \in TreeNames(nd) : y.obj = i)
                           THEN nd[i].type ELSE "none"
       /\ entry'[i].dentries = nd[i].dentries
  BY <1>1, <1>3, <1>5, <1>6, <1>9, <1>11, <1>12, <1>13, DropLinkIs
<1>15. entry'[i].type = IF held[i] > 0 \/ (\E y \in TreeNames(entry') : y.obj = i)
                        THEN "reg" ELSE "none"
  BY <1>2, <1>3, <1>8, <1>14
<1>16. \A j \in Ino \ {i} : entry'[j].type = entry[j].type
  BY <1>8, <1>14
<1>17. \A j \in Ino \ {d} : entry'[j].dentries = entry[j].dentries
  <2>1. \A j \in Ino : entry'[j].dentries = nd[j].dentries
    BY <1>14
  <2>2. \A j \in Ino \ {d} : nd[j] = entry[j]
    BY <1>1, <1>3, <1>6 DEF nd, RemoveName, RemoveDentry, Shaped
  <2> QED BY <2>1, <2>2
<1>18. entry'[d].dentries = nd[d].dentries
  BY <1>3, <1>14
<1>19. FindReal(entry', p) = 0
  <2>1. \A j \in Ino : entry'[j].type = "dir" => entry[j].type = "dir" /\ Up(entry', j) = Up(entry, j)
    <3>1. entry'[i].type # "dir"
      BY <1>15
    <3> QED BY <1>8, <1>14, <1>16, <3>1
  <2>2. TreeNames(entry') = TreeNames(entry) \ {x}
    BY <1>6, <1>14
  <2> QED BY <1>1, <1>3, <1>14, <2>1, <2>2, NameGone DEF n
<1> QED
  BY <1>2, <1>3, <1>5, <1>6, <1>14, <1>15, <1>16, <1>17, <1>18, <1>19 DEF n, nd

LEMMA RmdirIs ==
  ASSUME CInv, NEW p \in Path, CarefulRmdir(p),
         NEW i, i = FindReal(entry, p), NEW d, d = FindReal(entry, ParentPath(p)),
         NEW x, x = [dir |-> d, name |-> TailName(p), obj |-> i]
  PROVE  /\ Shaped(entry') /\ Planted(entry') /\ Counted(entry', held')
         /\ count' = count /\ held' = held
         /\ i \in Ino /\ entry[i].type = "dir" /\ held[i] = 0 /\ i # ROOT /\ i # d
         /\ d \in Ino /\ x \in TreeNames(entry)
         /\ \A y \in TreeNames(entry) : y.dir # i
         /\ \A y \in TreeNames(entry') : y.obj # i
         /\ entry'[i] = Blank
         /\ entry'[d].dentries = RemoveName(entry, d, TailName(p))[d].dentries
         /\ \A j \in Ino \ {d, i} : entry'[j].dentries = entry[j].dentries
         /\ TreeNames(entry') = TreeNames(entry) \ {x}
         /\ \A j \in Ino \ {i} : entry'[j].type = entry[j].type
         /\ FindReal(entry', p) = 0
<1> DEFINE n == TailName(p)
           nd == RemoveName(entry, d, n)
<1>1. Shaped(entry) /\ Planted(entry) /\ Counted(entry, held) /\ held \in [Ino -> Nat]
  BY CInvFacts
<1>2. /\ n \in Name /\ entry[i].type = "dir" /\ Rmdir(p)
      /\ Len(entry[i].dentries) = 2 /\ held[i] = 0
  BY DEF CarefulRmdir, MayRmdir, Plain
<1>3. /\ i \in Ino /\ i # 0 /\ i # ROOT /\ Find(entry, p) = i
      /\ d \in Ino /\ d # 0 /\ entry[d].type = "dir" /\ Find(entry, ParentPath(p)) = d
      /\ x \in TreeNames(entry) /\ x.dir = d /\ x.name = n /\ x.obj = i
  <2>1. entry[i].type \in {"dir", "reg"}
    BY <1>2
  <2> QED BY <1>2, <2>1, OldName
<1>4. /\ Up(entry, i) = d /\ d < i /\ i \in Nat /\ d \in Nat
      /\ \A y \in TreeNames(entry) : y.obj = i => y = x
  <2>1. /\ Up(entry, i) < i
        /\ \E y \in TreeNames(entry) : y.dir = Up(entry, i) /\ y.obj = i
        /\ \A y, z \in TreeNames(entry) : y.obj = i /\ z.obj = i => y = z
    BY <1>1, <1>2, <1>3 DEF Planted, PlantedBut
  <2> QED BY <1>3, <2>1, Numbers
<1>5. Up(entry, d) # i
  <2>1. CASE d = ROOT
    BY <1>1, <1>3, <2>1 DEF Planted, PlantedBut
  <2>2. CASE d # ROOT
    <3>1. Up(entry, d) < d /\ Up(entry, d) \in Ino
      BY <1>1, <1>3, <2>2 DEF Planted, PlantedBut
    <3> QED BY <1>4, <3>1, Numbers
  <2> QED BY <2>1, <2>2
<1>6. RemoveIno(entry, d, i) = nd
  <2>1. /\ \A y \in TreeNames(entry) : y.obj = x.obj => y = x
        /\ x.dir # x.obj /\ Up(entry, x.dir) # x.obj
    BY <1>3, <1>4, <1>5
  <2>2. RemoveIno(entry, x.dir, x.obj) = RemoveName(entry, x.dir, x.name)
    BY <1>1, <1>3, <2>1, RemoveInoDrops
  <2> QED BY <1>3, <2>2
<1>7. NameCount(entry, i) = 1 /\ entry[i].nlink = 1
  <2>1. NamesTo(entry, i) = {x}
    BY <1>3, <1>4 DEF NamesTo
  <2>2. NameCount(entry, i) = 1
    BY <2>1, FS_Singleton DEF NameCount
  <2> QED BY <1>1, <1>2, <1>3, <2>2 DEF Counted
<1>8. entry' = [nd EXCEPT ![i] = Blank] /\ count' = count /\ held' = held
  <2>1. Len(entry[i].dentries) <= 2
    BY <1>2
  <2>2. entry' = WithoutDir(entry, d, i) /\ count' = count /\ held' = held
    BY <1>2, <1>3, <2>1 DEF Rmdir, Fails
  <2> QED BY <1>6, <1>7, <2>2 DEF WithoutDir
<1>9. Shaped(nd) /\ SameFiles(entry, nd) /\ TreeNames(nd) = TreeNames(entry) \ {x}
  BY <1>1, <1>3, RemoveNameDrops
<1>10. \A j \in Ino \ {d} : nd[j] = entry[j]
  BY <1>1, <1>3 DEF nd, RemoveName, RemoveDentry, Shaped
<1> HIDE DEF nd, n
<1>11. /\ PlantedBut(nd, {i})
       /\ \A j \in Ino : NameCount(nd, j) = NameCount(entry, j) - (IF j = i THEN 1 ELSE 0)
  <2>1. /\ PlantedBut(nd, {x.obj})
        /\ \A j \in Ino : NameCount(nd, j) = NameCount(entry, j) - (IF j = x.obj THEN 1 ELSE 0)
    BY <1>1, <1>3, <1>9, NameDropped
  <2> QED BY <1>3, <2>1
<1>12. \A y \in TreeNames(entry) : y.dir # i
  <2>1. ASSUME NEW y \in TreeNames(entry), y.dir = i PROVE FALSE
    <3>1. PICK k \in Nat : NameAt(entry, i, k)
      BY <1>1, <2>1, NameParts
    <3> QED BY <1>2, <3>1 DEF NameAt
  <2> QED BY <2>1
<1>13. \A y \in TreeNames(nd) : y.dir # i /\ y.obj # i
  BY <1>4, <1>9, <1>12
<1>14. Shaped(entry') /\ TreeNames(entry') = TreeNames(nd)
  <2>1. Blank \in File /\ Blank.type = "none" /\ Blank.dentries = <<>> /\ Len(<<>>) = 0
    BY EmptySeq DEF Blank, File, Type
  <2>2. Blank.type # "dir" /\ Len(Blank.dentries) <= 2
    BY <2>1
  <2>3. nd[i].dentries = entry[i].dentries
    BY <1>3, <1>4, <1>10
  <2>4. Len(nd[i].dentries) = 2
    BY <1>2, <2>3
  <2>6. Len(nd[i].dentries) <= 2
    BY <2>4
  <2> HIDE DEF Blank
  <2>5. /\ Shaped([nd EXCEPT ![i] = Blank])
        /\ TreeNames([nd EXCEPT ![i] = Blank]) = TreeNames(nd)
    BY <1>3, <1>9, <2>1, <2>2, <2>6, NoNames
  <2> QED BY <1>8, <2>5
<1>15. Planted(entry') /\ \A j \in Ino : NameCount(entry', j) = NameCount(nd, j)
  <2>1. PICK md : md = entry'
    OBVIOUS
  <2>2. md = [nd EXCEPT ![i] = Blank] /\ TreeNames(md) = TreeNames(nd)
    BY <1>8, <1>14, <2>1
  <2>3. Planted(md) /\ \A j \in Ino : NameCount(md, j) = NameCount(nd, j)
    BY <1>3, <1>9, <1>11, <1>13, <2>2, FileErased, ZenonT(60)
  <2> QED BY <2>1, <2>3
<1>16. entry'[i] = Blank /\ \A j \in Ino \ {i} : entry'[j] = nd[j]
  BY <1>3, <1>8, <1>9 DEF Shaped
<1>17. /\ \A j \in Ino : nd[j].type = entry[j].type /\ nd[j].nlink = entry[j].nlink
       /\ \A j \in Ino : entry[j].type = "dir" => Up(nd, j) = Up(entry, j)
  BY <1>9 DEF SameFiles
<1>18. Counted(entry', held')
  <2>1. SUFFICES ASSUME NEW j \in Ino
                 PROVE  /\ held[j] > 0 => entry'[j].type # "none"
                        /\ entry'[j].type # "none" =>
                             entry'[j].nlink = NameCount(entry', j) + held[j] + (IF j = ROOT THEN 1 ELSE 0)
    BY <1>8 DEF Counted
  <2>2. CASE j = i
    BY <1>2, <1>16, <2>2 DEF Blank
  <2>3. CASE j # i
    <3>1. NameCount(entry, j) \in Nat
      BY <1>1, NameCountIs DEF Planted, PlantedBut
    <3>2. NameCount(entry', j) = NameCount(entry, j)
      BY <1>11, <1>15, <2>3, <3>1
    <3>3. entry'[j].type = entry[j].type /\ entry'[j].nlink = entry[j].nlink
      BY <1>16, <1>17, <2>3
    <3> QED BY <1>1, <3>2, <3>3 DEF Counted
  <2> QED BY <2>2, <2>3
<1>19. \A j \in Ino \ {i} : entry'[j].type = entry[j].type
  BY <1>16, <1>17
<1>20. /\ entry'[d].dentries = nd[d].dentries
       /\ \A j \in Ino \ {d, i} : entry'[j].dentries = entry[j].dentries
  <2>1. d # i
    BY <1>4
  <2>2. entry'[d] = nd[d]
    BY <1>3, <1>16, <2>1
  <2>3. \A j \in Ino \ {d, i} : entry'[j] = entry[j]
    BY <1>10, <1>16
  <2> QED BY <2>2, <2>3
<1>21. FindReal(entry', p) = 0
  <2>1. ASSUME NEW j \in Ino, entry'[j].type = "dir"
        PROVE  entry[j].type = "dir" /\ Up(entry', j) = Up(entry, j)
    <3>1. j # i
      BY <1>16, <2>1 DEF Blank
    <3>2. entry'[j] = nd[j]
      BY <1>16, <3>1
    <3> QED BY <1>17, <2>1, <3>2 DEF Up
  <2>2. TreeNames(entry') = TreeNames(entry) \ {x}
    BY <1>9, <1>14
  <2> QED BY <1>1, <1>3, <1>14, <1>15, <2>1, <2>2, NameGone DEF n
<1>22. i # d
  BY <1>4
<1> QED
  BY <1>2, <1>3, <1>8, <1>9, <1>12, <1>13, <1>14, <1>15, <1>16, <1>18, <1>19, <1>20, <1>21, <1>22
  DEF n, nd

(* my_rename: a name goes and another one comes, and no count changes. *)
LEMMA RenameIs ==
  ASSUME CInv, NEW p \in Path, NEW q \in Path, CarefulRename(p, q),
         NEW i, i = FindReal(entry, p), NEW d, d = FindReal(entry, ParentPath(p)),
         NEW e, e = FindReal(entry, ParentPath(q)),
         NEW x, x = [dir |-> d, name |-> TailName(p), obj |-> i],
         NEW y, y = [dir |-> e, name |-> TailName(q), obj |-> i]
  PROVE  /\ Shaped(entry') /\ Planted(entry') /\ Counted(entry', held')
         /\ count' = count /\ held' = held
         /\ i \in Ino /\ entry[i].type \in {"dir", "reg"} /\ d \in Ino /\ e \in Ino
         /\ entry[e].type = "dir" /\ entry[d].type = "dir"
         /\ entry[i].type = "dir" => ParentPath(p) = ParentPath(q) /\ d < i
         /\ x \in TreeNames(entry) /\ x.dir = d /\ x.name = TailName(p) /\ x.obj = i
         /\ y.dir = e /\ y.name = TailName(q) /\ y.obj = i
         /\ \A z \in TreeNames(entry) : ~(z.dir = e /\ z.name = TailName(q))
         /\ TreeNames(entry') = (TreeNames(entry) \ {x}) \cup {y}
         /\ SameFiles(entry, entry')
         /\ Step(entry', d, TailName(p)) = 0 /\ Step(entry', e, TailName(q)) = i
<1> DEFINE n == TailName(p)
           m == TailName(q)
           nd == RemoveName(entry, d, n)
           md == Push(nd, e, m, i)
<1>1. Shaped(entry) /\ Planted(entry) /\ Counted(entry, held) /\ held \in [Ino -> Nat]
  BY CInvFacts
<1>2. /\ n \in Name /\ MayMake(q) /\ Rename(p, q) /\ entry[i].type \in {"dir", "reg"}
      /\ entry[i].type = "dir" => ParentPath(p) = ParentPath(q)
  BY DEF CarefulRename, MayRename, Plain, TypeAt
<1>3. /\ i \in Ino /\ i # 0 /\ i # ROOT /\ Find(entry, p) = i
      /\ d \in Ino /\ d # 0 /\ entry[d].type = "dir" /\ Find(entry, ParentPath(p)) = d
      /\ x \in TreeNames(entry) /\ x.dir = d /\ x.name = n /\ x.obj = i
  BY <1>2, OldName
<1>4. /\ m \in Name /\ m \in Segment /\ e \in Ino /\ e # 0 /\ entry[e].type = "dir"
      /\ Step(entry, e, m) = 0 /\ Find(entry, ParentPath(q)) = e
      /\ \A z \in TreeNames(entry) : ~(z.dir = e /\ z.name = m)
  BY <1>2, MayMakeMeans
<1>5. n \notin {".", ".."}
  BY <1>2, Segments
<1>6. entry' = md /\ count' = count /\ held' = held
  BY <1>2, <1>3, <1>4, <1>5 DEF Rename, Moved, Fails
<1>7. Shaped(nd) /\ SameFiles(entry, nd) /\ TreeNames(nd) = TreeNames(entry) \ {x}
  BY <1>1, <1>3, RemoveNameDrops
<1> HIDE DEF nd, n, m
<1>8. /\ PlantedBut(nd, {i})
      /\ \A j \in Ino : NameCount(nd, j) = NameCount(entry, j) - (IF j = i THEN 1 ELSE 0)
  <2>1. /\ PlantedBut(nd, {x.obj})
        /\ \A j \in Ino : NameCount(nd, j) = NameCount(entry, j) - (IF j = x.obj THEN 1 ELSE 0)
    BY <1>1, <1>3, <1>7, NameDropped
  <2> QED BY <1>3, <2>1
<1>9. y.dir = e /\ y.name = m /\ y.obj = i
  BY DEF m
<1>10. Shaped(md) /\ SameFiles(nd, md) /\ TreeNames(md) = TreeNames(nd) \cup {y}
  <2>1. nd[e].type = "dir" /\ \A z \in TreeNames(nd) : ~(z.dir = e /\ z.name = m)
    BY <1>4, <1>7 DEF SameFiles
  <2>2. /\ Shaped(Push(nd, e, m, i)) /\ SameFiles(nd, Push(nd, e, m, i))
        /\ TreeNames(Push(nd, e, m, i)) = TreeNames(nd) \cup {[dir |-> e, name |-> m, obj |-> i]}
    BY <1>3, <1>4, <1>7, <2>1, PushAddsName
  <2> QED BY <2>2 DEF m
<1> HIDE DEF md
<1>12. SameFiles(entry, md)
  BY <1>7, <1>10 DEF SameFiles
<1>13. entry[i].type = "dir" => d = e /\ d = Up(entry, i) /\ d < i
  <2>1. SUFFICES ASSUME entry[i].type = "dir" PROVE d = e /\ d = Up(entry, i) /\ d < i
    OBVIOUS
  <2>2. /\ Up(entry, i) < i
        /\ \E z \in TreeNames(entry) : z.dir = Up(entry, i) /\ z.obj = i
        /\ \A z, w \in TreeNames(entry) : z.obj = i /\ w.obj = i => z = w
    BY <1>1, <1>3, <2>1 DEF Planted, PlantedBut
  <2>3. d = Up(entry, i)
    BY <1>3, <2>2
  <2> QED BY <1>2, <2>1, <2>2, <2>3
<1>14. /\ PlantedBut(md, {i} \ {y.obj})
       /\ \A j \in Ino : NameCount(md, j) = NameCount(nd, j) + (IF j = y.obj THEN 1 ELSE 0)
  <2>1. y \notin TreeNames(nd)
    BY <1>4, <1>7, <1>9
  <2>2. nd[i].type = entry[i].type /\ (entry[i].type = "dir" => Up(nd, i) = Up(entry, i))
    BY <1>3, <1>7 DEF SameFiles
  <2>3. /\ y.obj \in Ino /\ nd[y.obj].type # "none" /\ y.obj # ROOT
        /\ nd[y.obj].type = "dir" => y.obj \in {i} /\ y.dir = Up(nd, y.obj)
    BY <1>2, <1>3, <1>9, <1>13, <2>2
  <2>4. /\ Shaped(nd) /\ PlantedBut(nd, {i}) /\ SameFiles(nd, md)
        /\ TreeNames(md) = TreeNames(nd) \cup {y}
    BY <1>7, <1>8, <1>10
  <2>5. ASSUME NEW z, z = y
        PROVE  /\ PlantedBut(md, {i} \ {z.obj})
               /\ \A j \in Ino : NameCount(md, j) = NameCount(nd, j) + (IF j = z.obj THEN 1 ELSE 0)
    <3> HIDE DEF SameFiles
    <3>0. y \notin TreeNames(nd)
      BY <2>1
    <3>1. /\ z \notin TreeNames(nd) /\ TreeNames(md) = TreeNames(nd) \cup {z}
          /\ z.obj \in Ino /\ nd[z.obj].type # "none" /\ z.obj # ROOT
          /\ nd[z.obj].type = "dir" => z.obj \in {i} /\ z.dir = Up(nd, z.obj)
      BY <2>3, <2>4, <2>5, <3>0
    <3> QED BY <2>4, <3>1, NameAdded, ZenonT(60)
  <2> QED BY <2>5
<1>15. Planted(md)
  <2>1. {i} \ {y.obj} = {}
    BY <1>9
  <2> QED BY <1>14, <2>1 DEF Planted
<1>16. Counted(md, held)
  <2>1. SUFFICES ASSUME NEW j \in Ino
                 PROVE  /\ held[j] > 0 => md[j].type # "none"
                        /\ md[j].type # "none" =>
                             md[j].nlink = NameCount(md, j) + held[j] + (IF j = ROOT THEN 1 ELSE 0)
    BY DEF Counted
  <2>2. NameCount(entry, j) \in Nat
    BY <1>1, NameCountIs DEF Planted, PlantedBut
  <2>3. NameCount(md, j) = NameCount(entry, j)
    BY <1>8, <1>9, <1>14, <2>2
  <2>4. md[j].type = entry[j].type /\ md[j].nlink = entry[j].nlink
    BY <1>12 DEF SameFiles
  <2> QED BY <1>1, <2>3, <2>4 DEF Counted
<1>17. TreeNames(md) = (TreeNames(entry) \ {x}) \cup {y}
  BY <1>7, <1>10
<1>18. Step(md, d, n) = 0
  <2>1. \A z \in TreeNames(md) : ~(z.dir = d /\ z.name = n)
    <3>1. \A z \in TreeNames(entry) : z.dir = d /\ z.name = n => z = x
      BY <1>1, <1>3, NameParts
    <3>2. ~(y.dir = d /\ y.name = n)
      BY <1>3, <1>4, <1>9
    <3> QED BY <1>17, <3>1, <3>2
  <2>2. md[d].type = "dir"
    BY <1>3, <1>12 DEF SameFiles
  <2> QED BY <1>2, <1>3, <1>10, <2>1, <2>2, StepIs
<1>19. Step(md, e, m) = i
  <2>1. y \in TreeNames(md) /\ md[e].type = "dir"
    BY <1>4, <1>10, <1>12 DEF SameFiles
  <2> QED BY <1>4, <1>9, <1>10, <2>1, StepIs
<1> QED
  BY <1>2, <1>3, <1>4, <1>6, <1>9, <1>10, <1>12, <1>13, <1>15, <1>16, <1>17, <1>18, <1>19
  DEF n, m

(* What my_rename does to the directories themselves. *)
LEMMA RenameDentries ==
  ASSUME CInv, NEW p \in Path, NEW q \in Path, CarefulRename(p, q),
         NEW i, i = FindReal(entry, p), NEW d, d = FindReal(entry, ParentPath(p)),
         NEW e, e = FindReal(entry, ParentPath(q)),
         NEW cut, cut = RemoveName(entry, d, TailName(p))
  PROVE  /\ i \in Ino /\ d \in Ino /\ e \in Ino /\ entry' = Push(cut, e, TailName(q), i)
         /\ entry'[e].dentries = Append(cut[e].dentries, [name |-> TailName(q), ino |-> i])
         /\ \A j \in Ino \ {e} : entry'[j].dentries = cut[j].dentries
<1> DEFINE n == TailName(p)
           m == TailName(q)
           x == [dir |-> d, name |-> n, obj |-> i]
<1>1. /\ n \in Name /\ MayMake(q) /\ Rename(p, q) /\ entry[i].type \in {"dir", "reg"}
  BY DEF CarefulRename, MayRename, Plain, TypeAt
<1>2. /\ i \in Ino /\ Find(entry, p) = i
      /\ d \in Ino /\ Find(entry, ParentPath(p)) = d
      /\ x \in TreeNames(entry) /\ x.dir = d /\ x.name = n
  BY <1>1, OldName
<1>3. /\ m \in Segment /\ e \in Ino /\ e # 0
      /\ Step(entry, e, m) = 0 /\ Find(entry, ParentPath(q)) = e
  BY <1>1, MayMakeMeans
<1>4. n \notin {".", ".."}
  BY <1>1, Segments
<1>5. entry' = Push(cut, e, m, i)
  BY <1>1, <1>2, <1>3, <1>4 DEF Rename, Moved, Fails
<1>6. Shaped(cut) /\ cut \in [Ino -> File]
  BY <1>2, CInvFacts, RemoveNameDrops DEF Shaped
<1> HIDE DEF n, m, x
<1>7. entry'[e] = Extended(cut[e], m, i) /\ \A j \in Ino \ {e} : entry'[j] = cut[j]
  BY <1>2, <1>3, <1>5, <1>6, PushIs
<1>8. entry'[e].dentries = Append(cut[e].dentries, [name |-> m, ino |-> i])
  <2>1. cut[e] \in File
    BY <1>3, <1>6
  <2> QED BY <1>7, <2>1 DEF Extended, File
<1> QED
  BY <1>2, <1>3, <1>5, <1>7, <1>8 DEF m

-----------------------------------------------------------------------------
(* The way up from a directory.  Above(nd, d, e): the directory d is e or  *)
(* on the way up from it.  (What every set of numbers that holds e and the *)
(* ".." of its directories holds: no recursion to reason about.)           *)
UpClosed(nd, A) == \A i \in A : IsDir(nd, i) => Up(nd, i) \in A

Above(nd, d, e) == \A A \in SUBSET Ino : e \in A /\ UpClosed(nd, A) => d \in A

LEMMA AboveSteps ==
  ASSUME NEW nd, NEW d, NEW e, IsDir(nd, e), Up(nd, e) \in Ino
  PROVE  /\ Above(nd, e, e)
         /\ Above(nd, d, Up(nd, e)) => Above(nd, d, e)
         /\ Above(nd, d, e) /\ d # e => Above(nd, d, Up(nd, e))
<1>1. Above(nd, e, e)
  BY DEF Above
<1>2. ASSUME Above(nd, d, Up(nd, e)) PROVE Above(nd, d, e)
  BY <1>2 DEF Above, UpClosed
<1>3. ASSUME Above(nd, d, e), d # e,
             NEW A \in SUBSET Ino, Up(nd, e) \in A, UpClosed(nd, A)
      PROVE  d \in A
  <2> DEFINE B == A \cup {e}
  <2>1. B \in SUBSET Ino /\ e \in B
    BY DEF IsDir
  <2>2. UpClosed(nd, B)
    BY <1>3 DEF UpClosed
  <2>3. d \in B
    <3> HIDE DEF B
    <3> QED BY <1>3, <2>1, <2>2 DEF Above
  <2> QED BY <1>3, <2>3
<1> QED BY <1>1, <1>2, <1>3 DEF Above

(* The root is above every directory, and nothing above one has a higher   *)
(* number.                                                                 *)
LEMMA AboveOrder ==
  ASSUME NEW nd, Planted(nd), NEW e, IsDir(nd, e)
  PROVE  /\ Up(nd, e) \in Ino /\ IsDir(nd, Up(nd, e)) /\ Up(nd, e) <= e
         /\ e # ROOT => Up(nd, e) < e
         /\ Above(nd, ROOT, e)
         /\ \A d : Above(nd, d, e) => IsDir(nd, d) /\ d <= e
<1>1. /\ ROOT \in Ino /\ IsDir(nd, ROOT) /\ Up(nd, ROOT) = ROOT
      /\ \A i \in Ino : i \in Nat
  BY Numbers DEF Planted, PlantedBut, IsDir
<1>2. ASSUME NEW i, IsDir(nd, i)
      PROVE  /\ i \in Nat /\ Up(nd, i) \in Ino /\ IsDir(nd, Up(nd, i)) /\ Up(nd, i) <= i
             /\ i # ROOT => Up(nd, i) < i
  <2>1. i \in Ino /\ i \in Nat
    BY <1>1, <1>2 DEF IsDir
  <2>2. CASE i = ROOT
    BY <1>1, <2>1, <2>2
  <2>3. CASE i # ROOT
    <3>1. Up(nd, i) \in Ino /\ IsDir(nd, Up(nd, i)) /\ Up(nd, i) < i
      BY <1>2, <2>1, <2>3 DEF Planted, PlantedBut, IsDir
    <3>2. Up(nd, i) \in Nat
      BY <1>1, <3>1
    <3>3. Up(nd, i) <= i
      BY <2>1, <3>1, <3>2
    <3> QED BY <2>1, <2>3, <3>1, <3>3
  <2> QED BY <2>2, <2>3
<1>3. ASSUME NEW A \in SUBSET Ino, e \in A, UpClosed(nd, A)
      PROVE  ROOT \in A
  <2> DEFINE S == {i \in A : IsDir(nd, i)}
  <2>1. S \in SUBSET Nat /\ e \in S
    BY <1>1, <1>3
  <2>2. PICK i \in S : \A j \in S : i <= j
    <3> HIDE DEF S
    <3> QED BY <2>1, MinIsMember
  <2>3. Up(nd, i) \in S
    BY <1>2, <1>3 DEF UpClosed
  <2>4. i <= Up(nd, i) /\ i \in Nat /\ Up(nd, i) \in Nat
    BY <1>1, <1>2, <2>2, <2>3
  <2>5. i = ROOT
    BY <1>2, <2>4
  <2> QED BY <2>5
<1>4. ASSUME NEW d, Above(nd, d, e)
      PROVE  IsDir(nd, d) /\ d <= e
  <2> DEFINE A == {i \in Ino : IsDir(nd, i) /\ i <= e}
  <2>1. A \in SUBSET Ino /\ e \in A
    BY <1>1 DEF IsDir
  <2>2. \A i \in A : Up(nd, i) \in A
    <3> SUFFICES ASSUME NEW i \in A PROVE Up(nd, i) \in A
      OBVIOUS
    <3>1. i \in Nat /\ Up(nd, i) \in Ino /\ IsDir(nd, Up(nd, i)) /\ Up(nd, i) <= i
      BY <1>2
    <3>2. i <= e /\ e \in Nat /\ Up(nd, i) \in Nat
      BY <1>1, <2>1, <3>1
    <3>3. Up(nd, i) <= e
      BY <3>1, <3>2
    <3> QED BY <3>1, <3>3
  <2>3. d \in A
    <3>1. UpClosed(nd, A)
      BY <2>2 DEF UpClosed
    <3> HIDE DEF A
    <3> QED BY <1>4, <2>1, <3>1 DEF Above
  <2> QED BY <2>3
<1> QED BY <1>2, <1>3, <1>4 DEF Above

-----------------------------------------------------------------------------
(* Where the two paths of my_rename lead then.  The way to a directory may *)
(* go up again and through the name that is to go, as "/a/../a" does.      *)

(* A walk that ends at a directory is at directories all the way. *)
LEMMA WalkOverDirs ==
  ASSUME NEW nd, ~IsDir(nd, 0), NEW r, NEW m \in Nat, NEW w, Walks(nd, r, w, m),
         IsDir(nd, w[m])
  PROVE  \A k \in 0..m : IsDir(nd, w[k])
<1> SUFFICES ASSUME NEW k \in 0..m, ~IsDir(nd, w[k]) PROVE FALSE
  OBVIOUS
<1> DEFINE S == {j \in k..m : IsDir(nd, w[j])}
<1>1. S \in SUBSET Nat /\ S # {}
  OBVIOUS
<1>2. PICK j \in S : \A l \in S : j <= l
  <2> HIDE DEF S
  <2> QED BY <1>1, MinIsMember
<1>3. j # k /\ j \in 1..m /\ j - 1 \in k..m /\ j - 1 \notin S
  BY <1>2
<1>4. ~IsDir(nd, w[j - 1]) /\ w[j] = Go(nd, w[j - 1], r[j])
  BY <1>3 DEF Walks
<1>5. ~IsDir(nd, w[j])
  BY <1>4 DEF Go, Step, IsDir
<1> QED BY <1>2, <1>5

(* A walk that is lost stays so. *)
LEMMA WalkLost ==
  ASSUME NEW nd, ~IsDir(nd, 0), NEW r, NEW m \in Nat, NEW w, Walks(nd, r, w, m),
         NEW k \in 0..m, w[k] = 0
  PROVE  w[m] = 0
<1> DEFINE S == {j \in k..m : w[j] # 0}
<1> SUFFICES ASSUME w[m] # 0 PROVE FALSE
  OBVIOUS
<1>1. S \in SUBSET Nat /\ S # {}
  OBVIOUS
<1>2. PICK j \in S : \A l \in S : j <= l
  <2> HIDE DEF S
  <2> QED BY <1>1, MinIsMember
<1>3. j # k /\ j \in 1..m /\ j - 1 \in k..m /\ j - 1 \notin S
  BY <1>2
<1>4. w[j - 1] = 0 /\ w[j] = Go(nd, w[j - 1], r[j])
  BY <1>3 DEF Walks
<1>5. w[j] = 0
  BY <1>4 DEF Go, Step, IsDir
<1> QED BY <1>2, <1>5

(* The first k segments of a path lead where its walk is after k steps. *)
LEMMA PrefixWalks ==
  ASSUME NEW nd, NEW p \in Path, NEW w, Walks(nd, ParentPath(p), w, Len(p) - 1),
         NEW k \in 1..(Len(p) - 1)
  PROVE  FindReal(nd, SubSeq(p, 1, k)) = w[k]
<1> DEFINE s == SubSeq(p, 1, k)
<1>1. /\ p \in Seq(Segment) /\ Len(p) \in Nat
      /\ \A j \in 1..(Len(p) - 1) : ParentPath(p)[j] = p[j]
  BY PathParts
<1>2. k \in Nat /\ k <= Len(p)
  BY <1>1
<1>3. s \in Seq(Segment) /\ Len(s) = k /\ \A j \in 1..k : s[j] = p[j]
  <2>1. \A j \in 1..k : p[j] \in Segment
    BY <1>1, <1>2, ElementOfSeq
  <2>2. /\ s \in Seq(Segment) /\ Len(s) = IF 1 <= k THEN k - 1 + 1 ELSE 0
        /\ \A j \in 1..(k - 1 + 1) : s[j] = p[1 + j - 1]
    BY <1>2, <2>1, SubSeqProperties
  <2>3. k - 1 + 1 = k /\ 1 <= k /\ \A j \in 1..k : 1 + j - 1 = j
    BY <1>2
  <2> QED BY <2>2, <2>3
<1> HIDE DEF s
<1>4. PICK v : Walks(nd, s, v, k) /\ FindReal(nd, s) = v[k]
  BY <1>3, FindRealWalks
<1>5. Walks(nd, ParentPath(p), w, k)
  BY <1>1 DEF Walks
<1>6. \A j \in 1..k : s[j] = ParentPath(p)[j]
  BY <1>1, <1>3
<1>7. v[k] = w[k]
  BY <1>2, <1>4, <1>5, <1>6, WalksAgree
<1> QED BY <1>4, <1>7 DEF s

(* A step that does not start below i: it comes to i by a name of i alone, *)
(* and one that goes elsewhere is not below i either.  md has every name   *)
(* of nd that is not of i.                                                 *)
OthersKept(nd, md, i) ==
  /\ Shaped(nd) /\ Shaped(md) /\ Planted(nd) /\ i # ROOT
  /\ \A j : IsDir(nd, j) => IsDir(md, j) /\ Up(md, j) = Up(nd, j)
  /\ \A z \in TreeNames(nd) : z.obj # i => z \in TreeNames(md)

LEMMA StepAside ==
  ASSUME NEW nd, NEW md, NEW i, OthersKept(nd, md, i),
         NEW j, IsDir(nd, j), ~Above(nd, i, j), NEW s \in Proper,
         NEW t, t = Step(nd, j, s), IsDir(nd, t)
  PROVE  /\ t # i => Step(md, j, s) = t /\ ~Above(nd, i, t)
         /\ t = i => \E z \in TreeNames(nd) : z.dir = j /\ z.name = s /\ z.obj = i
<1>1. Shaped(nd) /\ Shaped(md) /\ Planted(nd) /\ PlantedBut(nd, {})
  BY DEF OthersKept, Planted
<1>2. /\ j \in Ino /\ nd[j].type = "dir" /\ Up(nd, j) \in Ino /\ Above(nd, j, j)
      /\ ~Above(nd, i, Up(nd, j)) \/ i = j
  BY <1>1, AboveOrder, AboveSteps DEF IsDir
<1>3. i # j
  BY <1>2
<1>4. Step(nd, j, "..") = Up(nd, j) /\ Step(nd, j, ".") \in {j, Stray}
  BY <1>1, <1>2, StepIs
<1>5. CASE s \notin {".", ".."}
  <2>1. s \in Name
    BY <1>5, Segments DEF Proper
  <2>2. t # 0
    BY <1>1, ZeroIsNone
  <2>3. PICK z \in TreeNames(nd) : z.dir = j /\ z.name = s
    BY <1>1, <1>2, <2>1, <2>2, StepIs
  <2>4. z.obj = t
    BY <1>1, <1>2, <2>3, StepIs
  <2>5. ASSUME t # i PROVE Step(md, j, s) = t /\ ~Above(nd, i, t)
    <3>1. \A y \in TreeNames(nd) : y.dir = j /\ y.name = s /\ IsDir(nd, y.obj)
                                    => y \in TreeNames(md)
      <4>1. \A y \in TreeNames(nd) : y.dir = j => Step(nd, j, y.name) = y.obj
        BY <1>1, <1>2, StepIs
      <4> QED BY <2>5, <4>1 DEF OthersKept
    <3>2. IsDir(nd, j) => IsDir(md, j) /\ Up(md, j) = Up(nd, j)
      BY DEF OthersKept
    <3>3. IsDir(nd, Step(nd, j, s))
      OBVIOUS
    <3>4. Step(md, j, s) = t
      BY <1>1, <3>1, <3>2, <3>3, StepKept
    <3>5. Up(nd, t) = j
      <4>1. t \in Ino \ {ROOT} /\ nd[t].type = "dir"
        BY <1>1, <2>3, <2>4 DEF PlantedBut, IsDir
      <4>2. /\ \E y \in TreeNames(nd) : y.dir = Up(nd, t) /\ y.obj = t
            /\ \A y, u \in TreeNames(nd) : y.obj = t /\ u.obj = t => y = u
        BY <1>1, <4>1 DEF PlantedBut
      <4> QED BY <2>3, <2>4, <4>2
    <3>6. ~Above(nd, i, t)
      <4>1. Up(nd, t) \in Ino
        BY <1>2, <3>5
      <4> QED BY <2>5, <3>5, <4>1, AboveSteps
    <3> QED BY <3>4, <3>6
  <2> QED BY <2>3, <2>4, <2>5
<1>6. CASE s \in {".", ".."}
  <2>1. t = Up(nd, j) \/ t = j
    <3>1. t # Stray
      BY <1>1, ZeroIsNone
    <3> QED BY <1>4, <1>6, <3>1
  <2>2. ~Above(nd, i, t)
    BY <1>2, <1>3, <2>1
  <2>3. t # i
    <3>1. Up(nd, t) \in Ino
      BY <1>1, AboveOrder
    <3>2. Above(nd, t, t)
      BY <3>1, AboveSteps
    <3> QED BY <2>2, <3>2
  <2>4. Step(md, j, s) = t
    <3>1. ASSUME NEW y \in TreeNames(nd), y.dir = j, y.name = s PROVE FALSE
      BY <1>1, <1>6, <3>1, NameParts, Segments
    <3>2. IsDir(nd, j) => IsDir(md, j) /\ Up(md, j) = Up(nd, j)
      BY DEF OthersKept
    <3>3. IsDir(nd, Step(nd, j, s))
      OBVIOUS
    <3> QED BY <1>1, <3>1, <3>2, <3>3, StepKept
  <2> QED BY <2>2, <2>3, <2>4
<1> QED BY <1>5, <1>6

(* As long as a walk has not been at i, it is nowhere below i, and goes    *)
(* the same way in md.                                                     *)
LEMMA WalkAside ==
  ASSUME NEW nd, NEW md, NEW i, OthersKept(nd, md, i), NEW r \in Seq(Segment),
         NEW m \in Nat, m <= Len(r), NEW w, Walks(nd, r, w, m), NEW v, Walks(md, r, v, m),
         \A k \in 0..m : IsDir(nd, w[k]) /\ w[k] # i
  PROVE  \A k \in 0..m : v[k] = w[k] /\ ~Above(nd, i, w[k])
<1> DEFINE Good(k) == v[k] = w[k] /\ ~Above(nd, i, w[k])
           S == {k \in 0..m : ~Good(k)}
<1> SUFFICES ASSUME S # {} PROVE FALSE
  OBVIOUS
<1>1. PICK k \in S : \A l \in S : k <= l
  <2>1. S \in SUBSET Nat
    OBVIOUS
  <2> HIDE DEF S
  <2> QED BY <2>1, MinIsMember
<1>2. k \in 0..m /\ ~Good(k)
  BY <1>1
<1>3. Planted(nd) /\ i # ROOT
  BY DEF OthersKept
<1>4. Good(0)
  <2>1. w[0] = ROOT /\ v[0] = ROOT /\ IsDir(nd, ROOT)
    BY DEF Walks
  <2>2. ASSUME Above(nd, i, ROOT) PROVE FALSE
    <3>1. IsDir(nd, i) /\ i <= ROOT
      BY <1>3, <2>1, <2>2, AboveOrder
    <3>2. i \in Ino /\ i \in Nat /\ nd[i].type = "dir"
      BY <3>1, Numbers DEF IsDir
    <3>3. i < ROOT
      BY <1>3, <3>1, <3>2 DEF ROOT
    <3> QED BY <1>3, <3>2, <3>3 DEF Planted, PlantedBut
  <2> QED BY <2>1, <2>2
<1>5. k # 0
  BY <1>2, <1>4
<1>6. k \in 1..m /\ k - 1 \in 0..m /\ ~(k <= k - 1) /\ k \in 1..Len(r)
  BY <1>2, <1>5, LenProperties
<1>7. Good(k - 1)
  <2> HIDE DEF Good
  <2> QED BY <1>1, <1>6
<1>8. /\ w[k] = Go(nd, w[k - 1], r[k]) /\ v[k] = Go(md, w[k - 1], r[k])
      /\ IsDir(nd, w[k - 1]) /\ ~Above(nd, i, w[k - 1]) /\ IsDir(nd, w[k]) /\ w[k] # i
  BY <1>6, <1>7 DEF Walks
<1>9. Good(k)
  <2>1. CASE r[k] = ""
    BY <1>8, <2>1 DEF Go
  <2>2. CASE r[k] # ""
    <3>1. r[k] \in Proper
      BY <1>6, <2>2, ElementOfSeq DEF Proper
    <3>2. w[k] = Step(nd, w[k - 1], r[k]) /\ v[k] = Step(md, w[k - 1], r[k])
      BY <1>8, <2>2 DEF Go
    <3>3. Step(md, w[k - 1], r[k]) = w[k] /\ ~Above(nd, i, w[k])
      BY <1>8, <3>1, <3>2, StepAside
    <3> QED BY <3>2, <3>3
  <2> QED BY <2>1, <2>2
<1> QED BY <1>2, <1>9

(* Where the path of the directory renamed in, or renamed to, leads then.  *)
LEMMA RenameParent ==
  ASSUME CInv, NEW p \in Path, NEW q \in Path, CarefulRename(p, q),
         NEW i, i = FindReal(entry, p), NEW r, r \in {ParentPath(p), ParentPath(q)},
         NEW w, Walks(entry, r, w, Len(r)), FindReal(entry, r) = w[Len(r)]
  PROVE  FindReal(entry', r) = IF \E k \in 1..Len(r) : w[k] = i THEN 0 ELSE FindReal(entry, r)
<1> DEFINE d == FindReal(entry, ParentPath(p))
           e == FindReal(entry, ParentPath(q))
           x == [dir |-> d, name |-> TailName(p), obj |-> i]
           y == [dir |-> e, name |-> TailName(q), obj |-> i]
           L == Len(r)
<1>0. /\ d = FindReal(entry, ParentPath(p)) /\ e = FindReal(entry, ParentPath(q))
      /\ x = [dir |-> d, name |-> TailName(p), obj |-> i]
      /\ y = [dir |-> e, name |-> TailName(q), obj |-> i]
  OBVIOUS
<1> HIDE DEF x, y, d, e
<1>1. /\ Shaped(entry') /\ Planted(entry') /\ i \in Ino
      /\ entry[e].type = "dir" /\ entry[d].type = "dir" /\ d \in Ino /\ e \in Ino
      /\ x \in TreeNames(entry) /\ x.dir = d /\ x.name = TailName(p) /\ x.obj = i
      /\ TreeNames(entry') = (TreeNames(entry) \ {x}) \cup {y}
      /\ SameFiles(entry, entry')
      /\ Step(entry', d, TailName(p)) = 0
  BY <1>0, RenameIs
<1>2. Shaped(entry) /\ Planted(entry) /\ PlantedBut(entry, {})
  BY CInvFacts DEF Planted
<1>3. i # ROOT
  BY <1>1, <1>2 DEF PlantedBut
<1>4. OthersKept(entry, entry', i)
  <2>1. \A j : IsDir(entry, j) => IsDir(entry', j) /\ Up(entry', j) = Up(entry, j)
    BY <1>1 DEF SameFiles, IsDir
  <2>2. \A z \in TreeNames(entry) : z.obj # i => z \in TreeNames(entry')
    BY <1>1
  <2> QED BY <1>1, <1>2, <1>3, <2>1, <2>2 DEF OthersKept
<1>5. r \in Seq(Segment) /\ L \in Nat
  BY PathParts, LenProperties
<1>6. ~IsDir(entry, 0) /\ ~IsDir(entry', 0)
  <2>1. PlantedBut(entry', {})
    BY <1>1 DEF Planted
  <2> QED BY <1>1, <1>2, <2>1, ZeroIsNone
<1>7. IsDir(entry, w[L])
  BY <1>0, <1>1 DEF IsDir
<1>8. PICK v : Walks(entry', r, v, L) /\ FindReal(entry', r) = v[L]
  BY <1>5, FindRealWalks
<1> HIDE DEF L
<1>9. \A k \in 0..L : IsDir(entry, w[k])
  BY <1>5, <1>6, <1>7, WalkOverDirs DEF L
<1>10. L <= Len(r) /\ Walks(entry, r, w, L) /\ w[0] = ROOT
  BY <1>5 DEF L, Walks
<1>11. CASE ~ \E k \in 1..L : w[k] = i
  <2>1. \A k \in 0..L : w[k] # i
    BY <1>3, <1>5, <1>10, <1>11
  <2>2. \A k \in 0..L : v[k] = w[k]
    BY <1>4, <1>5, <1>8, <1>9, <1>10, <2>1, WalkAside
  <2> QED BY <1>5, <1>8, <1>11, <2>2 DEF L
<1>12. CASE \E k \in 1..L : w[k] = i
  <2> DEFINE S == {k \in 1..L : w[k] = i}
  <2>1. PICK k \in S : \A l \in S : k <= l
    <3>1. S \in SUBSET Nat /\ S # {}
      BY <1>12
    <3> HIDE DEF S
    <3> QED BY <3>1, MinIsMember
  <2> DEFINE m == k - 1
  <2>2. /\ k \in 1..L /\ w[k] = i /\ m \in Nat /\ m < k /\ m <= Len(r) /\ m \in 0..L
        /\ k \in 1..Len(r) /\ k \in 0..L
    BY <1>5, <1>10, <2>1 DEF L
  <2>3. \A l \in 0..m : IsDir(entry, w[l]) /\ w[l] # i
    <3>1. ASSUME NEW l \in 0..m, l # 0 PROVE l \in 1..L /\ ~(k <= l)
      BY <1>5, <2>2, <3>1
    <3>2. \A l \in 0..m : l \in 0..L
      BY <1>5, <2>2
    <3> QED BY <1>3, <1>9, <1>10, <2>1, <3>1, <3>2
  <2>4. Walks(entry, r, w, m) /\ Walks(entry', r, v, m)
    BY <1>5, <1>8, <1>10, <2>2 DEF Walks
  <2>5. /\ w[k] = Go(entry, w[m], r[k]) /\ v[k] = Go(entry', v[m], r[k])
    BY <1>8, <1>10, <2>2 DEF Walks
  <2>6. m \in 0..m
    BY <2>2
  <2> HIDE DEF m
  <2>7. v[m] = w[m] /\ ~Above(entry, i, w[m]) /\ IsDir(entry, w[m]) /\ w[m] # i
    BY <1>4, <1>5, <2>2, <2>3, <2>4, <2>6, WalkAside
  <2>8. r[k] # ""
    BY <2>2, <2>5, <2>7 DEF Go
  <2>9. r[k] \in Proper
    BY <1>5, <2>2, <2>8, ElementOfSeq DEF Proper
  <2>10. i = Step(entry, w[m], r[k]) /\ v[k] = Step(entry', w[m], r[k]) /\ IsDir(entry, i)
    BY <1>9, <2>2, <2>5, <2>7, <2>8 DEF Go
  <2>11. PICK z \in TreeNames(entry) : z.dir = w[m] /\ z.name = r[k] /\ z.obj = i
    BY <1>4, <2>7, <2>9, <2>10, StepAside
  <2>12. z = x
    <3>1. \A u, t \in TreeNames(entry) : u.obj = i /\ t.obj = i => u = t
      BY <1>2, <1>3, <2>10 DEF PlantedBut, IsDir
    <3> QED BY <1>1, <2>11, <3>1
  <2>13. v[k] = 0
    BY <1>1, <2>10, <2>11, <2>12
  <2>14. v[L] = 0
    BY <1>5, <1>6, <1>8, <2>2, <2>13, WalkLost
  <2> QED BY <1>8, <1>12, <2>14 DEF L
<1> QED BY <1>11, <1>12 DEF L

LEMMA RenameLeads ==
  ASSUME CInv, NEW p \in Path, NEW q \in Path, CarefulRename(p, q)
  PROVE  /\ FindReal(entry', q) = IF Through(p) THEN 0 ELSE FindReal(entry, p)
         /\ FindReal(entry', p) = 0
         /\ entry[FindReal(entry, p)].type = "reg" => ~Through(p)
<1> DEFINE i == FindReal(entry, p)
           d == FindReal(entry, ParentPath(p))
           e == FindReal(entry, ParentPath(q))
           x == [dir |-> d, name |-> TailName(p), obj |-> i]
           y == [dir |-> e, name |-> TailName(q), obj |-> i]
<1>0. /\ i = FindReal(entry, p) /\ d = FindReal(entry, ParentPath(p))
      /\ e = FindReal(entry, ParentPath(q))
      /\ x = [dir |-> d, name |-> TailName(p), obj |-> i]
      /\ y = [dir |-> e, name |-> TailName(q), obj |-> i]
  OBVIOUS
<1> HIDE DEF x, y, i, d, e
<1>1. /\ entry[i].type \in {"dir", "reg"}
      /\ entry[i].type = "dir" => ParentPath(p) = ParentPath(q)
      /\ Shaped(entry') /\ Planted(entry') /\ entry[d].type = "dir" /\ entry[e].type = "dir"
      /\ d \in Ino /\ e \in Ino
      /\ Step(entry', d, TailName(p)) = 0 /\ Step(entry', e, TailName(q)) = i
  BY <1>0, RenameIs
<1>2. /\ TailName(p) # "" /\ TailName(q) # ""
      /\ ParentPath(p) \in Seq(Segment) /\ ParentPath(q) \in Seq(Segment)
      /\ Len(ParentPath(p)) = Len(p) - 1 /\ Len(p) - 1 \in Nat /\ Len(ParentPath(q)) \in Nat
  <2>1. TailName(p) # "" /\ TailName(q) # ""
    BY Segments DEF CarefulRename, MayRename, MayMake, Plain
  <2>2. /\ ParentPath(p) \in Seq(Segment) /\ ParentPath(q) \in Seq(Segment)
        /\ Len(ParentPath(p)) = Len(p) - 1
    BY PathParts
  <2>3. Len(ParentPath(p)) \in Nat /\ Len(ParentPath(q)) \in Nat
    BY <2>2, LenProperties
  <2> QED BY <2>1, <2>2, <2>3
<1>3. PICK w : /\ Walks(entry, ParentPath(p), w, Len(p) - 1)
               /\ d = w[Len(p) - 1]
  BY <1>2, FindRealWalks DEF d
<1>4. PICK u : /\ Walks(entry, ParentPath(q), u, Len(ParentPath(q)))
               /\ e = u[Len(ParentPath(q))]
  BY <1>2, FindRealWalks DEF e
<1>5. ~IsDir(entry, 0) /\ ~IsDir(entry', 0)
  <2>1. Shaped(entry) /\ PlantedBut(entry, {}) /\ PlantedBut(entry', {})
    BY <1>1, CInvFacts DEF Planted
  <2> QED BY <1>1, <2>1, ZeroIsNone
<1>6. Through(p) <=> \E k \in 1..(Len(p) - 1) : w[k] = i
  BY <1>3, PrefixWalks DEF Through, i
<1>7. FindReal(entry', ParentPath(p)) = IF Through(p) THEN 0 ELSE d
  <2>1. /\ ParentPath(p) \in {ParentPath(p), ParentPath(q)}
        /\ Walks(entry, ParentPath(p), w, Len(ParentPath(p)))
        /\ FindReal(entry, ParentPath(p)) = w[Len(ParentPath(p))]
        /\ i = FindReal(entry, p)
    BY <1>0, <1>2, <1>3
  <2>2. FindReal(entry', ParentPath(p)) =
          IF \E k \in 1..Len(ParentPath(p)) : w[k] = i THEN 0 ELSE FindReal(entry, ParentPath(p))
    BY <2>1, RenameParent
  <2> QED BY <1>0, <1>2, <1>6, <2>2
<1>8. /\ FindReal(entry', ParentPath(q)) = IF Through(p) THEN 0 ELSE e
      /\ entry[i].type = "reg" => ~Through(p)
  <2>1. CASE entry[i].type = "dir"
    BY <1>0, <1>1, <1>7, <2>1
  <2>2. CASE entry[i].type # "dir"
    <3>1. \A k \in 0..(Len(p) - 1) : IsDir(entry, w[k])
      <4>1. IsDir(entry, w[Len(p) - 1])
        BY <1>1, <1>3 DEF IsDir
      <4> QED BY <1>2, <1>3, <1>5, <4>1, WalkOverDirs
    <3>2. ~Through(p)
      <4>1. \A k \in 1..(Len(p) - 1) : k \in 0..(Len(p) - 1)
        <5>1. \A n \in Nat : \A k \in 1..n : k \in 0..n
          OBVIOUS
        <5> QED BY <1>2, <5>1
      <4>2. ~IsDir(entry, i)
        BY <2>2 DEF IsDir
      <4> QED BY <1>6, <3>1, <4>1, <4>2
    <3>3. \A k \in 0..Len(ParentPath(q)) : IsDir(entry, u[k])
      <4>1. IsDir(entry, u[Len(ParentPath(q))])
        BY <1>1, <1>4 DEF IsDir
      <4> QED BY <1>2, <1>4, <1>5, <4>1, WalkOverDirs
    <3>4. ~ \E k \in 1..Len(ParentPath(q)) : u[k] = i
      <4>1. \A k \in 1..Len(ParentPath(q)) : k \in 0..Len(ParentPath(q))
        <5>1. \A n \in Nat : \A k \in 1..n : k \in 0..n
          OBVIOUS
        <5> QED BY <1>2, <5>1
      <4>2. ~IsDir(entry, i)
        BY <2>2 DEF IsDir
      <4> QED BY <3>3, <4>1, <4>2
    <3>5. FindReal(entry', ParentPath(q)) = e
      <4>1. /\ ParentPath(q) \in {ParentPath(p), ParentPath(q)}
            /\ Walks(entry, ParentPath(q), u, Len(ParentPath(q)))
            /\ FindReal(entry, ParentPath(q)) = u[Len(ParentPath(q))]
            /\ i = FindReal(entry, p)
        BY <1>0, <1>4
      <4>2. FindReal(entry', ParentPath(q)) =
              IF \E k \in 1..Len(ParentPath(q)) : u[k] = i
              THEN 0 ELSE FindReal(entry, ParentPath(q))
        BY <4>1, RenameParent
      <4> QED BY <1>0, <3>4, <4>2
    <3> QED BY <3>2, <3>5
  <2> QED BY <2>1, <2>2
<1>9. /\ FindReal(entry', p) = Step(entry', FindReal(entry', ParentPath(p)), TailName(p))
      /\ FindReal(entry', q) = Step(entry', FindReal(entry', ParentPath(q)), TailName(q))
  BY <1>2, FindRealLast DEF Go
<1>10. \A s : Step(entry', 0, s) = 0
  BY <1>5 DEF Step, IsDir
<1> QED BY <1>1, <1>7, <1>8, <1>9, <1>10 DEF i

(* A path of names alone does not go through the file it leads to: each    *)
(* step down is to a higher number.                                        *)
Undotted(p) == \A k \in 1..Len(p) : p[k] \in Name \/ p[k] = ""

LEMMA LessOrSame == \A j, k \in Nat : j = k \/ j < k => j <= k
OBVIOUS

LEMMA DownClimbs ==
  ASSUME NEW nd, Shaped(nd), Planted(nd), NEW j, NEW s, s \in Name \/ s = "",
         IsDir(nd, Go(nd, j, s))
  PROVE  /\ IsDir(nd, j) /\ j <= Go(nd, j, s)
         /\ s # "" => j < Go(nd, j, s)
<1> DEFINE t == Go(nd, j, s)
<1>1. ~IsDir(nd, 0)
  BY ZeroIsNone DEF Planted
<1>2. CASE s = ""
  <2>1. Go(nd, j, s) = j
    BY <1>2 DEF Go
  <2>2. IsDir(nd, j)
    BY <2>1
  <2>3. j <= j
    <3>1. j \in Nat
      BY <2>2, Numbers DEF IsDir
    <3> QED BY <3>1, LessOrSame
  <2>4. j <= Go(nd, j, s)
    BY <2>1, <2>3
  <2> QED BY <1>2, <2>2, <2>4
<1>3. CASE s # ""
  <2>1. t = Step(nd, j, s) /\ s \in Name /\ IsDir(nd, t)
    BY <1>3 DEF Go
  <2> HIDE DEF t
  <2>2. t # 0
    BY <1>1, <2>1
  <2>3. j \in Ino /\ nd[j].type = "dir"
    BY <2>1, <2>2 DEF Step
  <2>4. PICK z \in TreeNames(nd) : z.dir = j /\ z.name = s
    BY <2>1, <2>2, <2>3, StepIs
  <2>5. z.obj = t
    BY <2>1, <2>3, <2>4, StepIs
  <2>6. t \in Ino \ {ROOT} /\ nd[t].type = "dir"
    BY <2>1, <2>4, <2>5 DEF Planted, PlantedBut, IsDir
  <2>7. /\ Up(nd, t) < t
        /\ \E y \in TreeNames(nd) : y.dir = Up(nd, t) /\ y.obj = t
        /\ \A y, u \in TreeNames(nd) : y.obj = t /\ u.obj = t => y = u
    BY <2>6 DEF Planted, PlantedBut
  <2>8. j < t
    BY <2>4, <2>5, <2>7
  <2>9. j <= t
    <3>1. j \in Nat /\ t \in Nat
      BY <2>3, <2>6, Numbers
    <3> QED BY <2>8, <3>1, LessOrSame
  <2> QED BY <2>3, <2>8, <2>9 DEF IsDir, t
<1> QED BY <1>2, <1>3

LEMMA DownNotThrough ==
  ASSUME CInv, NEW p \in Path, Undotted(p), Plain(p), IsDir(entry, FindReal(entry, p))
  PROVE  ~Through(p)
<1> DEFINE i == FindReal(entry, p)
           L == Len(p) - 1
<1>0. Shaped(entry) /\ Planted(entry) /\ PlantedBut(entry, {})
  BY CInvFacts DEF Planted
<1>1. /\ p \in Seq(Segment) /\ L \in Nat /\ Len(p) \in 1..Len(p) /\ ~(Len(p) = 0)
      /\ ParentPath(p) \in Seq(Segment) /\ Len(ParentPath(p)) = L
      /\ \A k \in 1..L : ParentPath(p)[k] = p[k]
      /\ TailName(p) = p[Len(p)]
  BY PathParts
<1>2. i = Go(entry, FindReal(entry, ParentPath(p)), TailName(p))
  BY FindRealLast
<1>3. PICK w : Walks(entry, ParentPath(p), w, L) /\ FindReal(entry, ParentPath(p)) = w[L]
  BY <1>1, FindRealWalks
<1> HIDE DEF i
<1>4. IsDir(entry, w[L]) /\ w[L] < i /\ IsDir(entry, i)
  <2>1. TailName(p) \in Name /\ TailName(p) # ""
    BY Segments DEF Plain
  <2>2. IsDir(entry, i) /\ i = Go(entry, w[L], TailName(p))
    BY <1>2, <1>3 DEF i
  <2> QED BY <1>0, <2>1, <2>2, DownClimbs
<1>5. SUFFICES ASSUME NEW k \in 1..L, w[k] = i PROVE FALSE
  <2>1. \A k \in 1..(Len(p) - 1) : FindReal(entry, SubSeq(p, 1, k)) = w[k]
    BY <1>3, PrefixWalks
  <2> QED BY <1>5, <2>1 DEF Through, i
<1>6. Walks(entry, ParentPath(p), w, L) /\ ~IsDir(entry, 0)
  BY <1>0, <1>3, ZeroIsNone
<1>7. \A j \in 0..L : IsDir(entry, w[j])
  BY <1>1, <1>4, <1>6, WalkOverDirs
<1> HIDE DEF L
<1> DEFINE S == {j \in k..L : w[j] < i}
<1>8. L \in S
  BY <1>1, <1>4
<1>9. PICK j \in S : \A l \in S : j <= l
  <2>1. S \in SUBSET Nat
    BY <1>1
  <2> HIDE DEF S
  <2> QED BY <1>8, <2>1, MinIsMember
<1>10. \A l \in 0..L : w[l] \in Nat
  BY <1>7, Numbers DEF IsDir
<1>11. j # k /\ k \in 0..L /\ i \in Nat
  <2>1. k \in 0..L
    BY <1>1
  <2> QED BY <1>5, <1>9, <1>10, <2>1
<1>12. /\ j \in 1..L /\ j - 1 \in k..L /\ j - 1 \in 0..L /\ j \in 0..L
       /\ ~(j <= j - 1) /\ w[j] < i
  BY <1>1, <1>9, <1>11
<1>13. ~(w[j - 1] < i)
  BY <1>9, <1>12
<1>14. w[j - 1] <= w[j]
  <2>1. w[j] = Go(entry, w[j - 1], ParentPath(p)[j])
    BY <1>3, <1>12 DEF Walks
  <2>2. ParentPath(p)[j] \in Name \/ ParentPath(p)[j] = ""
    <3>1. j \in 1..Len(p) /\ ParentPath(p)[j] = p[j]
      BY <1>1, <1>12 DEF L
    <3> QED BY <3>1 DEF Undotted
  <2>3. IsDir(entry, Go(entry, w[j - 1], ParentPath(p)[j]))
    BY <1>7, <1>12, <2>1
  <2> QED BY <1>0, <2>1, <2>2, <2>3, DownClimbs
<1> QED BY <1>10, <1>11, <1>12, <1>13, <1>14

-----------------------------------------------------------------------------
(* my_open and my_close count the handles, my_chmod changes no directory. *)

LEMMA OpenIs ==
  ASSUME CInv, NEW p \in Path, CarefulOpen(p), NEW i, i = Find(entry, p)
  PROVE  /\ Shaped(entry') /\ Planted(entry') /\ Counted(entry', held') /\ count' = count
         /\ i \in Ino /\ entry[i].type # "none"
         /\ held' = [held EXCEPT ![i] = @ + 1]
         /\ TreeNames(entry') = TreeNames(entry)
         /\ \A j \in Ino : entry'[j].type = entry[j].type /\ entry'[j].dentries = entry[j].dentries
<1> DEFINE k == entry[i].nlink + 1
<1>1. Shaped(entry) /\ Planted(entry) /\ Counted(entry, held) /\ held \in [Ino -> Nat]
  BY CInvFacts
<1>2. entry[i].type # "none" /\ Open(p)
  BY DEF CarefulOpen, MayOpen
<1>3. i \in Ino /\ i # 0
  <2>1. i \in Ino
    BY CInvFacts, PathParts
  <2> QED BY <1>1, <1>2, <2>1, ZeroIsNone DEF Planted
<1>4. entry' = LinkSet(entry, i, k) /\ held' = [held EXCEPT ![i] = @ + 1] /\ count' = count
  BY <1>2, <1>3 DEF Open, AddLink, LinkSet
<1>5. k \in Int
  BY <1>1, <1>3 DEF Shaped, File
<1>6. /\ Shaped(entry') /\ PlantedBut(entry', {}) /\ TreeNames(entry') = TreeNames(entry)
      /\ entry'[i].nlink = k /\ entry'[i].type = entry[i].type
      /\ entry'[i].dentries = entry[i].dentries
      /\ \A j \in Ino \ {i} : entry'[j] = entry[j]
      /\ \A j \in Ino : NameCount(entry', j) = NameCount(entry, j) /\ Up(entry', j) = Up(entry, j)
  BY <1>1, <1>2, <1>3, <1>4, <1>5, LinkSetKeeps DEF Planted
<1>7. Counted(entry', held')
  <2>1. SUFFICES ASSUME NEW j \in Ino
                 PROVE  /\ held'[j] > 0 => entry'[j].type # "none"
                        /\ entry'[j].type # "none" =>
                             entry'[j].nlink = NameCount(entry', j) + held'[j] + (IF j = ROOT THEN 1 ELSE 0)
    BY DEF Counted
  <2>2. NameCount(entry, j) \in Nat /\ held[j] \in Nat
    BY <1>1, NameCountIs DEF Planted, PlantedBut
  <2>3. CASE j = i
    <3>1. held'[j] = held[j] + 1 /\ entry'[j].nlink = entry[j].nlink + 1
      BY <1>1, <1>4, <1>6, <2>3 DEF k
    <3>2. entry[j].nlink = NameCount(entry, j) + held[j] + (IF j = ROOT THEN 1 ELSE 0)
      BY <1>1, <1>2, <2>3 DEF Counted
    <3> QED BY <1>2, <1>6, <2>2, <2>3, <3>1, <3>2
  <2>4. CASE j # i
    <3>1. held'[j] = held[j] /\ entry'[j] = entry[j]
      BY <1>1, <1>4, <1>6, <2>4
    <3> QED BY <1>1, <1>6, <3>1 DEF Counted
  <2> QED BY <2>3, <2>4
<1> QED
  BY <1>2, <1>3, <1>4, <1>6, <1>7 DEF Planted

LEMMA CloseIs ==
  ASSUME CInv, NEW i \in Ino \ {0}, Close(i)
  PROVE  /\ Shaped(entry') /\ Planted(entry') /\ Counted(entry', held') /\ count' = count
         /\ held[i] > 0 /\ held' = [held EXCEPT ![i] = @ - 1]
         /\ TreeNames(entry') = TreeNames(entry)
         /\ \A j \in Ino \ {i} : entry'[j].type = entry[j].type
         /\ entry'[i].type = IF i = ROOT \/ held'[i] > 0 \/ (\E x \in TreeNames(entry) : x.obj = i)
                             THEN entry[i].type ELSE "none"
         /\ \A j \in Ino : entry'[j].dentries = entry[j].dentries
<1>1. Shaped(entry) /\ Planted(entry) /\ Counted(entry, held) /\ held \in [Ino -> Nat]
  BY CInvFacts
<1>2. /\ held[i] > 0 /\ held' = [held EXCEPT ![i] = @ - 1]
      /\ entry' = DropLink(entry, i) /\ count' = count
  BY DEF Close
<1>3. held' \in [Ino -> Nat] /\ held'[i] = held[i] - 1 /\ \A j \in Ino \ {i} : held'[j] = held[j]
  <2>1. held[i] \in Nat /\ held[i] - 1 \in Nat
    BY <1>1, <1>2
  <2> QED BY <1>1, <1>2, <2>1
<1>4. entry[i].type # "none"
  BY <1>1, <1>2 DEF Counted
<1>5. entry[i].nlink = NameCount(entry, i) + held'[i] + (IF i = ROOT THEN 1 ELSE 0) + 1
  <2>1. NameCount(entry, i) \in Nat /\ held[i] \in Nat
    BY <1>1, NameCountIs DEF Planted, PlantedBut
  <2>2. entry[i].nlink = NameCount(entry, i) + held[i] + (IF i = ROOT THEN 1 ELSE 0)
    BY <1>1, <1>4 DEF Counted
  <2> QED BY <1>3, <2>1, <2>2
<1>6. \A j \in Ino \ {i} :
        /\ held'[j] > 0 => entry[j].type # "none"
        /\ entry[j].type # "none" =>
             entry[j].nlink = NameCount(entry, j) + held'[j] + (IF j = ROOT THEN 1 ELSE 0)
  BY <1>1, <1>3 DEF Counted
<1>7. /\ Shaped(entry') /\ Planted(entry') /\ Counted(entry', held')
      /\ TreeNames(entry') = TreeNames(entry)
      /\ \A j \in Ino \ {i} : entry'[j] = entry[j]
      /\ entry'[i].type = IF i = ROOT \/ held'[i] > 0 \/ (\E x \in TreeNames(entry) : x.obj = i)
                          THEN entry[i].type ELSE "none"
      /\ entry'[i].dentries = entry[i].dentries
  <2>1. ASSUME NEW h, h = held'
        PROVE  /\ Shaped(entry') /\ Planted(entry') /\ Counted(entry', h)
               /\ TreeNames(entry') = TreeNames(entry)
               /\ \A j \in Ino \ {i} : entry'[j] = entry[j]
               /\ entry'[i].type = IF i = ROOT \/ h[i] > 0 \/ (\E x \in TreeNames(entry) : x.obj = i)
                                   THEN entry[i].type ELSE "none"
               /\ entry'[i].dentries = entry[i].dentries
    <3>1. /\ h \in [Ino -> Nat]
          /\ entry[i].nlink = NameCount(entry, i) + h[i] + (IF i = ROOT THEN 1 ELSE 0) + 1
          /\ \A j \in Ino \ {i} :
               /\ h[j] > 0 => entry[j].type # "none"
               /\ entry[j].type # "none" =>
                    entry[j].nlink = NameCount(entry, j) + h[j] + (IF j = ROOT THEN 1 ELSE 0)
      BY <1>3, <1>5, <1>6, <2>1
    <3>2. i \in Ino /\ Shaped(entry) /\ Planted(entry) /\ entry' = DropLink(entry, i)
      BY <1>1, <1>2
    <3> QED BY <1>4, <3>1, <3>2, DropLinkIs
  <2> QED BY <2>1
<1>8. \A j \in Ino : entry'[j].dentries = entry[j].dentries
  BY <1>7
<1> QED
  BY <1>2, <1>7, <1>8

LEMMA ChmodIs ==
  ASSUME CInv, NEW p \in Path, CarefulChmod(p)
  PROVE  UNCHANGED vars
<1> DEFINE i == Find(entry, p)
<1>1. entry[i].type = "dir" /\ Chmod(p, "none")
  BY DEF CarefulChmod, MayChmod
<1>2. entry \in [Ino -> File] /\ i \in Ino
  BY CInvFacts, PathParts DEF Shaped
<1> DEFINE t == Chmoded(entry[i].type, "none")
<1>3. UNCHANGED vars \/ (entry' = [entry EXCEPT ![i].type = t] /\ UNCHANGED <<count, held>>)
  BY <1>1 DEF Chmod, Fails
<1>4. t = entry[i].type
  BY <1>1 DEF Chmoded, WithBits
<1> HIDE DEF t, i
<1>5. [entry EXCEPT ![i].type = t] = entry
  <2>1. [entry[i] EXCEPT !.type = t] = entry[i]
    BY <1>2, <1>4 DEF File
  <2> QED BY <1>2, <2>1
<1> QED
  BY <1>3, <1>5 DEF vars

-----------------------------------------------------------------------------
(* The step. *)

TreeKeeps == Shaped(entry') /\ Planted(entry') /\ Counted(entry', held')

(* What my_mkdir, my_creat and my_symlink do under the contract. *)
LEMMA MakeIs ==
  ASSUME CInv, NEW p \in Path, NEW t \in {"dir", "reg"},
         (t = "dir" /\ CarefulMkdir(p)) \/ (t = "reg" /\ CarefulCreat(p)),
         NEW d, d = FindReal(entry, ParentPath(p))
  PROVE  /\ MayMake(p) /\ count <= MaxIno
         /\ entry' = Grown(entry, count, d, TailName(p), t)
         /\ count' = count + 1 /\ held' = held
<1>1. MayMake(p) /\ TailName(p) \notin {".", ".."}
  BY Segments DEF CarefulMkdir, CarefulCreat, MayMake, Plain
<1>2. Make(p, t)
  <2>1. WithBits(t, "none") = t
    BY DEF WithBits
  <2> QED
    BY <1>1, <2>1 DEF CarefulMkdir, CarefulCreat, Mkdir, Creat, Fails
<1>3. count <= MaxIno /\ entry' = Mknod(entry, count, p, t) /\ count' = count + 1 /\ held' = held
  BY <1>2 DEF Make
<1>4. Mknod(entry, count, p, t) = Grown(entry, count, d, TailName(p), t)
  BY <1>1, <1>3, MknodIs
<1> QED
  BY <1>1, <1>3, <1>4

LEMMA SymlinkMakes ==
  ASSUME CInv, NEW p \in Path, NEW q \in Path, CarefulSymlink(p, q)
  PROVE  /\ MayMake(q) /\ count <= MaxIno
         /\ entry' = WithLink(entry, p, q)
         /\ count' = count + 1 /\ held' = held
<1>1. MayMake(q) /\ TailName(q) \notin {".", ".."} /\ Symlink(p, q)
  BY Segments DEF CarefulSymlink, MayMake, Plain
<1>2. Find(entry, q) = 0
  BY <1>1, MayMakeMeans
<1> QED
  BY <1>1, <1>2 DEF Symlink

LEMMA TreeStep ==
  ASSUME CInv, CarefulNext
  PROVE  TreeKeeps
<1>0. Paths \subseteq Path
  BY NameSpaceAssumption
<1>1. ASSUME NEW p \in Paths, CarefulMkdir(p) PROVE TreeKeeps
  <2> DEFINE d == FindReal(entry, ParentPath(p))
  <2>1. /\ p \in Path /\ MayMake(p) /\ count <= MaxIno /\ held' = held
        /\ entry' = Grown(entry, count, d, TailName(p), "dir")
    BY <1>0, <1>1, MakeIs
  <2> QED BY <2>1, GrownIs DEF TreeKeeps
<1>2. ASSUME NEW p \in Paths, CarefulCreat(p) PROVE TreeKeeps
  <2> DEFINE d == FindReal(entry, ParentPath(p))
  <2>1. /\ p \in Path /\ MayMake(p) /\ count <= MaxIno /\ held' = held
        /\ entry' = Grown(entry, count, d, TailName(p), "reg")
    BY <1>0, <1>2, MakeIs
  <2> QED BY <2>1, GrownIs DEF TreeKeeps
<1>3. ASSUME NEW p \in Paths, CarefulUnlink(p) PROVE TreeKeeps
  <2>1. p \in Path
    BY <1>0
  <2> QED BY <1>3, <2>1, UnlinkIs DEF TreeKeeps
<1>4. ASSUME NEW p \in Paths, CarefulRmdir(p) PROVE TreeKeeps
  <2>1. p \in Path
    BY <1>0
  <2> QED BY <1>4, <2>1, RmdirIs DEF TreeKeeps
<1>5. ASSUME NEW p \in Paths, CarefulOpen(p) PROVE TreeKeeps
  <2>1. p \in Path
    BY <1>0
  <2> QED BY <1>5, <2>1, OpenIs DEF TreeKeeps
<1>6. ASSUME NEW p \in Paths, CarefulChmod(p) PROVE TreeKeeps
  <2>1. UNCHANGED vars
    BY <1>0, <1>6, ChmodIs
  <2> QED BY <2>1, CInvFacts DEF TreeKeeps, vars
<1>7. ASSUME NEW p \in Paths, NEW q \in Paths, CarefulLink(p, q) PROVE TreeKeeps
  <2>1. p \in Path /\ q \in Path /\ MayLink(p, q) /\ Link(p, q)
    BY <1>0, <1>7 DEF CarefulLink
  <2> QED BY <2>1, LinkIs DEF TreeKeeps
<1>8. ASSUME NEW p \in Paths, NEW q \in Paths, CarefulSymlink(p, q) PROVE TreeKeeps
  <2>1. /\ p \in Path /\ q \in Path /\ MayMake(q) /\ count <= MaxIno /\ held' = held
        /\ entry' = WithLink(entry, p, q)
    BY <1>0, <1>8, SymlinkMakes
  <2> QED BY <2>1, SymlinkIs DEF TreeKeeps
<1>9. ASSUME NEW p \in Paths, NEW q \in Paths, CarefulRename(p, q) PROVE TreeKeeps
  <2>1. p \in Path /\ q \in Path
    BY <1>0
  <2> QED BY <1>9, <2>1, RenameIs DEF TreeKeeps
<1>10. ASSUME NEW i \in Ino \ {0}, Close(i) PROVE TreeKeeps
  BY <1>10, CloseIs DEF TreeKeeps
<1> QED
  BY <1>1, <1>2, <1>3, <1>4, <1>5, <1>6, <1>7, <1>8, <1>9, <1>10 DEF CarefulNext

(* Every step of a careful caller is a step of NameSpace. *)
LEMMA CarefulIsNext == CarefulNext => Next
BY CarefulAssumption
   DEF CarefulNext, Next, CarefulMkdir, CarefulCreat, CarefulUnlink, CarefulRmdir, CarefulOpen,
       CarefulChmod, CarefulLink, CarefulSymlink, CarefulRename

LEMMA CInvStep ==
  ASSUME CInv, [CarefulNext]_vars
  PROVE  CInv'
<1>1. CASE CarefulNext
  <2>1. IInv'
    BY <1>1, CarefulIsNext, NextStep DEF CInv, StepKeeps
  <2>2. Shaped(entry') /\ Planted(entry') /\ Counted(entry', held')
    BY <1>1, TreeStep DEF TreeKeeps
  <2> QED BY <2>1, <2>2 DEF CInv
<1>2. CASE UNCHANGED vars
  BY <1>2 DEF CInv, IInv, vars
<1> QED BY <1>1, <1>2

LEMMA InitialTableIs ==
  ASSUME NEW nd, nd = InitialTable
  PROVE  nd = [[i \in Ino |-> Blank] EXCEPT ![ROOT] = Fresh("dir", ROOT, ROOT)]
<1> DEFINE void == [i \in Ino |-> Blank]
           made == [void EXCEPT ![ROOT] = NewInode("dir")]
           one == Push(made, ROOT, ".", ROOT)
           two == Push(one, ROOT, "..", ROOT)
           full == [void EXCEPT ![ROOT] = Fresh("dir", ROOT, ROOT)]
<1>1. nd = two
  BY DEF InitialTable, WithInode
<1>2. ROOT \in Ino /\ ROOT # 0 /\ "." \in Segment /\ ".." \in Segment
  <2>1. ROOT \in Ino /\ ROOT # 0
    BY Numbers DEF ROOT
  <2>2. "." \in Segment /\ ".." \in Segment
    BY Segments
  <2> QED BY <2>1, <2>2
<1>3. /\ NewInode("dir") \in File
      /\ Extended(Extended(NewInode("dir"), ".", ROOT), "..", ROOT) = Fresh("dir", ROOT, ROOT)
  BY <1>2, NewInodeDentries
<1>4. Blank \in File
  BY EmptySeq DEF Blank, File, Type
<1>5. void \in [Ino -> File] /\ \A j \in Ino : void[j] = Blank
  BY <1>4
<1> HIDE DEF void
<1>6. /\ made \in [Ino -> File] /\ made[ROOT] = NewInode("dir")
      /\ \A j \in Ino \ {ROOT} : made[j] = Blank
  BY <1>2, <1>3, <1>5
<1> HIDE DEF made
<1>7. /\ one \in [Ino -> File] /\ one[ROOT] = Extended(NewInode("dir"), ".", ROOT)
      /\ \A j \in Ino \ {ROOT} : one[j] = Blank
  <2>1. /\ one \in [Ino -> File] /\ one[ROOT] = Extended(made[ROOT], ".", ROOT)
        /\ \A j \in Ino \ {ROOT} : one[j] = made[j]
    BY <1>2, <1>6, PushIs
  <2> QED BY <1>6, <2>1
<1> HIDE DEF one
<1>8. /\ two \in [Ino -> File] /\ two[ROOT] = Fresh("dir", ROOT, ROOT)
      /\ \A j \in Ino \ {ROOT} : two[j] = Blank
  <2>1. /\ two \in [Ino -> File] /\ two[ROOT] = Extended(one[ROOT], "..", ROOT)
        /\ \A j \in Ino \ {ROOT} : two[j] = one[j]
    BY <1>2, <1>7, PushIs
  <2> QED BY <1>3, <1>7, <2>1
<1> HIDE DEF two
<1>9. /\ full \in [Ino -> File] /\ full[ROOT] = Fresh("dir", ROOT, ROOT)
      /\ \A j \in Ino \ {ROOT} : full[j] = Blank
  <2>1. Fresh("dir", ROOT, ROOT) \in File
    BY <1>2, FreshIsFile
  <2> QED BY <1>2, <1>5, <2>1
<1>10. two = full
  <2>1. \A j \in Ino : two[j] = full[j]
    BY <1>8, <1>9
  <2> HIDE DEF full
  <2> QED BY <1>8, <1>9, <2>1
<1> QED
  BY <1>1, <1>10 DEF void

LEMMA InitIs ==
  ASSUME Init
  PROVE  /\ CInv /\ TreeNames(entry) = {}
         /\ \A i \in Ino : entry[i].type = (IF i = ROOT THEN "dir" ELSE "none") /\ held[i] = 0
<1> DEFINE void == [i \in Ino |-> Blank]
           f == Fresh("dir", ROOT, ROOT)
<1>1. entry = [void EXCEPT ![ROOT] = f] /\ held = [i \in Ino |-> 0]
  BY InitialTableIs DEF Init
<1>2. /\ f \in File /\ f.type = "dir" /\ f.nlink = 1 /\ Len(f.dentries) <= 2
      /\ f.dentries[1] = [name |-> ".", ino |-> ROOT]
      /\ f.dentries[2] = [name |-> "..", ino |-> ROOT] /\ Len(f.dentries) = 2
  BY Numbers, FreshIsFile
<1>3. Blank \in File /\ Blank.type = "none" /\ Blank.dentries = <<>> /\ Len(<<>>) = 0
  BY EmptySeq DEF Blank, File, Type
<1>4. void \in [Ino -> File] /\ \A i \in Ino : void[i] = Blank
  BY <1>3
<1> HIDE DEF void, f, Blank
<1>5. Shaped(void)
  BY <1>3, <1>4 DEF Shaped
<1>6. TreeNames(void) = {}
  <2>1. ASSUME NEW x \in TreeNames(void) PROVE FALSE
    <3>1. x.dir \in Ino /\ void[x.dir].type = "dir"
      BY <1>5, NameParts
    <3> QED BY <1>3, <1>4, <3>1
  <2> QED BY <2>1
<1>7. Shaped(entry) /\ TreeNames(entry) = {}
  <2>1. ROOT \in Ino /\ Len(void[ROOT].dentries) <= 2
    BY <1>3, <1>4, Numbers
  <2>2. f.type = "dir" => /\ f.dentries[1] = [name |-> ".", ino |-> ROOT]
                          /\ f.dentries[2].name = ".." /\ Len(f.dentries) = 2
    BY <1>2
  <2>3. (f.type # "dir" => f.dentries = <<>>) /\ (f.type = "none" => f = Blank)
    BY <1>2
  <2>4. f \in File /\ Len(f.dentries) <= 2
    BY <1>2
  <2>5. /\ Shaped([void EXCEPT ![ROOT] = f])
        /\ TreeNames([void EXCEPT ![ROOT] = f]) = TreeNames(void)
    BY <1>5, <2>1, <2>2, <2>3, <2>4, NoNames
  <2> QED BY <1>1, <1>6, <2>5
<1>8. entry[ROOT] = f /\ \A i \in Ino \ {ROOT} : entry[i] = Blank
  BY <1>1, <1>4, Numbers
<1>9. Planted(entry)
  <2>1. IsFiniteSet(TreeNames(entry))
    BY <1>7, FS_EmptySet
  <2>2. Up(entry, ROOT) = ROOT /\ entry[ROOT].type = "dir"
    BY <1>2, <1>8 DEF Up
  <2>3. \A i \in Ino : i < ROOT => entry[i].type = "none"
    BY <1>3, <1>8 DEF ROOT
  <2>4. \A i \in Ino \ {ROOT} : entry[i].type # "dir"
    BY <1>3, <1>8
  <2> QED BY <1>7, <2>1, <2>2, <2>3, <2>4 DEF Planted, PlantedBut
<1>10. Counted(entry, held)
  <2>1. \A i \in Ino : NameCount(entry, i) = 0
    <3>1. \A i \in Ino : NamesTo(entry, i) = {}
      BY <1>7 DEF NamesTo
    <3> QED BY <3>1, FS_EmptySet DEF NameCount
  <2>2. \A i \in Ino : held[i] = 0
    BY <1>1
  <2>3. entry[ROOT].nlink = 1 /\ \A i \in Ino \ {ROOT} : entry[i].type = "none"
    BY <1>2, <1>3, <1>8
  <2>4. ASSUME NEW i \in Ino
        PROVE  /\ held[i] > 0 => entry[i].type # "none"
               /\ entry[i].type # "none" =>
                    entry[i].nlink = NameCount(entry, i) + held[i] + (IF i = ROOT THEN 1 ELSE 0)
    <3>1. NameCount(entry, i) = 0 /\ held[i] = 0 /\ ~ (held[i] > 0)
      BY <2>1, <2>2
    <3>2. CASE i = ROOT
      BY <2>3, <3>1, <3>2
    <3>3. CASE i # ROOT
      BY <2>3, <3>1, <3>3
    <3> QED BY <3>2, <3>3
  <2> QED BY <2>4 DEF Counted
<1>11. \A i \in Ino : entry[i].type = (IF i = ROOT THEN "dir" ELSE "none") /\ held[i] = 0
  BY <1>1, <1>2, <1>3, <1>8
<1> QED
  BY <1>7, <1>9, <1>10, <1>11, InitIInv DEF CInv

(* The table of a careful caller is a tree, every link of it is accounted  *)
(* for, and it is a table of NameSpace: CInv is inductive.                 *)
THEOREM CarefulInvariance == CarefulSpec => []CInv
<1>1. CInv /\ [CarefulNext]_vars => CInv'
  BY CInvStep
<1> QED
  BY <1>1, InitIs, PTL DEF CarefulSpec

-----------------------------------------------------------------------------
(* What the invariant gives. *)

LEMMA CInvNamesResolve == CInv => NamesResolve
<1> SUFFICES ASSUME CInv, NEW x \in NamesIn(entry), NEW y \in NamesIn(entry)
             PROVE  LET dx == entry[x[1]].dentries[x[2]]
                        dy == entry[y[1]].dentries[y[2]]
                    IN /\ Live(dx.ino) /\ entry[x[1]].type = "dir"
                       /\ x[1] = y[1] /\ dx.name = dy.name => x = y
  BY DEF NamesResolve
<1> DEFINE dx == entry[x[1]].dentries[x[2]]
           dy == entry[y[1]].dentries[y[2]]
<1>1. Shaped(entry) /\ Planted(entry)
  BY CInvFacts
<1>2. /\ x = <<x[1], x[2]>> /\ NameAt(entry, x[1], x[2])
      /\ y = <<y[1], y[2]>> /\ NameAt(entry, y[1], y[2])
  BY <1>1, NamesInAre
<1>3. Live(dx.ino)
  <2>1. TreeName(x[1], dx) \in TreeNames(entry)
    BY <1>1, <1>2, TreeNamesAre
  <2>2. TreeName(x[1], dx).obj = dx.ino
    BY DEF TreeName
  <2> HIDE DEF dx
  <2> QED BY <1>1, <2>1, <2>2 DEF Planted, PlantedBut, Live
<1>4. entry[x[1]].type = "dir"
  BY <1>2 DEF NameAt
<1>5. ASSUME x[1] = y[1], dx.name = dy.name PROVE x = y
  <2>1. DirShaped(entry, x[1])
    BY <1>1, <1>2 DEF NameAt, Shaped
  <2>2. x[2] \in 3..Len(entry[x[1]].dentries) /\ y[2] \in 3..Len(entry[x[1]].dentries)
    <3>1. Len(entry[x[1]].dentries) \in Nat
      BY <1>1, <1>2, DentriesAre DEF NameAt
    <3> QED BY <1>2, <1>5, <3>1 DEF NameAt
  <2>3. x[2] = y[2]
    BY <1>5, <2>1, <2>2 DEF DirShaped
  <2> QED BY <1>2, <1>5, <2>3
<1> QED
  BY <1>3, <1>4, <1>5

(* The dentries that hold a number are as many as the names of the tree    *)
(* that lead to it.                                                        *)
LEMMA NamesOfAre ==
  ASSUME CInv, NEW i \in Ino
  PROVE  Cardinality(NamesOf(i)) = NameCount(entry, i)
<1> DEFINE g == [x \in NamesOf(i) |-> TreeName(x[1], entry[x[1]].dentries[x[2]])]
<1>1. Shaped(entry) /\ Planted(entry) /\ NamesResolve
  BY CInvFacts, CInvNamesResolve
<1>2. IsFiniteSet(NamesTo(entry, i))
  BY <1>1, NameCountIs DEF Planted, PlantedBut
<1>3. ASSUME NEW x \in NamesOf(i)
      PROVE  /\ x \in NamesIn(entry) /\ entry[x[1]].dentries[x[2]].ino = i
             /\ x = <<x[1], x[2]>> /\ NameAt(entry, x[1], x[2])
  BY <1>1, NamesInAre DEF NamesOf
<1>4. ASSUME NEW x \in NamesOf(i)
      PROVE  /\ g[x] \in NamesTo(entry, i)
             /\ g[x].dir = x[1] /\ g[x].name = entry[x[1]].dentries[x[2]].name
  <2>1. g[x] = TreeName(x[1], entry[x[1]].dentries[x[2]])
    OBVIOUS
  <2>2. g[x] \in TreeNames(entry)
    BY <1>1, <1>3, <2>1, TreeNamesAre
  <2>3. /\ g[x].obj = i /\ g[x].dir = x[1]
        /\ g[x].name = entry[x[1]].dentries[x[2]].name
    BY <1>3, <2>1 DEF TreeName
  <2> HIDE DEF g
  <2> QED BY <2>2, <2>3 DEF NamesTo
<1>5. ASSUME NEW x \in NamesOf(i), NEW y \in NamesOf(i), g[x] = g[y]
      PROVE  x = y
  <2>1. /\ x \in NamesIn(entry) /\ y \in NamesIn(entry) /\ x[1] = y[1]
        /\ entry[x[1]].dentries[x[2]].name = entry[y[1]].dentries[y[2]].name
    <3> HIDE DEF g
    <3> QED BY <1>3, <1>4, <1>5
  <2> QED BY <1>1, <2>1 DEF NamesResolve
<1>6. ASSUME NEW t \in NamesTo(entry, i)
      PROVE  \E x \in NamesOf(i) : g[x] = t
  <2>1. t \in TreeNames(entry) /\ t.obj = i
    BY DEF NamesTo
  <2>2. PICK d, k : NameAt(entry, d, k) /\ t = TreeName(d, entry[d].dentries[k])
    BY <1>1, <2>1, TreeNamesAre
  <2>3. <<d, k>> \in NamesIn(entry) /\ entry[d].dentries[k].ino = i
    BY <1>1, <2>1, <2>2, NamesInAre DEF TreeName
  <2>4. <<d, k>> \in NamesOf(i)
    BY <2>3 DEF NamesOf
  <2>5. g[<<d, k>>] = t
    BY <2>2, <2>4
  <2> QED BY <2>4, <2>5
<1>7. g \in [NamesOf(i) -> NamesTo(entry, i)]
  BY <1>4
<1> HIDE DEF g
<1>8. g \in Injection(NamesOf(i), NamesTo(entry, i))
  BY <1>5, <1>7 DEF Injection, IsInjective
<1>9. g \in Surjection(NamesOf(i), NamesTo(entry, i))
  BY <1>6, <1>7 DEF Surjection
<1> QED
  BY <1>2, <1>8, <1>9, FS_Injection DEF NameCount

LEMMA CInvLinkCountExact == CInv => LinkCountExact
<1> SUFFICES ASSUME CInv, NEW i \in Ino, entry[i].type # "none"
             PROVE  entry[i].nlink = Cardinality(NamesOf(i)) + held[i] + (IF i = ROOT THEN 1 ELSE 0)
  BY DEF LinkCountExact, Live
<1> QED
  BY NamesOfAre, CInvFacts DEF Counted

(* The way up from a directory, n steps of it. *)
ClimbOf(up, d, c, m) == c = [n \in 0..m |-> IF n = 0 THEN d ELSE up[c[n - 1]]]

LEMMA ClimbExists ==
  ASSUME NEW up, NEW d
  PROVE  \A m \in Nat : \E c : ClimbOf(up, d, c, m)
<1> DEFINE S == {m \in Nat : ~ \E c : ClimbOf(up, d, c, m)}
<1> SUFFICES ASSUME S # {} PROVE FALSE
  OBVIOUS
<1> DEFINE m == Min(S)
<1>1. m \in S /\ \A k \in S : m <= k
  BY MinIsMember
<1>2. CASE m = 0
  <2> DEFINE c == [n \in 0..0 |-> d]
  <2>1. ClimbOf(up, d, c, 0)
    BY DEF ClimbOf
  <2> QED BY <1>1, <1>2, <2>1
<1>3. CASE m # 0
  <2>1. m \in Nat /\ m - 1 \in Nat /\ m - 1 \notin S
    <3> HIDE DEF m
    <3> QED BY <1>1, <1>3
  <2>2. PICK c : ClimbOf(up, d, c, m - 1)
    BY <2>1
  <2> DEFINE last == up[c[m - 1]]
             v == [n \in 0..m |-> IF n = m THEN last ELSE c[n]]
  <2>3. ClimbOf(up, d, v, m)
    <3> HIDE DEF m
    <3>1. ASSUME NEW n \in 0..m, n # 0, n # m
          PROVE  v[n] = up[v[n - 1]]
      <4>1. n \in 0..(m - 1) /\ n - 1 \in 0..m /\ n - 1 # m
        BY <2>1, <3>1
      <4>2. v[n] = c[n] /\ v[n - 1] = c[n - 1]
        BY <3>1, <4>1
      <4>3. c[n] = up[c[n - 1]]
        BY <2>2, <3>1, <4>1 DEF ClimbOf
      <4> QED BY <4>2, <4>3
    <3>2. v[m] = last /\ v[m - 1] = c[m - 1]
      BY <1>3, <2>1
    <3>3. v[0] = d
      BY <1>3, <2>1, <2>2 DEF ClimbOf
    <3> HIDE DEF last
    <3>4. v = [n \in 0..m |-> v[n]]
      OBVIOUS
    <3> HIDE DEF v
    <3>5. \A n \in 0..m : v[n] = IF n = 0 THEN d ELSE up[v[n - 1]]
      BY <3>1, <3>2, <3>3 DEF last
    <3> QED BY <3>4, <3>5 DEF ClimbOf
  <2> QED BY <1>1, <2>3
<1> QED BY <1>2, <1>3

(* Every step up from a directory other than the root is to one of a lower *)
(* number: after MaxIno steps it is the root.                              *)
LEMMA ClimbEnds ==
  ASSUME NEW nd, Planted(nd), NEW up, NEW d \in Ino, nd[d].type = "dir",
         \A i \in Ino : nd[i].type = "dir" => up[i] = Up(nd, i),
         NEW c, ClimbOf(up, d, c, MaxIno)
  PROVE  c[MaxIno] = ROOT
<1> DEFINE Good(n) == /\ c[n] \in Ino /\ nd[c[n]].type = "dir"
                      /\ c[n] = ROOT \/ c[n] <= d - n
           S == {n \in 0..MaxIno : ~Good(n)}
<1>1. MaxIno \in Nat /\ d \in Nat /\ d <= MaxIno /\ ROOT \in Ino
  BY Numbers, IlistAssumption
<1>2. c[0] = d /\ \A n \in 1..MaxIno : c[n] = up[c[n - 1]]
  BY <1>1 DEF ClimbOf
<1>3. /\ Up(nd, ROOT) = ROOT /\ nd[ROOT].type = "dir"
      /\ \A i \in Ino : i < ROOT => nd[i].type = "none"
      /\ \A i \in Ino \ {ROOT} : nd[i].type = "dir" =>
           Up(nd, i) \in Ino /\ nd[Up(nd, i)].type = "dir" /\ Up(nd, i) < i
  BY DEF Planted, PlantedBut
<1>4. Good(0)
  BY <1>1, <1>2
<1>5. ASSUME NEW n \in 1..MaxIno, Good(n - 1)
      PROVE  Good(n)
  <2>1. c[n] = Up(nd, c[n - 1])
    BY <1>2, <1>5
  <2>2. CASE c[n - 1] = ROOT
    BY <1>1, <1>3, <2>1, <2>2
  <2>3. CASE c[n - 1] # ROOT
    <3>1. c[n] \in Ino /\ nd[c[n]].type = "dir" /\ c[n] < c[n - 1]
      BY <1>3, <1>5, <2>1, <2>3
    <3>2. c[n] \in Nat /\ c[n - 1] \in Nat /\ c[n - 1] <= d - (n - 1)
      BY <1>5, <2>3, <3>1, Numbers
    <3> QED BY <1>1, <3>1, <3>2
  <2> QED BY <2>2, <2>3
<1>6. S = {}
  <2> SUFFICES ASSUME S # {} PROVE FALSE
    OBVIOUS
  <2>1. S \in SUBSET Nat
    BY <1>1
  <2>2. PICK n \in S : \A j \in S : n <= j
    <3> HIDE DEF S
    <3> QED BY <2>1, MinIsMember
  <2>3. n \in 0..MaxIno /\ ~Good(n)
    OBVIOUS
  <2>4. n # 0
    BY <1>4, <2>3
  <2>5. n \in 1..MaxIno /\ n - 1 \in 0..MaxIno /\ ~(n <= n - 1)
    BY <1>1, <2>3, <2>4
  <2>6. Good(n - 1)
    <3> HIDE DEF Good
    <3> QED BY <2>2, <2>5
  <2> QED BY <1>5, <2>3, <2>5, <2>6
<1>7. Good(MaxIno)
  <2>1. MaxIno \in 0..MaxIno
    BY <1>1
  <2> HIDE DEF Good
  <2> QED BY <1>6, <2>1
<1>8. ASSUME c[MaxIno] # ROOT PROVE FALSE
  <2>1. c[MaxIno] \in Ino /\ c[MaxIno] \in Nat /\ c[MaxIno] <= d - MaxIno
    BY <1>7, <1>8, Numbers
  <2>2. c[MaxIno] < ROOT
    BY <1>1, <2>1 DEF ROOT
  <2>3. nd[c[MaxIno]].type = "none"
    BY <1>3, <2>1, <2>2
  <2> QED BY <1>7, <2>3
<1> QED BY <1>8

LEMMA CInvTreeShape == CInv => TreeShape
<1> SUFFICES ASSUME CInv, NEW d \in Ino, entry[d].type = "dir"
             PROVE  LET up == [i \in Ino |-> IF entry[i].type = "dir" THEN entry[i].dentries[2].ino ELSE 0]
                        climb[n \in 0..MaxIno] == IF n = 0 THEN d ELSE up[climb[n - 1]]
                    IN /\ entry[d].dentries[1] = [name |-> ".", ino |-> d]
                       /\ entry[d].dentries[2].name = ".."
                       /\ IF d = ROOT THEN up[d] = ROOT
                          ELSE \E k \in DOMAIN entry[up[d]].dentries : NamesOf(d) = {<<up[d], k>>}
                       /\ climb[MaxIno] = ROOT
  BY DEF TreeShape
<1> DEFINE up == [i \in Ino |-> IF entry[i].type = "dir" THEN entry[i].dentries[2].ino ELSE 0]
           climb == CHOOSE c : ClimbOf(up, d, c, MaxIno)
<1>1. Shaped(entry) /\ Planted(entry)
  BY CInvFacts
<1>2. /\ entry[d].dentries[1] = [name |-> ".", ino |-> d]
      /\ entry[d].dentries[2].name = ".."
  BY <1>1 DEF Shaped, DirShaped
<1>3. \A i \in Ino : entry[i].type = "dir" => up[i] = Up(entry, i)
  BY DEF Up
<1>4. climb[MaxIno] = ROOT
  <2> HIDE DEF up
  <2>1. ClimbOf(up, d, climb, MaxIno)
    BY ClimbExists, IlistAssumption
  <2> HIDE DEF climb
  <2> QED BY <1>1, <1>3, <2>1, ClimbEnds
<1>5. CASE d = ROOT
  <2>1. up[d] = ROOT
    BY <1>1, <1>3, <1>5 DEF Planted, PlantedBut
  <2> QED BY <1>2, <1>4, <1>5, <2>1 DEF ClimbOf
<1>6. CASE d # ROOT
  <2>1. PICK x \in TreeNames(entry) : x.dir = Up(entry, d) /\ x.obj = d
    BY <1>1, <1>6 DEF Planted, PlantedBut
  <2>2. \A y \in TreeNames(entry) : y.obj = d => y = x
    BY <1>1, <1>6, <2>1 DEF Planted, PlantedBut
  <2>3. PICK k \in Nat : /\ NameAt(entry, x.dir, k)
                         /\ entry[x.dir].dentries[k].name = x.name
                         /\ entry[x.dir].dentries[k].ino = x.obj
    BY <1>1, NameParts
  <2>4. up[d] = x.dir
    BY <1>3, <2>1
  <2> HIDE DEF up
  <2>5. <<x.dir, k>> \in NamesOf(d)
    BY <1>1, <2>1, <2>3, NamesInAre DEF NamesOf
  <2>6. ASSUME NEW z \in NamesOf(d) PROVE z = <<x.dir, k>>
    <3>1. z \in NamesIn(entry) /\ entry[z[1]].dentries[z[2]].ino = d
      BY DEF NamesOf
    <3>2. NameAt(entry, z[1], z[2])
      BY <1>1, <3>1, NamesInAre
    <3>3. TreeName(z[1], entry[z[1]].dentries[z[2]]) \in TreeNames(entry)
      BY <1>1, <3>2, TreeNamesAre
    <3>4. TreeName(z[1], entry[z[1]].dentries[z[2]]) = x
      BY <2>2, <3>1, <3>3 DEF TreeName
    <3>5. z[1] = x.dir /\ entry[z[1]].dentries[z[2]].name = x.name
      BY <3>4 DEF TreeName
    <3>6. <<x.dir, k>> \in NamesIn(entry)
      BY <2>5 DEF NamesOf
    <3>7. NamesResolve
      BY CInvNamesResolve
    <3> QED BY <2>3, <3>1, <3>5, <3>6, <3>7 DEF NamesResolve
  <2>7. NamesOf(d) = {<<x.dir, k>>}
    BY <2>5, <2>6
  <2>8. k \in DOMAIN entry[x.dir].dentries
    <3>1. /\ x.dir \in Ino /\ k \in Nat /\ 3 <= k /\ k <= Len(entry[x.dir].dentries)
      BY <2>3 DEF NameAt
    <3>2. /\ DOMAIN entry[x.dir].dentries = 1..Len(entry[x.dir].dentries)
          /\ Len(entry[x.dir].dentries) \in Nat
      BY <1>1, <3>1, DentriesAre
    <3> QED BY <3>1, <3>2
  <2>9. \E l \in DOMAIN entry[up[d]].dentries : NamesOf(d) = {<<up[d], l>>}
    BY <2>4, <2>7, <2>8
  <2> QED BY <1>2, <1>4, <1>6, <2>9 DEF ClimbOf, up
<1> QED BY <1>5, <1>6

(* Every name leads to a file that is there, whatever a careful caller     *)
(* links, unlinks, moves and reopens, and no directory has a name twice.   *)
THEOREM NamesResolveHolds == CarefulSpec => []NamesResolve
BY CarefulInvariance, CInvNamesResolve, PTL

(* st_nlink is the names and the handles of a file, and one for the root:  *)
(* my_mknod, my_link, my_open count up what my_unlink and my_close count   *)
(* down, so that the erase at 0 comes with the last of them.               *)
THEOREM LinkCountExactHolds == CarefulSpec => []LinkCountExact
BY CarefulInvariance, CInvLinkCountExact, PTL

(* The directories stay a tree, with "." and ".." where my_mknod put them: *)
(* a walk up from any of them ends at the root.                            *)
THEOREM TreeShapeHolds == CarefulSpec => []TreeShape
BY CarefulInvariance, CInvTreeShape, PTL

-----------------------------------------------------------------------------
(* The calls do what they say. *)

LEMMA CallLeads ==
  ASSUME CInv, CarefulNext
  PROVE  /\ \A p \in Paths :
              /\ CarefulMkdir(p) \/ CarefulCreat(p) => FindReal(entry', p) = count
              /\ CarefulUnlink(p) \/ CarefulRmdir(p) => FindReal(entry', p) = 0
         /\ \A p \in Paths, q \in {r \in Paths : MayMake(r)} :
              /\ CarefulSymlink(p, q) => Find(entry', q) = FindReal(entry', p)
              /\ CarefulLink(p, q) => FindReal(entry', q) = FindReal(entry, p)
              /\ CarefulRename(p, q) =>
                   /\ FindReal(entry', q) = IF Through(p) THEN 0 ELSE FindReal(entry, p)
                   /\ FindReal(entry', p) = 0
<1>0. Paths \subseteq Path
  BY NameSpaceAssumption
<1>1. ASSUME NEW p \in Paths, CarefulMkdir(p) PROVE FindReal(entry', p) = count
  <2> DEFINE d == FindReal(entry, ParentPath(p))
  <2>1. /\ p \in Path /\ MayMake(p) /\ count <= MaxIno
        /\ entry' = Grown(entry, count, d, TailName(p), "dir")
    BY <1>0, <1>1, MakeIs
  <2> QED BY <2>1, GrownIs
<1>2. ASSUME NEW p \in Paths, CarefulCreat(p) PROVE FindReal(entry', p) = count
  <2> DEFINE d == FindReal(entry, ParentPath(p))
  <2>1. /\ p \in Path /\ MayMake(p) /\ count <= MaxIno
        /\ entry' = Grown(entry, count, d, TailName(p), "reg")
    BY <1>0, <1>2, MakeIs
  <2> QED BY <2>1, GrownIs
<1>3. ASSUME NEW p \in Paths, CarefulUnlink(p) PROVE FindReal(entry', p) = 0
  <2>1. p \in Path
    BY <1>0
  <2> QED BY <1>3, <2>1, UnlinkIs
<1>4. ASSUME NEW p \in Paths, CarefulRmdir(p) PROVE FindReal(entry', p) = 0
  <2>1. p \in Path
    BY <1>0
  <2> QED BY <1>4, <2>1, RmdirIs
<1>5. ASSUME NEW p \in Paths, NEW q \in Paths, CarefulSymlink(p, q)
      PROVE  Find(entry', q) = FindReal(entry', p)
  <2>1. /\ p \in Path /\ q \in Path /\ MayMake(q) /\ count <= MaxIno
        /\ entry' = WithLink(entry, p, q)
    BY <1>0, <1>5, SymlinkMakes
  <2>2. /\ entry'[count].type = "lnk" /\ entry'[count].target = p
        /\ FindReal(entry', q) = count
    BY <2>1, SymlinkIs
  <2> QED BY <2>2 DEF Find
<1>6. ASSUME NEW p \in Paths, NEW q \in Paths, CarefulLink(p, q)
      PROVE  FindReal(entry', q) = FindReal(entry, p)
  <2>1. p \in Path /\ q \in Path /\ MayLink(p, q) /\ Link(p, q)
    BY <1>0, <1>6 DEF CarefulLink
  <2> QED BY <2>1, LinkIs
<1>7. ASSUME NEW p \in Paths, NEW q \in Paths, CarefulRename(p, q)
      PROVE  /\ FindReal(entry', q) = IF Through(p) THEN 0 ELSE FindReal(entry, p)
             /\ FindReal(entry', p) = 0
  <2>1. p \in Path /\ q \in Path
    BY <1>0
  <2> QED BY <1>7, <2>1, RenameLeads
<1> QED
  BY <1>1, <1>2, <1>3, <1>4, <1>5, <1>6, <1>7

(* A call the contract allows is never refused and its paths then lead     *)
(* where the call says, whatever "." and ".." are in them; a rename is to  *)
(* where its new path leads but where the paths go through what it moves.  *)
THEOREM CallsActHolds == CarefulSpec => CallsAct
<1>1. CInv /\ [CarefulNext]_vars =>
        [/\ \A p \in Paths :
              /\ CarefulMkdir(p) \/ CarefulCreat(p) => FindReal(entry', p) = count
              /\ CarefulUnlink(p) \/ CarefulRmdir(p) => FindReal(entry', p) = 0
         /\ \A p \in Paths, q \in {r \in Paths : MayMake(r)} :
              /\ CarefulSymlink(p, q) => Find(entry', q) = FindReal(entry', p)
              /\ CarefulLink(p, q) => FindReal(entry', q) = FindReal(entry, p)
              /\ CarefulRename(p, q) =>
                   /\ FindReal(entry', q) = IF Through(p) THEN 0 ELSE FindReal(entry, p)
                   /\ FindReal(entry', p) = 0]_vars
  BY CallLeads
<1> QED
  BY <1>1, CarefulInvariance, PTL DEF CarefulSpec, CallsAct

(* A rename between paths of names alone moves what was there, a directory *)
(* with all that is below it.                                              *)
THEOREM PlainRenameMoves ==
  CarefulSpec => [][\A p, q \in Paths : CarefulRename(p, q) /\ Undotted(p) =>
                      FindReal(entry', q) = FindReal(entry, p)]_vars
<1>1. ASSUME CInv, NEW p \in Paths, NEW q \in Paths, CarefulRename(p, q), Undotted(p)
      PROVE  FindReal(entry', q) = FindReal(entry, p)
  <2>1. p \in Path /\ q \in Path /\ Plain(p)
    BY <1>1, NameSpaceAssumption DEF CarefulRename, MayRename
  <2>2. /\ FindReal(entry', q) = IF Through(p) THEN 0 ELSE FindReal(entry, p)
        /\ entry[FindReal(entry, p)].type = "reg" => ~Through(p)
    BY <1>1, <2>1, RenameLeads
  <2>3. FindReal(entry, p) \in Ino /\ entry[FindReal(entry, p)].type \in {"dir", "reg"}
    BY <1>1, <2>1, CInvFacts, PathParts DEF CarefulRename, MayRename, TypeAt
  <2>4. CASE entry[FindReal(entry, p)].type = "dir"
    <3>1. ~Through(p)
      BY <1>1, <2>1, <2>3, <2>4, DownNotThrough DEF IsDir
    <3> QED BY <2>2, <3>1
  <2> QED BY <2>2, <2>3, <2>4
<1>2. CInv /\ [CarefulNext]_vars =>
        [\A p, q \in Paths : CarefulRename(p, q) /\ Undotted(p) =>
           FindReal(entry', q) = FindReal(entry, p)]_vars
  BY <1>1
<1> QED
  BY <1>2, CarefulInvariance, PTL DEF CarefulSpec

-----------------------------------------------------------------------------
(***************************************************************************)
(* The inode table, driven by a careful caller, implements FileTree: the   *)
(* tree of a table is its kinds of files and its names, and every call is  *)
(* one step of the tree, or none.  Proved for every set of names and of    *)
(* paths, "." and ".." among them, from the invariant above.               *)
(***************************************************************************)

Kinds(nd) == [i \in Ino |-> nd[i].type]

(* FileTree's steps on a table, one lemma for each action. *)

LEMMA MakeObjIs ==
  ASSUME NEW d \in Ino, NEW n \in Name, NEW o \in Ino, NEW k \in {"dir", "reg", "lnk"},
         entry[d].type = "dir", \A x \in TreeNames(entry) : ~(x.dir = d /\ x.name = n),
         entry[o].type = "none", entry'[o].type = k,
         \A j \in Ino \ {o} : entry'[j].type = entry[j].type,
         TreeNames(entry') = TreeNames(entry) \cup {[dir |-> d, name |-> n, obj |-> o]},
         held' = held
  PROVE  Tree!MakeObj(d, n, o, k)
<1>1. Kinds(entry') = [Kinds(entry) EXCEPT ![o] = k]
  BY DEF Kinds
<1>2. Kinds(entry)[d] = "dir" /\ Kinds(entry)[o] = "none"
  BY DEF Kinds
<1> QED
  BY <1>1, <1>2 DEF Tree!MakeObj, Tree!Free, Kinds, TreeNames, TreeName

LEMMA AddNameIs ==
  ASSUME NEW d \in Ino, NEW n \in Name, NEW o \in Ino,
         entry[d].type = "dir", \A x \in TreeNames(entry) : ~(x.dir = d /\ x.name = n),
         entry[o].type = "reg", \A j \in Ino : entry'[j].type = entry[j].type,
         TreeNames(entry') = TreeNames(entry) \cup {[dir |-> d, name |-> n, obj |-> o]},
         held' = held
  PROVE  Tree!AddName(d, n, o)
<1>1. Kinds(entry') = Kinds(entry)
  BY DEF Kinds
<1>2. Kinds(entry)[d] = "dir" /\ Kinds(entry)[o] = "reg"
  BY DEF Kinds
<1> QED
  BY <1>1, <1>2 DEF Tree!AddName, Tree!Free, Kinds, TreeNames, TreeName

LEMMA KindsReclaimed ==
  ASSUME NEW o \in Ino, NEW stays \in BOOLEAN,
         \A j \in Ino \ {o} : entry'[j].type = entry[j].type,
         entry'[o].type = IF stays THEN entry[o].type ELSE "none"
  PROVE  Kinds(entry') = IF stays THEN Kinds(entry) ELSE [Kinds(entry) EXCEPT ![o] = "none"]
<1>1. CASE stays
  BY <1>1 DEF Kinds
<1>2. CASE ~stays
  BY <1>2 DEF Kinds
<1> QED BY <1>1, <1>2

LEMMA DropNameIs ==
  ASSUME NEW x \in TreeNames(entry), x.obj \in Ino,
         \A y \in TreeNames(entry) : y.dir # x.obj,
         TreeNames(entry') = TreeNames(entry) \ {x},
         \A j \in Ino \ {x.obj} : entry'[j].type = entry[j].type,
         entry'[x.obj].type =
           IF x.obj = ROOT \/ held[x.obj] > 0 \/ (\E y \in TreeNames(entry') : y.obj = x.obj)
           THEN entry[x.obj].type ELSE "none",
         held' = held
  PROVE  Tree!DropName(x)
<1> DEFINE stays == x.obj = ROOT \/ held[x.obj] > 0 \/ (\E y \in TreeNames(entry') : y.obj = x.obj)
<1>1. Kinds(entry') = IF stays THEN Kinds(entry) ELSE [Kinds(entry) EXCEPT ![x.obj] = "none"]
  <2>1. entry'[x.obj].type = IF stays THEN entry[x.obj].type ELSE "none"
    OBVIOUS
  <2>2. stays \in BOOLEAN
    OBVIOUS
  <2> HIDE DEF stays
  <2> QED BY <2>1, <2>2, KindsReclaimed
<1>2. x.obj = ROOT \/ held[x.obj] > 0 \/ (\E y \in TreeNames(entry') : y.obj = x.obj) <=> stays
  OBVIOUS
<1> HIDE DEF stays
<1>3. Tree!Reclaim(x.obj, TreeNames(entry'), held)
  BY <1>1, <1>2 DEF Tree!Reclaim, Kinds
<1> QED
  BY <1>3 DEF Tree!DropName, TreeNames, TreeName

LEMMA MoveNameIs ==
  ASSUME NEW x \in TreeNames(entry), x.obj \in Ino, NEW d \in Ino, NEW n \in Name,
         entry[d].type = "dir", \A y \in TreeNames(entry) : ~(y.dir = d /\ y.name = n),
         entry[x.obj].type = "dir" => d = x.dir,
         TreeNames(entry') = (TreeNames(entry) \ {x}) \cup {[dir |-> d, name |-> n, obj |-> x.obj]},
         \A j \in Ino : entry'[j].type = entry[j].type,
         held' = held
  PROVE  Tree!MoveName(x, d, n)
<1>1. Kinds(entry') = Kinds(entry)
  BY DEF Kinds
<1>2. Kinds(entry)[d] = "dir" /\ Kinds(entry)[x.obj] = entry[x.obj].type
  BY DEF Kinds
<1> QED
  BY <1>1, <1>2 DEF Tree!MoveName, Tree!Free, Kinds, TreeNames, TreeName

LEMMA OpenObjIs ==
  ASSUME NEW o \in Ino, entry[o].type # "none", held' = [held EXCEPT ![o] = @ + 1],
         \A j \in Ino : entry'[j].type = entry[j].type,
         TreeNames(entry') = TreeNames(entry)
  PROVE  Tree!OpenObj(o)
<1>1. Kinds(entry') = Kinds(entry) /\ Kinds(entry)[o] # "none"
  BY DEF Kinds
<1> QED
  BY <1>1 DEF Tree!OpenObj, Kinds, TreeNames, TreeName

LEMMA CloseObjIs ==
  ASSUME NEW o \in Ino, held[o] > 0, held' = [held EXCEPT ![o] = @ - 1],
         \A j \in Ino \ {o} : entry'[j].type = entry[j].type,
         entry'[o].type =
           IF o = ROOT \/ held'[o] > 0 \/ (\E x \in TreeNames(entry) : x.obj = o)
           THEN entry[o].type ELSE "none",
         TreeNames(entry') = TreeNames(entry)
  PROVE  Tree!CloseObj(o)
<1> DEFINE stays == o = ROOT \/ held'[o] > 0 \/ (\E x \in TreeNames(entry) : x.obj = o)
<1>1. Kinds(entry') = IF stays THEN Kinds(entry) ELSE [Kinds(entry) EXCEPT ![o] = "none"]
  <2>1. entry'[o].type = IF stays THEN entry[o].type ELSE "none"
    OBVIOUS
  <2>2. stays \in BOOLEAN
    OBVIOUS
  <2> HIDE DEF stays
  <2> QED BY <2>1, <2>2, KindsReclaimed
<1>2. o = ROOT \/ held'[o] > 0 \/ (\E x \in TreeNames(entry) : x.obj = o) <=> stays
  OBVIOUS
<1> HIDE DEF stays
<1>3. Tree!Reclaim(o, TreeNames(entry), held')
  BY <1>1, <1>2 DEF Tree!Reclaim, Kinds
<1> QED
  BY <1>3 DEF Tree!CloseObj, TreeNames, TreeName

-----------------------------------------------------------------------------
(* The calls, one lemma for each. *)

TreeMove == Tree!TreeNext \/ UNCHANGED Tree!tree

LEMMA TreeMoves ==
  /\ \A d, o \in Ino : \A n \in Name : \A k \in {"dir", "reg", "lnk"} :
       Tree!MakeObj(d, n, o, k) => TreeMove
  /\ \A d, o \in Ino : \A n \in Name : Tree!AddName(d, n, o) => TreeMove
  /\ \A x \in TreeNames(entry) : Tree!DropName(x) => TreeMove
  /\ \A x \in TreeNames(entry) : \A d \in Ino : \A n \in Name :
       Tree!MoveName(x, d, n) => TreeMove
  /\ \A o \in Ino : Tree!OpenObj(o) \/ Tree!CloseObj(o) => TreeMove
BY DEF TreeMove, Tree!TreeNext, Tree!Kind, TreeNames, TreeName

LEMMA MakeMoves ==
  ASSUME CInv, NEW p \in Path, NEW t \in {"dir", "reg"},
         (t = "dir" /\ CarefulMkdir(p)) \/ (t = "reg" /\ CarefulCreat(p))
  PROVE  TreeMove
<1> DEFINE d == FindReal(entry, ParentPath(p))
           n == TailName(p)
<1>1. /\ MayMake(p) /\ count <= MaxIno /\ held' = held
      /\ entry' = Grown(entry, count, d, n, t)
  BY MakeIs
<1>2. /\ count \in Ino /\ entry[count] = Blank
      /\ TreeNames(entry') = TreeNames(entry) \cup {[dir |-> d, name |-> n, obj |-> count]}
      /\ entry'[count] = Fresh(t, count, d)
      /\ \A j \in Ino \ {count} : entry'[j].type = entry[j].type
  BY <1>1, GrownIs
<1>3. /\ n \in Name /\ d \in Ino /\ entry[d].type = "dir"
      /\ \A x \in TreeNames(entry) : ~(x.dir = d /\ x.name = n)
  BY <1>1, MayMakeMeans
<1>4. entry[count].type = "none" /\ entry'[count].type = t
  <2>1. entry[count].type = "none"
    BY <1>2 DEF Blank
  <2>2. entry'[count].type = t
    <3>1. Fresh(t, count, d).type = t
      BY DEF Fresh
    <3> QED BY <1>2, <3>1
  <2> QED BY <2>1, <2>2
<1> HIDE DEF d, n
<1>5. t \in {"dir", "reg", "lnk"}
  OBVIOUS
<1>6. Tree!MakeObj(d, n, count, t)
  BY <1>1, <1>2, <1>3, <1>4, <1>5, MakeObjIs
<1> QED
  BY <1>2, <1>3, <1>5, <1>6, TreeMoves

LEMMA SymlinkMoves ==
  ASSUME CInv, NEW p \in Path, NEW q \in Path, CarefulSymlink(p, q)
  PROVE  TreeMove
<1> DEFINE d == FindReal(entry, ParentPath(q))
           n == TailName(q)
<1>1. MayMake(q) /\ count <= MaxIno /\ held' = held /\ entry' = WithLink(entry, p, q)
  BY SymlinkMakes
<1>2. /\ count \in Ino /\ entry[count] = Blank
      /\ TreeNames(entry') = TreeNames(entry) \cup {[dir |-> d, name |-> n, obj |-> count]}
      /\ entry'[count].type = "lnk"
      /\ \A j \in Ino \ {count} : entry'[j].type = entry[j].type
  BY <1>1, SymlinkIs
<1>3. /\ n \in Name /\ d \in Ino /\ entry[d].type = "dir"
      /\ \A x \in TreeNames(entry) : ~(x.dir = d /\ x.name = n)
  BY <1>1, MayMakeMeans
<1>4. entry[count].type = "none"
  BY <1>2 DEF Blank
<1> HIDE DEF d, n
<1>5. Tree!MakeObj(d, n, count, "lnk")
  BY <1>1, <1>2, <1>3, <1>4, MakeObjIs
<1> QED
  BY <1>2, <1>3, <1>5, TreeMoves

LEMMA LinkMoves ==
  ASSUME CInv, NEW p \in Path, NEW q \in Path, CarefulLink(p, q)
  PROVE  TreeMove
<1>0. PICK i, d, n : /\ i = FindReal(entry, p) /\ d = FindReal(entry, ParentPath(q))
                     /\ n = TailName(q)
  OBVIOUS
<1>1. MayLink(p, q) /\ Link(p, q) /\ MayMake(q)
  BY DEF CarefulLink, MayLink
<1>2. /\ held' = held /\ i \in Ino /\ entry[i].type = "reg"
      /\ TreeNames(entry') = TreeNames(entry) \cup {[dir |-> d, name |-> n, obj |-> i]}
      /\ \A j \in Ino : entry'[j].type = entry[j].type
  BY <1>0, <1>1, LinkIs
<1>3. /\ n \in Name /\ d \in Ino /\ entry[d].type = "dir"
      /\ \A x \in TreeNames(entry) : ~(x.dir = d /\ x.name = n)
  BY <1>0, <1>1, MayMakeMeans
<1>4. Tree!AddName(d, n, i)
  BY <1>2, <1>3, AddNameIs
<1>5. d \in Ino /\ i \in Ino /\ n \in Name
  BY <1>2, <1>3
<1> QED
  BY <1>4, <1>5, TreeMoves

LEMMA UnlinkMoves ==
  ASSUME CInv, NEW p \in Path, CarefulUnlink(p)
  PROVE  TreeMove
<1>0. PICK i, d, x : /\ i = FindReal(entry, p) /\ d = FindReal(entry, ParentPath(p))
                     /\ x = [dir |-> d, name |-> TailName(p), obj |-> i]
  OBVIOUS
<1>a. x.obj = i
  BY <1>0
<1>1. /\ held' = held /\ i \in Ino /\ entry[i].type = "reg" /\ x \in TreeNames(entry)
      /\ TreeNames(entry') = TreeNames(entry) \ {x}
      /\ \A j \in Ino \ {i} : entry'[j].type = entry[j].type
      /\ entry'[i].type = IF held[i] > 0 \/ (\E y \in TreeNames(entry') : y.obj = i)
                          THEN "reg" ELSE "none"
  BY <1>0, UnlinkIs
<1>2. Shaped(entry) /\ Planted(entry)
  BY CInvFacts
<1>3. i # ROOT /\ \A y \in TreeNames(entry) : y.dir # i
  BY <1>0, <1>a, <1>1, <1>2, NameParts DEF Planted, PlantedBut
<1>4. Tree!DropName(x)
  <2>1. entry'[x.obj].type =
          IF x.obj = ROOT \/ held[x.obj] > 0 \/ (\E y \in TreeNames(entry') : y.obj = x.obj)
          THEN entry[x.obj].type ELSE "none"
    BY <1>0, <1>a, <1>1, <1>3
  <2>2. /\ x \in TreeNames(entry) /\ x.obj \in Ino /\ held' = held
        /\ \A y \in TreeNames(entry) : y.dir # x.obj
        /\ TreeNames(entry') = TreeNames(entry) \ {x}
        /\ \A j \in Ino \ {x.obj} : entry'[j].type = entry[j].type
    BY <1>0, <1>a, <1>1, <1>3
  <2> QED BY <2>1, <2>2, DropNameIs
<1>5. x \in TreeNames(entry)
  BY <1>1
<1> QED
  BY <1>4, <1>5, TreeMoves

LEMMA RmdirMoves ==
  ASSUME CInv, NEW p \in Path, CarefulRmdir(p)
  PROVE  TreeMove
<1>0. PICK i, d, x : /\ i = FindReal(entry, p) /\ d = FindReal(entry, ParentPath(p))
                     /\ x = [dir |-> d, name |-> TailName(p), obj |-> i]
  OBVIOUS
<1>a. x.obj = i
  BY <1>0
<1>1. /\ held' = held /\ i \in Ino /\ held[i] = 0 /\ i # ROOT /\ x \in TreeNames(entry)
      /\ \A y \in TreeNames(entry) : y.dir # i
      /\ \A y \in TreeNames(entry') : y.obj # i
      /\ entry'[i] = Blank
      /\ TreeNames(entry') = TreeNames(entry) \ {x}
      /\ \A j \in Ino \ {i} : entry'[j].type = entry[j].type
  BY <1>0, RmdirIs
<1>2. Tree!DropName(x)
  <2>1. entry'[x.obj].type = "none" /\ x.obj # ROOT /\ ~(held[x.obj] > 0)
    BY <1>0, <1>a, <1>1 DEF Blank
  <2>2. entry'[x.obj].type =
          IF x.obj = ROOT \/ held[x.obj] > 0 \/ (\E y \in TreeNames(entry') : y.obj = x.obj)
          THEN entry[x.obj].type ELSE "none"
    BY <1>0, <1>a, <1>1, <2>1
  <2>3. /\ x \in TreeNames(entry) /\ x.obj \in Ino /\ held' = held
        /\ \A y \in TreeNames(entry) : y.dir # x.obj
        /\ TreeNames(entry') = TreeNames(entry) \ {x}
        /\ \A j \in Ino \ {x.obj} : entry'[j].type = entry[j].type
    BY <1>0, <1>a, <1>1
  <2> QED BY <2>2, <2>3, DropNameIs
<1> QED
  BY <1>1, <1>2, TreeMoves

LEMMA RenameMoves ==
  ASSUME CInv, NEW p \in Path, NEW q \in Path, CarefulRename(p, q)
  PROVE  TreeMove
<1>0. PICK i, d, e, n, x, y :
      /\ i = FindReal(entry, p) /\ d = FindReal(entry, ParentPath(p))
      /\ e = FindReal(entry, ParentPath(q)) /\ n = TailName(q)
      /\ x = [dir |-> d, name |-> TailName(p), obj |-> i]
      /\ y = [dir |-> e, name |-> n, obj |-> i]
  OBVIOUS
<1>1. n \in Name
  BY <1>0 DEF CarefulRename, MayRename, MayMake, Plain
<1>2. entry[i].type = "dir" => d = e
  BY <1>0, RenameIs
<1>3. /\ i \in Ino /\ d \in Ino /\ e \in Ino /\ entry[e].type = "dir" /\ held' = held
      /\ x \in TreeNames(entry) /\ x.dir = d /\ x.obj = i
      /\ \A z \in TreeNames(entry) : ~(z.dir = e /\ z.name = n)
      /\ TreeNames(entry') = (TreeNames(entry) \ {x}) \cup {y}
      /\ SameFiles(entry, entry')
  BY <1>0, RenameIs
<1>4. /\ x.obj \in Ino /\ (entry[x.obj].type = "dir" => e = x.dir)
      /\ TreeNames(entry') =
           (TreeNames(entry) \ {x}) \cup {[dir |-> e, name |-> n, obj |-> x.obj]}
      /\ \A j \in Ino : entry'[j].type = entry[j].type
  BY <1>0, <1>2, <1>3 DEF SameFiles
<1>5. Tree!MoveName(x, e, n)
  BY <1>1, <1>3, <1>4, MoveNameIs
<1> QED
  BY <1>1, <1>3, <1>5, TreeMoves

LEMMA HandleMoves ==
  ASSUME CInv
  PROVE  /\ \A p \in Path : CarefulOpen(p) => TreeMove
         /\ \A i \in Ino \ {0} : Close(i) => TreeMove
<1>1. ASSUME NEW p \in Path, CarefulOpen(p) PROVE TreeMove
  <2> DEFINE i == Find(entry, p)
  <2>1. /\ i \in Ino /\ entry[i].type # "none" /\ held' = [held EXCEPT ![i] = @ + 1]
        /\ TreeNames(entry') = TreeNames(entry)
        /\ \A j \in Ino : entry'[j].type = entry[j].type
    BY <1>1, OpenIs
  <2> HIDE DEF i
  <2>2. Tree!OpenObj(i)
    BY <2>1, OpenObjIs
  <2> QED BY <2>1, <2>2, TreeMoves
<1>2. ASSUME NEW i \in Ino \ {0}, Close(i) PROVE TreeMove
  <2>1. /\ held[i] > 0 /\ held' = [held EXCEPT ![i] = @ - 1]
        /\ TreeNames(entry') = TreeNames(entry)
        /\ \A j \in Ino \ {i} : entry'[j].type = entry[j].type
        /\ entry'[i].type = IF i = ROOT \/ held'[i] > 0 \/ (\E x \in TreeNames(entry) : x.obj = i)
                            THEN entry[i].type ELSE "none"
    BY <1>2, CloseIs
  <2>2. Tree!CloseObj(i)
    BY <2>1, CloseObjIs
  <2> QED BY <2>2, TreeMoves
<1> QED BY <1>1, <1>2

-----------------------------------------------------------------------------
LEMMA TreeInitIs == Init => Tree!TreeInit
<1> SUFFICES ASSUME Init PROVE Tree!TreeInit
  OBVIOUS
<1>1. /\ TreeNames(entry) = {}
      /\ \A i \in Ino : entry[i].type = (IF i = ROOT THEN "dir" ELSE "none") /\ held[i] = 0
  BY InitIs
<1>2. Kinds(entry) = [i \in Ino |-> IF i = ROOT THEN "dir" ELSE "none"]
  BY <1>1 DEF Kinds
<1>3. held = [i \in Ino |-> 0]
  BY DEF Init
<1> QED
  BY <1>1, <1>2, <1>3 DEF Tree!TreeInit, Kinds, TreeNames, TreeName

LEMMA StepMoves ==
  ASSUME CInv, [CarefulNext]_vars
  PROVE  TreeMove
<1>0. Paths \subseteq Path
  BY NameSpaceAssumption
<1>1. ASSUME UNCHANGED vars PROVE TreeMove
  <2>1. entry' = entry /\ held' = held
    BY <1>1 DEF vars
  <2> QED BY <2>1 DEF TreeMove, Tree!tree, NamesIn
<1>2. ASSUME NEW p \in Paths, CarefulMkdir(p) \/ CarefulCreat(p) PROVE TreeMove
  BY <1>0, <1>2, MakeMoves
<1>3. ASSUME NEW p \in Paths, CarefulUnlink(p) \/ CarefulRmdir(p) PROVE TreeMove
  BY <1>0, <1>3, UnlinkMoves, RmdirMoves
<1>4. ASSUME NEW p \in Paths, CarefulOpen(p) PROVE TreeMove
  BY <1>0, <1>4, HandleMoves
<1>5. ASSUME NEW p \in Paths, CarefulChmod(p) PROVE TreeMove
  BY <1>0, <1>1, <1>5, ChmodIs
<1>6. ASSUME NEW p \in Paths, NEW q \in Paths,
             CarefulLink(p, q) \/ CarefulSymlink(p, q) \/ CarefulRename(p, q)
      PROVE  TreeMove
  BY <1>0, <1>6, LinkMoves, SymlinkMoves, RenameMoves
<1>7. ASSUME NEW i \in Ino \ {0}, Close(i) PROVE TreeMove
  BY <1>7, HandleMoves
<1> QED
  BY <1>1, <1>2, <1>3, <1>4, <1>5, <1>6, <1>7 DEF CarefulNext

(* The inode table of my_stubs.cc is a tree of objects: every call of a    *)
(* careful caller makes, names, moves or reclaims exactly one of them.     *)
THEOREM TreeImplemented == CarefulSpec => ImplementsTree
<1>1. CInv /\ [CarefulNext]_vars => [Tree!TreeNext]_(Tree!tree)
  BY StepMoves DEF TreeMove
<1> QED
  BY <1>1, CarefulInvariance, TreeInitIs, PTL
  DEF CarefulSpec, ImplementsTree, Tree!TreeSpec
=============================================================================
