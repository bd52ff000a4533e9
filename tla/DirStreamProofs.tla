--------------------------- MODULE DirStreamProofs ---------------------------
(***************************************************************************)
(* Proofs about DirStream: what a scan is worth while a careful caller     *)
(* changes the directory, for every number of inodes, every set of names   *)
(* and paths, and scans of any length.                                     *)
(***************************************************************************)
EXTENDS DirStream, CarefulProofs

-----------------------------------------------------------------------------
(* What the calls do to a directory: a dentry at most goes, the k-th, and  *)
(* those behind it move up; a dentry that is new comes in at the end.      *)
EditedAt(s, r, k) ==
  /\ \A j \in 1..Len(s) : j < k => j <= Len(r) /\ r[j] = s[j]
  /\ \A j \in 1..Len(s) : j > k => j - 1 <= Len(r) /\ r[j - 1] = s[j]
  /\ k <= Len(s) => s[k] \notin ToSet(r)
  /\ \A m \in 1..Len(r) : r[m] \in ToSet(s) =>
       IF m < k THEN m <= Len(s) /\ r[m] = s[m]
                ELSE m + 1 <= Len(s) /\ r[m] = s[m + 1]

Edited(s, r) == r = <<>> \/ \E k \in 1..(Len(s) + 1) : EditedAt(s, r, k)

LEMMA Elements ==
  ASSUME NEW S, NEW s \in Seq(S)
  PROVE  /\ Len(s) \in Nat /\ DOMAIN s = 1..Len(s) /\ ToSet(s) \subseteq S
         /\ \A x : x \in ToSet(s) <=> \E j \in 1..Len(s) : x = s[j]
         /\ IsFiniteSet(ToSet(s))
<1>1. Len(s) \in Nat /\ DOMAIN s = 1..Len(s) /\ s \in [1..Len(s) -> S]
  BY LenProperties
<1>2. \A x : x \in ToSet(s) <=> \E j \in 1..Len(s) : x = s[j]
  BY <1>1 DEF ToSet
<1>3. ToSet(s) \subseteq S
  BY <1>1, <1>2
<1>4. s \in Surjection(1..Len(s), ToSet(s))
  BY <1>1, <1>2 DEF Surjection
<1>5. IsFiniteSet(1..Len(s))
  BY <1>1, FS_Interval
<1>6. IsFiniteSet(ToSet(s))
  BY <1>4, <1>5, FS_Surjection
<1> QED BY <1>1, <1>2, <1>3, <1>6

LEMMA EditedSame ==
  ASSUME NEW S, NEW s \in Seq(S)
  PROVE  Edited(s, s)
<1>1. /\ Len(s) \in Nat
      /\ \A x : x \in ToSet(s) <=> \E j \in 1..Len(s) : x = s[j]
  BY Elements
<1>2. EditedAt(s, s, Len(s) + 1)
  BY <1>1 DEF EditedAt
<1> QED BY <1>1, <1>2 DEF Edited

LEMMA EditedAppend ==
  ASSUME NEW S, NEW s \in Seq(S), NEW e \in S, e \notin ToSet(s)
  PROVE  Edited(s, Append(s, e))
<1> DEFINE r == Append(s, e)
<1>1. Len(s) \in Nat
  BY Elements
<1>2. /\ Len(r) = Len(s) + 1 /\ r[Len(s) + 1] = e
      /\ \A j \in 1..Len(s) : r[j] = s[j]
  BY AppendProperties
<1> HIDE DEF r
<1>3. EditedAt(s, r, Len(s) + 1)
  <2>1. \A m \in 1..Len(r) : r[m] \in ToSet(s) => m <= Len(s)
    BY <1>1, <1>2
  <2> QED BY <1>1, <1>2, <2>1 DEF EditedAt
<1>4. Len(s) + 1 \in 1..(Len(s) + 1)
  BY <1>1
<1> QED BY <1>3, <1>4 DEF Edited, r

LEMMA EditedRemove ==
  ASSUME NEW S, NEW s \in Seq(S), NEW k \in 1..Len(s),
         \A j \in 1..Len(s) : s[j] = s[k] => j = k,
         NEW r, r = RemoveAt(s, k)
  PROVE  /\ Edited(s, r) /\ r \in Seq(S) /\ Len(r) = Len(s) - 1 /\ ToSet(r) \subseteq ToSet(s)
         /\ EditedAt(s, r, k)
<1>1. /\ Len(s) \in Nat
      /\ \A x : x \in ToSet(s) <=> \E j \in 1..Len(s) : x = s[j]
  BY Elements
<1>2. /\ r \in Seq(S) /\ Len(r) = Len(s) - 1
      /\ \A j \in 1..(k - 1) : r[j] = s[j]
      /\ \A j \in k..(Len(s) - 1) : r[j] = s[j + 1]
  BY RemoveAtEntries
<1>3. \A x : x \in ToSet(r) <=> \E j \in 1..Len(r) : x = r[j]
  BY <1>2, Elements
<1>4. ASSUME NEW m \in 1..Len(r)
      PROVE  IF m < k THEN m \in 1..Len(s) /\ r[m] = s[m]
                      ELSE m + 1 \in 1..Len(s) /\ r[m] = s[m + 1]
  BY <1>1, <1>2
<1>5. s[k] \notin ToSet(r)
  <2> SUFFICES ASSUME NEW m \in 1..Len(r), s[k] = r[m] PROVE FALSE
    BY <1>3
  <2>1. CASE m < k
    BY <1>4, <2>1
  <2>2. CASE ~(m < k)
    <3>1. m + 1 \in 1..Len(s) /\ s[m + 1] = s[k]
      BY <1>4, <2>2
    <3>2. m + 1 = k
      BY <3>1
    <3> QED BY <2>2, <3>2
  <2> QED BY <2>1, <2>2
<1>6. ToSet(r) \subseteq ToSet(s)
  BY <1>1, <1>3, <1>4
<1>7. \A j \in 1..Len(s) : /\ j < k => j <= Len(r) /\ r[j] = s[j]
                           /\ j > k => j - 1 <= Len(r) /\ r[j - 1] = s[j]
  <2>1. ASSUME NEW j \in 1..Len(s), j > k PROVE j - 1 <= Len(r) /\ r[j - 1] = s[j]
    <3>1. j - 1 \in k..(Len(s) - 1) /\ (j - 1) + 1 = j
      BY <1>1, <2>1
    <3> QED BY <1>1, <1>2, <3>1
  <2>2. ASSUME NEW j \in 1..Len(s), j < k PROVE j <= Len(r) /\ r[j] = s[j]
    BY <1>1, <1>2, <2>2
  <2> QED BY <2>1, <2>2
<1>8. EditedAt(s, r, k)
  BY <1>1, <1>4, <1>5, <1>7 DEF EditedAt
<1>9. k \in 1..(Len(s) + 1)
  BY <1>1
<1> QED BY <1>2, <1>6, <1>8, <1>9 DEF Edited

LEMMA EditedMove ==
  ASSUME NEW S, NEW s \in Seq(S), NEW k \in 1..Len(s),
         \A j \in 1..Len(s) : s[j] = s[k] => j = k,
         NEW e \in S, e \notin ToSet(s)
  PROVE  Edited(s, Append(RemoveAt(s, k), e))
<1> DEFINE r == RemoveAt(s, k)
           t == Append(r, e)
<1>1. /\ r \in Seq(S) /\ Len(r) = Len(s) - 1 /\ ToSet(r) \subseteq ToSet(s)
      /\ EditedAt(s, r, k)
  BY EditedRemove
<1> HIDE DEF r
<1>2. /\ Len(s) \in Nat /\ Len(r) \in Nat /\ k \in Nat
      /\ \A x : x \in ToSet(s) <=> \E j \in 1..Len(s) : x = s[j]
      /\ \A x : x \in ToSet(r) <=> \E j \in 1..Len(r) : x = r[j]
  BY <1>1, Elements
<1>3. /\ t \in Seq(S) /\ Len(t) = Len(r) + 1 /\ t[Len(r) + 1] = e
      /\ \A j \in 1..Len(r) : t[j] = r[j]
  BY <1>1, AppendProperties
<1> HIDE DEF t
<1>4. \A x : x \in ToSet(t) <=> \E j \in 1..Len(t) : x = t[j]
  BY <1>3, Elements
<1>5. s[k] \notin ToSet(t)
  <2> SUFFICES ASSUME NEW m \in 1..Len(t), s[k] = t[m] PROVE FALSE
    BY <1>4
  <2>1. CASE m = Len(r) + 1
    BY <1>2, <1>3, <2>1
  <2>2. CASE m \in 1..Len(r)
    <3>1. s[k] \in ToSet(r)
      BY <1>2, <1>3, <2>2
    <3> QED BY <1>1, <3>1 DEF EditedAt
  <2> QED BY <1>2, <1>3, <2>1, <2>2
<1>6. \A j \in 1..Len(s) : /\ j < k => j <= Len(t) /\ t[j] = s[j]
                           /\ j > k => j - 1 <= Len(t) /\ t[j - 1] = s[j]
  <2>1. ASSUME NEW j \in 1..Len(s), j > k PROVE j - 1 <= Len(t) /\ t[j - 1] = s[j]
    <3>1. j - 1 <= Len(r) /\ r[j - 1] = s[j]
      BY <1>1, <2>1 DEF EditedAt
    <3>2. j - 1 \in 1..Len(r)
      BY <1>2, <2>1, <3>1
    <3> QED BY <1>2, <1>3, <3>1, <3>2
  <2>2. ASSUME NEW j \in 1..Len(s), j < k PROVE j <= Len(t) /\ t[j] = s[j]
    <3>1. j <= Len(r) /\ r[j] = s[j]
      BY <1>1, <2>2 DEF EditedAt
    <3> QED BY <1>2, <1>3, <3>1
  <2> QED BY <2>1, <2>2
<1>7. ASSUME NEW m \in 1..Len(t), t[m] \in ToSet(s)
      PROVE  IF m < k THEN m <= Len(s) /\ t[m] = s[m]
                      ELSE m + 1 <= Len(s) /\ t[m] = s[m + 1]
  <2>1. m # Len(r) + 1
    BY <1>3, <1>7
  <2>2. m \in 1..Len(r) /\ t[m] = r[m]
    BY <1>2, <1>3, <2>1
  <2> QED BY <1>1, <1>7, <2>2 DEF EditedAt
<1>8. EditedAt(s, t, k)
  BY <1>5, <1>6, <1>7 DEF EditedAt
<1>9. k \in 1..(Len(s) + 1)
  BY <1>2
<1> QED BY <1>8, <1>9 DEF Edited, t, r

-----------------------------------------------------------------------------
(* A directory has no dentry twice, and one whose name it does not have is *)
(* new to it.                                                              *)
LEMMA DentriesDiffer ==
  ASSUME NEW nd, Shaped(nd), NEW d \in Ino, nd[d].type = "dir",
         NEW k \in 1..Len(nd[d].dentries), NEW j \in 1..Len(nd[d].dentries),
         nd[d].dentries[j] = nd[d].dentries[k]
  PROVE  j = k
<1>1. \A i \in Named(nd, d, nd[d].dentries[k].name) : i = k
  BY OnlyHit
<1>2. j \in Named(nd, d, nd[d].dentries[k].name)
  BY DentriesAre DEF Named
<1> QED BY <1>1, <1>2

LEMMA NewEntry ==
  ASSUME NEW nd, Shaped(nd), NEW d \in Ino, nd[d].type = "dir", NEW n \in Name, NEW i \in Ino,
         \A x \in TreeNames(nd) : ~(x.dir = d /\ x.name = n)
  PROVE  /\ [name |-> n, ino |-> i] \in Dentry
         /\ [name |-> n, ino |-> i] \notin ToSet(nd[d].dentries)
<1> DEFINE e == [name |-> n, ino |-> i]
           s == nd[d].dentries
<1>1. /\ s \in Seq(Dentry) /\ Len(s) \in Nat /\ DirShaped(nd, d)
  BY DentriesAre DEF Shaped
<1>2. e \in Dentry /\ e.name = n
  BY Segments DEF Dentry
<1>3. ASSUME e \in ToSet(s) PROVE FALSE
  <2>1. PICK j \in 1..Len(s) : s[j] = e
    BY <1>1, <1>3, Elements
  <2>2. j # 1 /\ j # 2
    <3>1. s[1].name = "." /\ s[2].name = ".." /\ s[j].name = n
      BY <1>1, <1>2, <2>1 DEF DirShaped
    <3>2. n # "." /\ n # ".."
      BY Segments
    <3> HIDE DEF s
    <3> QED BY <3>1, <3>2
  <2>3. NameAt(nd, d, j)
    BY <1>1, <2>2 DEF NameAt
  <2>4. TreeName(d, s[j]) \in TreeNames(nd)
    BY <2>3, TreeNamesAre
  <2>5. TreeName(d, s[j]).dir = d /\ TreeName(d, s[j]).name = n
    BY <1>2, <2>1 DEF TreeName
  <2> QED BY <2>4, <2>5
<1> QED BY <1>2, <1>3

(* The removal of a name of the tree. *)
LEMMA CutIs ==
  ASSUME NEW nd, Shaped(nd), NEW x \in TreeNames(nd)
  PROVE  \E k \in 1..Len(nd[x.dir].dentries) :
           /\ RemoveName(nd, x.dir, x.name)[x.dir].dentries = RemoveAt(nd[x.dir].dentries, k)
           /\ \A j \in Ino \ {x.dir} : RemoveName(nd, x.dir, x.name)[j].dentries = nd[j].dentries
<1>1. /\ x.dir \in Ino /\ nd[x.dir].type = "dir"
      /\ \E k \in Nat : /\ NameAt(nd, x.dir, k) /\ nd[x.dir].dentries[k].name = x.name
  BY NameParts
<1>2. PICK k \in Nat : NameAt(nd, x.dir, k) /\ nd[x.dir].dentries[k].name = x.name
  BY <1>1
<1>3. k \in 1..Len(nd[x.dir].dentries)
  BY <1>1, <1>2, DentriesAre DEF NameAt
<1>4. RemoveName(nd, x.dir, x.name) = Without(nd, x.dir, k)
  BY <1>2, RemoveNameIs
<1>5. nd \in [Ino -> File] /\ nd[x.dir] \in File
  BY <1>1 DEF Shaped
<1>6. /\ Without(nd, x.dir, k)[x.dir].dentries = RemoveAt(nd[x.dir].dentries, k)
      /\ \A j \in Ino \ {x.dir} : Without(nd, x.dir, k)[j].dentries = nd[j].dentries
  BY <1>1, <1>5 DEF Without, File
<1> QED BY <1>3, <1>4, <1>6

LEMMA CutEdited ==
  ASSUME NEW nd, Shaped(nd), NEW x \in TreeNames(nd), NEW i \in Ino
  PROVE  Edited(nd[i].dentries, RemoveName(nd, x.dir, x.name)[i].dentries)
<1>1. PICK k \in 1..Len(nd[x.dir].dentries) :
        /\ RemoveName(nd, x.dir, x.name)[x.dir].dentries = RemoveAt(nd[x.dir].dentries, k)
        /\ \A j \in Ino \ {x.dir} : RemoveName(nd, x.dir, x.name)[j].dentries = nd[j].dentries
  BY CutIs
<1>2. x.dir \in Ino /\ nd[x.dir].type = "dir"
  BY NameParts
<1>3. nd[i].dentries \in Seq(Dentry) /\ nd[x.dir].dentries \in Seq(Dentry)
  BY <1>2, DentriesAre
<1>4. CASE i = x.dir
  <2>1. \A j \in 1..Len(nd[x.dir].dentries) :
          nd[x.dir].dentries[j] = nd[x.dir].dentries[k] => j = k
    BY <1>2, DentriesDiffer
  <2>2. Edited(nd[x.dir].dentries, RemoveAt(nd[x.dir].dentries, k))
    BY <1>3, <2>1, EditedRemove
  <2> QED BY <1>1, <1>4, <2>2
<1>5. CASE i # x.dir
  BY <1>1, <1>3, <1>5, EditedSame
<1> QED BY <1>4, <1>5

(* The entries of a directory after a call: what all calls have in common. *)
LEMMA DentriesEdited ==
  ASSUME CInv, CarefulNext, NEW i \in Ino, i < count
  PROVE  Edited(entry[i].dentries, entry'[i].dentries)
<1> DEFINE Goal == Edited(entry[i].dentries, entry'[i].dentries)
<1>0. /\ Paths \subseteq Path /\ Shaped(entry)
      /\ entry[i].dentries \in Seq(Dentry)
  BY NameSpaceAssumption, CInvFacts, DentriesAre
<1>1. ASSUME entry'[i].dentries = entry[i].dentries PROVE Goal
  BY <1>0, <1>1, EditedSame
<1>2. ASSUME NEW n \in Name, NEW fh \in Ino, entry[i].type = "dir",
             \A x \in TreeNames(entry) : ~(x.dir = i /\ x.name = n),
             entry'[i].dentries = Append(entry[i].dentries, [name |-> n, ino |-> fh])
      PROVE  Goal
  BY <1>0, <1>2, NewEntry, EditedAppend
<1>3. ASSUME NEW p \in Path, MayMake(p), count \in Ino, NEW d, d = FindReal(entry, ParentPath(p)),
             entry'[d] = Extended(entry[d], TailName(p), count),
             \A j \in Ino \ {count, d} : entry'[j] = entry[j]
      PROVE  Goal
  <2>1. /\ TailName(p) \in Name /\ d \in Ino /\ entry[d].type = "dir"
        /\ \A x \in TreeNames(entry) : ~(x.dir = d /\ x.name = TailName(p))
    BY <1>3, MayMakeMeans
  <2>2. CASE i = d
    <3>1. entry'[d].dentries = Append(entry[d].dentries, [name |-> TailName(p), ino |-> count])
      BY <1>0, <1>3, <2>1 DEF Extended, Shaped, File
    <3> QED BY <1>2, <1>3, <2>1, <2>2, <3>1
  <2>3. CASE i # d
    <3>1. i # count
      BY CInvFacts
    <3> QED BY <1>1, <1>3, <2>3, <3>1
  <2> QED BY <2>2, <2>3
<1>4. ASSUME NEW p \in Paths, NEW t \in {"dir", "reg"},
             (t = "dir" /\ CarefulMkdir(p)) \/ (t = "reg" /\ CarefulCreat(p))
      PROVE  Goal
  <2> DEFINE d == FindReal(entry, ParentPath(p))
  <2>1. /\ p \in Path /\ MayMake(p) /\ count <= MaxIno
        /\ entry' = Grown(entry, count, d, TailName(p), t)
    BY <1>0, <1>4, MakeIs
  <2>2. /\ count \in Ino /\ entry'[d] = Extended(entry[d], TailName(p), count)
        /\ \A j \in Ino \ {count, d} : entry'[j] = entry[j]
    BY <2>1, GrownIs
  <2> QED BY <1>3, <2>1, <2>2
<1>5. ASSUME NEW p \in Paths, NEW q \in Paths, CarefulSymlink(p, q) PROVE Goal
  <2> DEFINE d == FindReal(entry, ParentPath(q))
  <2>1. /\ p \in Path /\ q \in Path /\ MayMake(q) /\ count <= MaxIno
        /\ entry' = WithLink(entry, p, q)
    BY <1>0, <1>5, SymlinkMakes
  <2>2. /\ count \in Ino /\ entry'[d] = Extended(entry[d], TailName(q), count)
        /\ \A j \in Ino \ {count, d} : entry'[j] = entry[j]
    BY <2>1, SymlinkIs
  <2> QED BY <1>3, <2>1, <2>2
<1>6. ASSUME NEW p \in Paths, CarefulUnlink(p) PROVE Goal
  <2> DEFINE x == [dir |-> FindReal(entry, ParentPath(p)), name |-> TailName(p),
                   obj |-> FindReal(entry, p)]
  <2>1. /\ x \in TreeNames(entry)
        /\ entry'[x.dir].dentries = RemoveName(entry, x.dir, x.name)[x.dir].dentries
        /\ \A j \in Ino \ {x.dir} : entry'[j].dentries = entry[j].dentries
    BY <1>0, <1>6, UnlinkIs
  <2> QED BY <1>0, <1>1, <2>1, CutEdited
<1>7. ASSUME NEW p \in Paths, CarefulRmdir(p) PROVE Goal
  <2> DEFINE fh == FindReal(entry, p)
             x == [dir |-> FindReal(entry, ParentPath(p)), name |-> TailName(p), obj |-> fh]
  <2>1. /\ x \in TreeNames(entry) /\ entry'[fh] = Blank
        /\ entry'[x.dir].dentries = RemoveName(entry, x.dir, x.name)[x.dir].dentries
        /\ \A j \in Ino \ {x.dir, fh} : entry'[j].dentries = entry[j].dentries
    BY <1>0, <1>7, RmdirIs
  <2>2. CASE i = fh
    BY <2>1, <2>2 DEF Edited, Blank
  <2>3. CASE i # fh
    BY <1>0, <1>1, <2>1, <2>3, CutEdited
  <2> QED BY <2>2, <2>3
<1>8. ASSUME NEW p \in Paths, NEW q \in Paths, CarefulLink(p, q) PROVE Goal
  <2> DEFINE d == FindReal(entry, ParentPath(q))
             fh == FindReal(entry, p)
  <2>1. p \in Path /\ q \in Path /\ MayLink(p, q) /\ Link(p, q) /\ MayMake(q)
    BY <1>0, <1>8 DEF CarefulLink, MayLink
  <2>2. /\ TailName(q) \in Name /\ d \in Ino /\ entry[d].type = "dir"
        /\ \A x \in TreeNames(entry) : ~(x.dir = d /\ x.name = TailName(q))
    BY <2>1, MayMakeMeans
  <2>3. /\ fh \in Ino
        /\ entry'[d].dentries = Append(entry[d].dentries, [name |-> TailName(q), ino |-> fh])
        /\ \A j \in Ino \ {d} : entry'[j].dentries = entry[j].dentries
    BY <2>1, LinkIs
  <2> HIDE DEF d, fh
  <2> QED BY <1>1, <1>2, <2>2, <2>3
<1>9. ASSUME NEW p \in Paths, NEW q \in Paths, CarefulRename(p, q) PROVE Goal
  <2>0. PICK d, e, fh, x, y, cut, f :
          /\ d = FindReal(entry, ParentPath(p)) /\ e = FindReal(entry, ParentPath(q))
          /\ fh = FindReal(entry, p) /\ x = [dir |-> d, name |-> TailName(p), obj |-> fh]
          /\ y = [dir |-> e, name |-> TailName(q), obj |-> fh]
          /\ cut = RemoveName(entry, d, TailName(p))
          /\ f = [name |-> TailName(q), ino |-> fh]
    OBVIOUS
  <2>1. /\ p \in Path /\ q \in Path /\ MayMake(q)
    BY <1>0, <1>9 DEF CarefulRename, MayRename
  <2>2. /\ TailName(q) \in Name /\ e \in Ino /\ entry[e].type = "dir"
        /\ \A z \in TreeNames(entry) : ~(z.dir = e /\ z.name = TailName(q))
    BY <2>0, <2>1, MayMakeMeans
  <2>3. x \in TreeNames(entry) /\ x.dir = d /\ x.name = TailName(p) /\ fh \in Ino
    BY <1>9, <2>0, <2>1, RenameIs
  <2>4. /\ entry'[e].dentries = Append(cut[e].dentries, f)
        /\ \A j \in Ino \ {e} : entry'[j].dentries = cut[j].dentries
    BY <1>9, <2>0, <2>1, RenameDentries
  <2>5. f \in Dentry /\ f \notin ToSet(entry[e].dentries)
    BY <1>0, <2>0, <2>2, <2>3, NewEntry
  <2>6. PICK k \in 1..Len(entry[d].dentries) :
          /\ cut[d].dentries = RemoveAt(entry[d].dentries, k)
          /\ \A j \in Ino \ {d} : cut[j].dentries = entry[j].dentries
    BY <1>0, <2>0, <2>3, CutIs
  <2>7. d \in Ino /\ entry[d].type = "dir"
    BY <1>0, <2>3, NameParts
  <2>8. CASE i = e /\ i = d
    <3>1. \A j \in 1..Len(entry[d].dentries) :
            entry[d].dentries[j] = entry[d].dentries[k] => j = k
      BY <1>0, <2>7, DentriesDiffer
    <3>2. Edited(entry[i].dentries, Append(RemoveAt(entry[i].dentries, k), f))
      BY <1>0, <2>5, <2>6, <2>8, <3>1, EditedMove
    <3> QED BY <2>4, <2>6, <2>8, <3>2
  <2>9. CASE i = e /\ i # d
    <3>1. entry'[i].dentries = Append(entry[i].dentries, f)
      BY <2>4, <2>6, <2>9
    <3> QED BY <1>0, <2>5, <2>9, <3>1, EditedAppend
  <2>10. CASE i # e
    <3>1. Edited(entry[i].dentries, cut[i].dentries)
      BY <1>0, <2>0, <2>3, CutEdited
    <3> QED BY <2>4, <2>10, <3>1
  <2> QED BY <2>8, <2>9, <2>10
<1>10. ASSUME NEW p \in Paths, CarefulOpen(p) PROVE Goal
  BY <1>0, <1>1, <1>10, OpenIs
<1>11. ASSUME NEW p \in Paths, CarefulChmod(p) PROVE Goal
  <2>1. entry' = entry
    BY <1>0, <1>11, ChmodIs DEF vars
  <2> QED BY <1>1, <2>1
<1>12. ASSUME NEW fh \in Ino \ {0}, Close(fh) PROVE Goal
  BY <1>1, <1>12, CloseIs
<1> QED
  BY <1>4, <1>5, <1>6, <1>7, <1>8, <1>9, <1>10, <1>11, <1>12 DEF CarefulNext

-----------------------------------------------------------------------------
(* What such an edit does to the part of the directory that a scan has     *)
(* gone through, the first n dentries.  It loses what is gone, and gains   *)
(* one old dentry at most, which is then one that the scan will not see.   *)
UpTo(s, n) == {s[k] : k \in {j \in DOMAIN s : j <= n}}

Gone(s, r, n) == {k \in DOMAIN s : k <= n /\ s[k] \notin ToSet(r)}

LEMMA UpToIs ==
  ASSUME NEW S, NEW s \in Seq(S), NEW n \in Nat
  PROVE  /\ \A x : x \in UpTo(s, n) <=> \E j \in 1..Len(s) : j <= n /\ x = s[j]
         /\ UpTo(s, n) \subseteq ToSet(s)
         /\ n >= Len(s) => UpTo(s, n) = ToSet(s)
         /\ IsFiniteSet(UpTo(s, n))
<1>1. /\ DOMAIN s = 1..Len(s) /\ Len(s) \in Nat /\ IsFiniteSet(ToSet(s))
      /\ \A x : x \in ToSet(s) <=> \E j \in 1..Len(s) : x = s[j]
  BY Elements
<1>2. \A x : x \in UpTo(s, n) <=> \E j \in 1..Len(s) : j <= n /\ x = s[j]
  BY <1>1 DEF UpTo
<1>3. UpTo(s, n) \in SUBSET ToSet(s)
  BY <1>1, <1>2
<1>4. IsFiniteSet(UpTo(s, n))
  BY <1>1, <1>3, FS_Subset
<1>5. ASSUME n >= Len(s) PROVE UpTo(s, n) = ToSet(s)
  <2>1. \A j \in 1..Len(s) : j <= n
    BY <1>1, <1>5
  <2> QED BY <1>1, <1>2, <2>1
<1> QED BY <1>2, <1>3, <1>4, <1>5

LEMMA GoneIs ==
  ASSUME NEW S, NEW s \in Seq(S), NEW r, NEW n \in Nat
  PROVE  /\ IsFiniteSet(Gone(s, r, n)) /\ Cardinality(Gone(s, r, n)) \in Nat
         /\ Cardinality(Gone(s, r, n)) = 0 <=> Gone(s, r, n) = {}
         /\ \A k : k \in Gone(s, r, n) <=> k \in 1..Len(s) /\ k <= n /\ s[k] \notin ToSet(r)
<1>1. DOMAIN s = 1..Len(s) /\ Len(s) \in Nat
  BY Elements
<1>2. \A k : k \in Gone(s, r, n) <=> k \in 1..Len(s) /\ k <= n /\ s[k] \notin ToSet(r)
  BY <1>1 DEF Gone
<1>3. IsFiniteSet(1..Len(s)) /\ Gone(s, r, n) \in SUBSET (1..Len(s))
  BY <1>1, <1>2, FS_Interval
<1>4. IsFiniteSet(Gone(s, r, n))
  BY <1>3, FS_Subset
<1> QED BY <1>2, <1>4, FS_CardinalityType, FS_EmptySet

LEMMA ScanKept ==
  ASSUME NEW S, NEW s \in Seq(S), NEW r \in Seq(S), Edited(s, r), NEW n \in Nat
  PROVE  /\ UpTo(s, n) \cap ToSet(r) \subseteq UpTo(r, n)
         /\ Gone(s, r, n) = {} /\ n <= Len(s) => n <= Len(r)
         /\ \/ UpTo(r, n) \cap ToSet(s) \subseteq UpTo(s, n)
            \/ /\ Gone(s, r, n) # {}
               /\ \E x : UpTo(r, n) \cap ToSet(s) \subseteq UpTo(s, n) \cup {x}
<1>1. /\ Len(s) \in Nat /\ Len(r) \in Nat
      /\ \A x : x \in ToSet(s) <=> \E j \in 1..Len(s) : x = s[j]
      /\ \A x : x \in ToSet(r) <=> \E j \in 1..Len(r) : x = r[j]
  BY Elements
<1>2. /\ \A x : x \in UpTo(s, n) <=> \E j \in 1..Len(s) : j <= n /\ x = s[j]
      /\ \A x : x \in UpTo(r, n) <=> \E j \in 1..Len(r) : j <= n /\ x = r[j]
  BY UpToIs
<1>3. \A k : k \in Gone(s, r, n) <=> k \in 1..Len(s) /\ k <= n /\ s[k] \notin ToSet(r)
  BY GoneIs
<1>4. CASE r = <<>>
  <2>1. Len(r) = 0 /\ \A x : x \notin ToSet(r) /\ x \notin UpTo(r, n)
    BY <1>1, <1>2, <1>4
  <2>2. ASSUME Gone(s, r, n) = {}, n <= Len(s) PROVE n <= Len(r)
    <3>1. n \notin Gone(s, r, n)
      BY <2>2
    <3> QED BY <1>1, <1>3, <2>1, <2>2, <3>1
  <2> QED BY <2>1, <2>2
<1>5. ASSUME NEW k \in 1..(Len(s) + 1), EditedAt(s, r, k)
      PROVE  /\ UpTo(s, n) \cap ToSet(r) \subseteq UpTo(r, n)
             /\ Gone(s, r, n) = {} /\ n <= Len(s) => n <= Len(r)
             /\ \/ UpTo(r, n) \cap ToSet(s) \subseteq UpTo(s, n)
                \/ /\ Gone(s, r, n) # {}
                   /\ \E x : UpTo(r, n) \cap ToSet(s) \subseteq UpTo(s, n) \cup {x}
  <2>1. /\ \A j \in 1..Len(s) : j < k => j <= Len(r) /\ r[j] = s[j]
        /\ \A j \in 1..Len(s) : j > k => j - 1 <= Len(r) /\ r[j - 1] = s[j]
        /\ k <= Len(s) => s[k] \notin ToSet(r)
        /\ \A m \in 1..Len(r) : r[m] \in ToSet(s) =>
             IF m < k THEN m <= Len(s) /\ r[m] = s[m]
                      ELSE m + 1 <= Len(s) /\ r[m] = s[m + 1]
    BY <1>5 DEF EditedAt
  <2>2. ASSUME NEW x \in UpTo(s, n) \cap ToSet(r) PROVE x \in UpTo(r, n)
    <3>1. PICK j \in 1..Len(s) : j <= n /\ x = s[j]
      BY <1>2, <2>2
    <3>2. CASE j < k
      <4>1. j \in 1..Len(r) /\ r[j] = x
        BY <1>1, <2>1, <3>1, <3>2
      <4> QED BY <1>2, <3>1, <4>1
    <3>3. CASE j > k
      <4>1. j - 1 \in 1..Len(r) /\ r[j - 1] = x /\ j - 1 <= n
        BY <1>1, <2>1, <3>1, <3>3
      <4> QED BY <1>2, <4>1
    <3>4. j # k
      BY <2>1, <2>2, <3>1
    <3> QED BY <3>2, <3>3, <3>4
  <2>3. ASSUME Gone(s, r, n) = {}, n <= Len(s) PROVE n <= Len(r)
    <3>1. CASE n = 0
      BY <1>1, <3>1
    <3>2. CASE n # 0
      <4>1. n \in 1..Len(s)
        BY <1>1, <2>3, <3>2
      <4>2. ~(k <= n)
        <5>1. k \notin Gone(s, r, n)
          BY <2>3
        <5> QED BY <1>1, <1>3, <2>1, <2>3, <5>1
      <4> QED BY <2>1, <4>1, <4>2
    <3> QED BY <3>1, <3>2
  <2>4. CASE k <= n /\ k <= Len(s)
    <3>1. k \in Gone(s, r, n)
      BY <1>3, <2>1, <2>4
    <3>2. ASSUME NEW x \in UpTo(r, n) \cap ToSet(s)
          PROVE  x \in UpTo(s, n) \cup {s[n + 1]}
      <4>1. PICK m \in 1..Len(r) : m <= n /\ x = r[m]
        BY <1>2, <3>2
      <4>2. \/ m \in 1..Len(s) /\ r[m] = s[m]
            \/ m + 1 \in 1..Len(s) /\ r[m] = s[m + 1]
        BY <1>1, <2>1, <3>2, <4>1
      <4>3. CASE m + 1 \in 1..Len(s) /\ r[m] = s[m + 1] /\ m + 1 <= n
        BY <1>2, <4>1, <4>3
      <4>4. CASE m = n /\ r[m] = s[m + 1]
        BY <4>1, <4>4
      <4>5. CASE m \in 1..Len(s) /\ r[m] = s[m]
        BY <1>2, <4>1, <4>5
      <4> QED BY <4>1, <4>2, <4>3, <4>4, <4>5
    <3> QED BY <2>2, <2>3, <3>1, <3>2
  <2>5. CASE ~(k <= n /\ k <= Len(s))
    <3>1. ASSUME NEW x \in UpTo(r, n) \cap ToSet(s) PROVE x \in UpTo(s, n)
      <4>1. PICK m \in 1..Len(r) : m <= n /\ x = r[m]
        BY <1>2, <3>1
      <4>2. m < k
        BY <1>1, <2>1, <2>5, <3>1, <4>1
      <4>3. m \in 1..Len(s) /\ r[m] = s[m]
        BY <1>1, <2>1, <3>1, <4>1, <4>2
      <4> QED BY <1>2, <4>1, <4>3
    <3> QED BY <2>2, <2>3, <3>1
  <2> QED BY <2>4, <2>5
<1> QED BY <1>4, <1>5 DEF Edited

-----------------------------------------------------------------------------
(* The inductive invariant of a scan.  What it has seen is in the part it  *)
(* has gone through; what it has missed, in that part or, when it has      *)
(* ended, anywhere, is paid for by removals behind its index.              *)
Missed == IF stream.ended THEN since \ seen
          ELSE (since \ seen) \cap UpTo(Entries(entry), stream.index)

ScanOK ==
  /\ stream \in [fh: Ino, index: Nat, ended: BOOLEAN] /\ stream.fh < count
  /\ passed \in Nat
  /\ stream = Closed => seen = {} /\ since = {} /\ passed = 0
  /\ seen \subseteq UpTo(Entries(entry), stream.index)
  /\ since \subseteq ToSet(Entries(entry))
  /\ Cardinality(Missed) <= passed
  /\ PastEndOnlyByRemoval

SInv == CInv /\ ScanOK

LEMMA EntriesAre ==
  ASSUME CInv, stream.fh \in Ino
  PROVE  /\ Entries(entry) = entry[stream.fh].dentries /\ Entries(entry) \in Seq(Dentry)
         /\ Len(Entries(entry)) \in Nat
         /\ stream.fh = 0 => Entries(entry) = <<>>
BY CInvFacts, DentriesAre, ZeroIsNone DEF Entries, Planted, Shaped

LEMMA FewerMissed ==
  ASSUME NEW A, NEW B, IsFiniteSet(B), A \subseteq B, NEW m \in Int, Cardinality(B) <= m
  PROVE  Cardinality(A) <= m /\ IsFiniteSet(A) /\ Cardinality(A) \in Nat
<1>1. A \in SUBSET B
  OBVIOUS
<1>2. IsFiniteSet(A) /\ Cardinality(A) <= Cardinality(B)
  BY <1>1, FS_Subset
<1>3. Cardinality(A) \in Nat /\ Cardinality(B) \in Nat
  BY <1>2, FS_CardinalityType
<1> QED BY <1>2, <1>3

LEMMA MissedFinite ==
  ASSUME SInv
  PROVE  IsFiniteSet(Missed) /\ IsFiniteSet(since) /\ Missed \subseteq since
<1>1. Entries(entry) \in Seq(Dentry)
  BY EntriesAre DEF SInv, ScanOK
<1>2. since \in SUBSET ToSet(Entries(entry)) /\ IsFiniteSet(ToSet(Entries(entry)))
  BY <1>1, Elements DEF SInv, ScanOK
<1>3. Missed \in SUBSET since
  BY DEF Missed
<1> QED BY <1>2, <1>3, FS_Subset

LEMMA StreamInitOK == StreamInit => SInv
<1> SUFFICES ASSUME StreamInit PROVE SInv
  OBVIOUS
<1>1. CInv
  BY InitIs DEF StreamInit
<1>2. stream = [fh |-> 0, index |-> 0, ended |-> FALSE] /\ seen = {} /\ since = {} /\ passed = 0
  BY DEF StreamInit, Closed
<1>3. stream \in [fh: Ino, index: Nat, ended: BOOLEAN] /\ stream.fh < count
  BY <1>1, <1>2, Numbers, CInvFacts DEF ROOT
<1>4. PastEndOnlyByRemoval
  BY <1>1, <1>2, <1>3, EntriesAre DEF PastEndOnlyByRemoval
<1>5. Missed = {} /\ Cardinality(Missed) = 0
  BY <1>2, FS_EmptySet DEF Missed
<1> QED BY <1>1, <1>2, <1>3, <1>4, <1>5 DEF SInv, ScanOK

LEMMA OpendirOK ==
  ASSUME SInv, NEW p \in Paths, Opendir(p)
  PROVE  SInv'
<1> DEFINE fh == Find(entry, p)
<1>1. /\ stream = Closed /\ entry[fh].type = "dir"
      /\ stream' = [Closed EXCEPT !.fh = fh] /\ since' = ToSet(entry[fh].dentries)
      /\ entry' = entry /\ count' = count /\ held' = held /\ seen' = {} /\ passed' = 0
  BY DEF Opendir, vars, SInv, ScanOK
<1>2. CInv /\ CInv'
  BY <1>1 DEF SInv, CInv, IInv
<1>3. fh \in Ino /\ fh < count /\ fh # 0
  <2>1. p \in Seq(Segment)
    BY NameSpaceAssumption DEF Path
  <2>2. fh \in Ino /\ fh < count
    BY <1>1, <1>2, <2>1, CInvFacts
  <2>3. entry[0].type = "none"
    BY <1>2, CInvFacts, ZeroIsNone DEF Planted
  <2> QED BY <1>1, <2>2, <2>3
<1> HIDE DEF fh
<1>4. stream' = [fh |-> fh, index |-> 0, ended |-> FALSE]
  BY <1>1 DEF Closed
<1>5. Entries(entry)' = entry[fh].dentries /\ entry[fh].dentries \in Seq(Dentry)
  BY <1>1, <1>2, <1>3, <1>4, CInvFacts, DentriesAre DEF Entries
<1>6. UpTo(entry[fh].dentries, 0) = {}
  <2>1. DOMAIN entry[fh].dentries = 1..Len(entry[fh].dentries)
    BY <1>5, Elements
  <2> QED BY <2>1 DEF UpTo
<1>7. Missed' = {}
  BY <1>1, <1>4, <1>5, <1>6 DEF Missed
<1>8. PastEndOnlyByRemoval'
  <2>1. Len(entry[fh].dentries) \in Nat
    BY <1>5, LenProperties
  <2> QED BY <1>4, <1>5, <2>1 DEF PastEndOnlyByRemoval
<1>9. stream' \in [fh: Ino, index: Nat, ended: BOOLEAN] /\ (stream.fh < count)'
  <2>1. stream'.fh = fh
    BY <1>4
  <2>2. stream' \in [fh: Ino, index: Nat, ended: BOOLEAN]
    BY <1>3, <1>4
  <2> QED BY <1>1, <1>3, <2>1, <2>2
<1>10. stream' # Closed
  BY <1>3, <1>4 DEF Closed
<1>11. Cardinality(Missed') = 0
  BY <1>7, FS_EmptySet
<1>12. /\ (seen \subseteq UpTo(Entries(entry), stream.index))'
       /\ (since \subseteq ToSet(Entries(entry)))'
  BY <1>1, <1>5
<1>13. ScanOK'
  BY <1>1, <1>8, <1>9, <1>10, <1>11, <1>12 DEF ScanOK, Closed
<1> QED BY <1>2, <1>13 DEF SInv

LEMMA ReaddirOK ==
  ASSUME SInv, Readdir
  PROVE  SInv'
<1> DEFINE s == Entries(entry)
           n == stream.index
<1>1. /\ stream # Closed /\ ~stream.ended
      /\ stream' = [stream EXCEPT !.index = @ + 1, !.ended = (n = Len(s))]
      /\ seen' = IF n < Len(s) THEN seen \cup {s[n + 1]} ELSE seen
      /\ entry' = entry /\ count' = count /\ held' = held
      /\ since' = since /\ passed' = passed
  BY DEF Readdir, vars
<1>2. /\ CInv /\ CInv' /\ n \in Nat /\ passed \in Nat
      /\ stream \in [fh: Ino, index: Nat, ended: BOOLEAN] /\ stream.fh < count
      /\ seen \subseteq UpTo(s, n) /\ since \subseteq ToSet(s) /\ Cardinality(Missed) <= passed
      /\ ~stream.ended /\ passed = 0 => n <= Len(s)
  BY <1>1 DEF SInv, ScanOK, CInv, IInv, PastEndOnlyByRemoval
<1>3. /\ stream' \in [fh: Ino, index: Nat, ended: BOOLEAN] /\ stream'.fh = stream.fh
      /\ stream'.index = n + 1 /\ (stream'.ended <=> n = Len(s))
  <2>1. PICK e \in BOOLEAN : e = (n = Len(s))
    OBVIOUS
  <2>2. stream' = [stream EXCEPT !.index = @ + 1, !.ended = e]
    BY <1>1, <2>1
  <2>3. stream'.ended = e
    BY <1>2, <2>2
  <2>4. n + 1 \in Nat
    BY <1>2
  <2>5. /\ stream' \in [fh: Ino, index: Nat, ended: BOOLEAN] /\ stream'.fh = stream.fh
        /\ stream'.index = n + 1
    BY <1>2, <2>2, <2>4
  <2> QED BY <2>1, <2>3, <2>5, Zenon
<1>4. s \in Seq(Dentry) /\ Len(s) \in Nat /\ Entries(entry)' = s
  BY <1>1, <1>2, <1>3, EntriesAre DEF Entries
<1>5. Missed = (since \ seen) \cap UpTo(s, n)
  BY <1>1 DEF Missed
<1>6. Missed' = IF n = Len(s) THEN since' \ seen' ELSE (since' \ seen') \cap UpTo(s, n + 1)
  BY <1>3, <1>4 DEF Missed
<1>7. stream' # Closed
  <2>1. n + 1 # 0
    BY <1>2
  <2> QED BY <1>3, <2>1 DEF Closed
<1> HIDE DEF s, n
<1>8. /\ \A x : x \in UpTo(s, n) <=> \E j \in 1..Len(s) : j <= n /\ x = s[j]
      /\ \A x : x \in UpTo(s, n + 1) <=> \E j \in 1..Len(s) : j <= n + 1 /\ x = s[j]
      /\ n >= Len(s) => UpTo(s, n) = ToSet(s) /\ UpTo(s, n + 1) = ToSet(s)
  BY <1>2, <1>4, UpToIs
<1>9. UpTo(s, n + 1) = IF n < Len(s) THEN UpTo(s, n) \cup {s[n + 1]} ELSE UpTo(s, n)
  <2>1. CASE n < Len(s)
    <3>1. n + 1 \in 1..Len(s) /\ \A j \in 1..Len(s) : j <= n + 1 <=> j <= n \/ j = n + 1
      BY <1>2, <1>4, <2>1
    <3> QED BY <1>8, <2>1, <3>1
  <2>2. CASE ~(n < Len(s))
    BY <1>2, <1>4, <1>8, <2>2
  <2> QED BY <2>1, <2>2
<1>10. seen' \subseteq UpTo(s, n + 1)
  BY <1>1, <1>2, <1>9 DEF n, s
<1>11. Missed' \subseteq Missed
  <2>1. seen' = IF n < Len(s) THEN seen \cup {s[n + 1]} ELSE seen
    BY <1>1 DEF n, s
  <2>2. CASE n = Len(s)
    BY <1>1, <1>2, <1>4, <1>5, <1>6, <1>8, <2>1, <2>2
  <2>3. CASE n # Len(s)
    BY <1>1, <1>5, <1>6, <1>9, <2>1, <2>3
  <2> QED BY <2>2, <2>3
<1>12. Cardinality(Missed') <= passed
  BY <1>2, <1>11, MissedFinite, FewerMissed
<1>13. PastEndOnlyByRemoval'
  BY <1>1, <1>2, <1>3, <1>4 DEF PastEndOnlyByRemoval
<1>14. (seen \subseteq UpTo(Entries(entry), stream.index))' /\ (since \subseteq ToSet(Entries(entry)))'
  BY <1>1, <1>2, <1>3, <1>4, <1>10
<1>15. ScanOK'
  BY <1>1, <1>2, <1>3, <1>7, <1>12, <1>13, <1>14 DEF ScanOK, Closed
<1> QED BY <1>2, <1>15 DEF SInv

LEMMA ClosedirOK ==
  ASSUME SInv, Closedir
  PROVE  SInv'
<1>1. /\ stream' = [fh |-> 0, index |-> 0, ended |-> FALSE]
      /\ seen' = {} /\ since' = {} /\ passed' = 0
      /\ entry' = entry /\ count' = count /\ held' = held
  BY DEF Closedir, Closed, vars
<1>2. CInv /\ CInv'
  BY <1>1 DEF SInv, CInv, IInv
<1>3. stream' \in [fh: Ino, index: Nat, ended: BOOLEAN] /\ (stream.fh < count)'
  BY <1>1, <1>2, Numbers, CInvFacts DEF ROOT
<1>4. Entries(entry)' = <<>>
  <2>1. entry[0].dentries = <<>>
    BY <1>2, Numbers, CInvFacts, ZeroIsNone DEF Planted, Shaped
  <2> QED BY <1>1, <2>1 DEF Entries
<1>5. PastEndOnlyByRemoval'
  BY <1>1, <1>4 DEF PastEndOnlyByRemoval
<1>6. Missed' = {}
  BY <1>1 DEF Missed
<1>7. Cardinality(Missed') = 0
  BY <1>6, FS_EmptySet
<1>8. ScanOK'
  BY <1>1, <1>3, <1>5, <1>7 DEF ScanOK, Closed
<1> QED BY <1>2, <1>8 DEF SInv

(* No call gives a number back. *)
LEMMA CountGrows ==
  ASSUME CInv, CarefulNext
  PROVE  count' >= count
<1>1. count \in Nat
  BY CInvFacts
<1> QED
  BY <1>1 DEF CarefulNext, CarefulMkdir, CarefulCreat, CarefulUnlink, CarefulRmdir, CarefulOpen,
       CarefulChmod, CarefulLink, CarefulSymlink, CarefulRename, Mkdir, Creat, Make, Unlink, Rmdir,
       Open, Chmod, Link, Symlink, Rename, Close, Fails, vars

LEMMA MeanwhileOK ==
  ASSUME SInv, Meanwhile
  PROVE  SInv'
<1> DEFINE s == Entries(entry)
           r == Entries(entry)'
           n == stream.index
           gone == Gone(s, r, n)
<1>1. /\ CarefulNext /\ stream' = stream
      /\ seen' = seen \cap ToSet(Entries(entry'))
      /\ since' = since \cap ToSet(Entries(entry'))
      /\ passed' = IF stream.ended THEN passed
                   ELSE passed + Cardinality({k \in DOMAIN s : k <= n /\ s[k] \notin ToSet(Entries(entry'))})
  BY DEF Meanwhile
<1>2. /\ CInv /\ n \in Nat /\ passed \in Nat
      /\ stream \in [fh: Ino, index: Nat, ended: BOOLEAN] /\ stream.fh < count
      /\ stream = Closed => seen = {} /\ since = {} /\ passed = 0
      /\ seen \subseteq UpTo(s, n) /\ since \subseteq ToSet(s) /\ Cardinality(Missed) <= passed
      /\ ~stream.ended /\ passed = 0 => n <= Len(s)
  BY DEF SInv, ScanOK, PastEndOnlyByRemoval
<1>3. CInv'
  BY <1>1, <1>2, CInvStep
<1>4. s \in Seq(Dentry) /\ Len(s) \in Nat /\ (stream.fh = 0 => s = <<>>)
  BY <1>2, EntriesAre
<1>5. r \in Seq(Dentry) /\ r = entry'[stream.fh].dentries /\ r = Entries(entry')
  BY <1>1, <1>2, <1>3, CInvFacts, DentriesAre DEF Entries, CInv
<1>6. Edited(s, r)
  BY <1>1, <1>2, <1>5, DentriesEdited DEF Entries
<1>7. /\ seen' = seen \cap ToSet(r) /\ since' = since \cap ToSet(r)
      /\ passed' = IF stream.ended THEN passed ELSE passed + Cardinality(gone)
  BY <1>1, <1>5 DEF Gone
<1>8. Missed = (IF stream.ended THEN since \ seen ELSE (since \ seen) \cap UpTo(s, n))
  BY DEF Missed
<1>9. Missed' = (IF stream.ended THEN since' \ seen' ELSE (since' \ seen') \cap UpTo(r, n))
  BY <1>1 DEF Missed
<1>10. (stream.fh < count)'
  <2>1. stream.fh \in Nat /\ count \in Nat /\ count' \in Nat /\ count' >= count
    BY <1>1, <1>2, <1>3, CountGrows, CInvFacts, Numbers DEF CInv, IInv, Count
  <2> QED BY <1>1, <1>2, <2>1
<1> HIDE DEF s, r, n, gone
<1>11. /\ UpTo(s, n) \cap ToSet(r) \subseteq UpTo(r, n)
       /\ gone = {} /\ n <= Len(s) => n <= Len(r)
       /\ \/ UpTo(r, n) \cap ToSet(s) \subseteq UpTo(s, n)
          \/ /\ gone # {}
             /\ \E x : UpTo(r, n) \cap ToSet(s) \subseteq UpTo(s, n) \cup {x}
  <2>1. PICK t, u, m : t = s /\ u = r /\ m = n
    OBVIOUS
  <2>2. t \in Seq(Dentry) /\ u \in Seq(Dentry) /\ Edited(t, u) /\ m \in Nat
    BY <1>2, <1>4, <1>5, <1>6, <2>1
  <2>3. /\ UpTo(t, m) \cap ToSet(u) \subseteq UpTo(u, m)
        /\ Gone(t, u, m) = {} /\ m <= Len(t) => m <= Len(u)
        /\ \/ UpTo(u, m) \cap ToSet(t) \subseteq UpTo(t, m)
           \/ /\ Gone(t, u, m) # {}
              /\ \E x : UpTo(u, m) \cap ToSet(t) \subseteq UpTo(t, m) \cup {x}
    BY <2>2, ScanKept
  <2> QED BY <2>1, <2>3 DEF gone
<1>12. Cardinality(gone) \in Nat /\ (Cardinality(gone) = 0 <=> gone = {})
  BY <1>2, <1>4, GoneIs DEF gone
<1>13. passed' \in Nat /\ passed' >= passed
  BY <1>2, <1>7, <1>12
<1>14. seen' \subseteq UpTo(r, n) /\ since' \subseteq ToSet(r)
  BY <1>2, <1>7, <1>11
<1>15. IsFiniteSet(Missed)
  BY MissedFinite
<1>16. Cardinality(Missed') <= passed'
  <2>1. CASE Missed' \subseteq Missed
    <3>1. Cardinality(Missed) <= passed'
      <4>1. Cardinality(Missed) \in Nat
        BY <1>15, FS_CardinalityType
      <4> QED BY <1>2, <1>13, <4>1
    <3> QED BY <1>13, <1>15, <2>1, <3>1, FewerMissed
  <2>2. CASE ~(Missed' \subseteq Missed)
    <3>1. ~stream.ended
      BY <1>7, <1>8, <1>9, <2>2
    <3>2. PICK x : gone # {} /\ UpTo(r, n) \cap ToSet(s) \subseteq UpTo(s, n) \cup {x}
      BY <1>2, <1>7, <1>8, <1>9, <1>11, <2>2, <3>1
    <3>3. Missed' \subseteq Missed \cup {x}
      BY <1>2, <1>7, <1>8, <1>9, <3>1, <3>2
    <3>4. passed' >= passed + 1
      BY <1>2, <1>7, <1>12, <3>1, <3>2
    <3>5. IsFiniteSet(Missed \cup {x}) /\ Cardinality(Missed \cup {x}) <= passed'
      <4>1. /\ IsFiniteSet(Missed \cup {x}) /\ Cardinality(Missed) \in Nat
            /\ Cardinality(Missed \cup {x}) =
                 IF x \in Missed THEN Cardinality(Missed) ELSE Cardinality(Missed) + 1
        BY <1>15, FS_AddElement, FS_CardinalityType
      <4> QED BY <1>2, <1>13, <3>4, <4>1
    <3> QED BY <1>13, <3>3, <3>5, FewerMissed
  <2> QED BY <2>1, <2>2
<1>17. PastEndOnlyByRemoval'
  <2>1. ASSUME ~stream.ended, passed' = 0 PROVE n <= Len(r)
    <3>1. passed = 0 /\ gone = {}
      BY <1>2, <1>7, <1>12, <2>1
    <3> QED BY <1>2, <1>11, <2>1, <3>1
  <2> QED BY <1>1, <2>1 DEF PastEndOnlyByRemoval, r, n
<1>18. (stream = Closed => seen = {} /\ since = {} /\ passed = 0)'
  <2> SUFFICES ASSUME stream = Closed PROVE seen' = {} /\ since' = {} /\ passed' = 0
    BY <1>1 DEF Closed
  <2>1. s = <<>> /\ ~stream.ended
    BY <1>4 DEF Closed
  <2>2. gone = {}
    <3>1. \A k : k \in gone <=> k \in 1..Len(s) /\ k <= n /\ s[k] \notin ToSet(r)
      BY <1>2, <1>4, GoneIs DEF gone
    <3> QED BY <2>1, <3>1
  <2>3. seen = {} /\ since = {} /\ passed = 0
    BY <1>2
  <2>4. seen' = {} /\ since' = {}
    BY <1>7, <2>3
  <2>5. Cardinality(gone) = 0
    BY <1>12, <2>2
  <2>6. passed' = 0
    BY <1>7, <2>1, <2>3, <2>5
  <2> QED BY <2>4, <2>6
<1>19. (seen \subseteq UpTo(Entries(entry), stream.index))' /\ (since \subseteq ToSet(Entries(entry)))'
  BY <1>1, <1>14 DEF r, n
<1>20. ScanOK'
  BY <1>1, <1>2, <1>10, <1>13, <1>16, <1>17, <1>18, <1>19 DEF ScanOK
<1> QED BY <1>3, <1>20 DEF SInv

-----------------------------------------------------------------------------
LEMMA StreamStepOK ==
  ASSUME SInv, [StreamNext]_allVars
  PROVE  SInv'
<1>1. CASE \E p \in Paths : Opendir(p)
  BY <1>1, OpendirOK
<1>2. CASE Readdir
  BY <1>2, ReaddirOK
<1>3. CASE Closedir
  BY <1>3, ClosedirOK
<1>4. CASE Meanwhile
  BY <1>4, MeanwhileOK
<1>5. CASE UNCHANGED allVars
  <2>1. /\ entry' = entry /\ count' = count /\ held' = held
        /\ stream' = stream /\ seen' = seen /\ since' = since /\ passed' = passed
    BY <1>5 DEF allVars, vars, streamVars
  <2>2. CInv' /\ Missed' = Missed /\ PastEndOnlyByRemoval' /\ (Entries(entry))' = Entries(entry)
    BY <2>1 DEF SInv, ScanOK, CInv, IInv, Missed, PastEndOnlyByRemoval, Entries
  <2> QED BY <2>1, <2>2 DEF SInv, ScanOK, Closed
<1> QED
  BY <1>1, <1>2, <1>3, <1>4, <1>5 DEF StreamNext

(* The table and the counts stay what CarefulCaller makes of them, and     *)
(* what the scan has seen and missed is as ScanOK says, in every state     *)
(* that a careful caller and one directory stream can get to.              *)
THEOREM StreamInvariance == StreamSpec => []SInv
<1>1. StreamInit => SInv
  BY StreamInitOK
<1>2. SInv /\ [StreamNext]_allVars => SInv'
  BY StreamStepOK
<1> QED BY <1>1, <1>2, PTL DEF StreamSpec

(* When a scan with my_readdir ends it has returned every entry that was   *)
(* there all the time, but for one at most for each entry that was removed *)
(* behind its index.                                                       *)
THEOREM MissesNoMoreThanPassedHolds == StreamSpec => []MissesNoMoreThanPassed
<1>1. SInv => MissesNoMoreThanPassed
  BY DEF SInv, ScanOK, Missed, MissesNoMoreThanPassed
<1> QED BY <1>1, StreamInvariance, PTL

(* The index of a MY_DIR gets ahead of the number of dentries, which       *)
(* my_readdir tests with ==, only after a removal behind it.               *)
THEOREM PastEndOnlyByRemovalHolds == StreamSpec => []PastEndOnlyByRemoval
<1>1. SInv => PastEndOnlyByRemoval
  BY DEF SInv, ScanOK
<1> QED BY <1>1, StreamInvariance, PTL

(* my_readdir never returns an entry for the second time, whatever calls   *)
(* come in between.                                                        *)
THEOREM NoEntryTwiceHolds == StreamSpec => NoEntryTwice
<1> DEFINE Once == Readdir /\ stream.index < Len(Entries(entry)) =>
                     Entries(entry)[stream.index + 1] \notin seen
<1>1. SInv /\ [StreamNext]_allVars => [Once]_allVars
  <2> SUFFICES ASSUME SInv, stream.index < Len(Entries(entry)),
                      Entries(entry)[stream.index + 1] \in seen
               PROVE  FALSE
    OBVIOUS
  <2> DEFINE d == stream.fh
             n == stream.index
             s == entry[d].dentries
  <2>1. /\ CInv /\ d \in Ino /\ n \in Nat /\ n < Len(s) /\ s \in Seq(Dentry) /\ Len(s) \in Nat
        /\ s[n + 1] \in UpTo(s, n)
    BY EntriesAre DEF SInv, ScanOK, Entries
  <2>2. entry[d].type = "dir"
    BY <2>1, CInvFacts DEF Shaped
  <2>3. PICK j \in 1..Len(s) : j <= n /\ s[n + 1] = s[j]
    BY <2>1, UpToIs
  <2>4. n + 1 \in 1..Len(s)
    BY <2>1
  <2>5. n + 1 = j
    BY <2>1, <2>2, <2>3, <2>4, CInvFacts, DentriesDiffer
  <2> QED BY <2>1, <2>3, <2>5
<1> QED BY <1>1, StreamInvariance, PTL DEF StreamSpec, NoEntryTwice
=============================================================================
