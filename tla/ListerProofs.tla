----------------------------- MODULE ListerProofs -----------------------------
(***************************************************************************)
(* Proofs about Lister: on the tree of a careful caller, whatever its size *)
(* and its names, lslr reports every name once and ls agrees with it.      *)
(***************************************************************************)
EXTENDS Lister, CarefulProofs

-----------------------------------------------------------------------------
(* Sequences of lines: what is in them, and that nothing is twice. *)

Unrepeating(s) == \A i, j \in 1..Len(s) : s[i] = s[j] => i = j

LEMMA ToSetIs ==
  ASSUME NEW S, NEW s \in Seq(S)
  PROVE  /\ Len(s) \in Nat
         /\ \A x : x \in ToSet(s) <=> \E k \in 1..Len(s) : x = s[k]
<1>1. Len(s) \in Nat /\ DOMAIN s = 1..Len(s)
  BY LenProperties
<1> QED BY <1>1 DEF ToSet

LEMMA ConcatIs ==
  ASSUME NEW S, NEW s \in Seq(S), NEW t \in Seq(S)
  PROVE  /\ s \o t \in Seq(S)
         /\ \A x : x \in ToSet(s \o t) <=> x \in ToSet(s) \/ x \in ToSet(t)
         /\ Unrepeating(s) /\ Unrepeating(t) /\ (\A x \in ToSet(s) : x \notin ToSet(t))
              => Unrepeating(s \o t)
<1> DEFINE u == s \o t
           m == Len(s)
           n == Len(t)
<1>1. /\ u \in Seq(S) /\ m \in Nat /\ n \in Nat /\ Len(u) = m + n
      /\ \A k \in 1..m : u[k] = s[k]
      /\ \A k \in 1..n : u[m + k] = t[k]
  BY ConcatProperties, LenProperties
<1>2. /\ \A x : x \in ToSet(s) <=> \E k \in 1..m : x = s[k]
      /\ \A x : x \in ToSet(t) <=> \E k \in 1..n : x = t[k]
  BY ToSetIs
<1>3. \A x : x \in ToSet(u) <=> \E k \in 1..Len(u) : x = u[k]
  BY <1>1, ToSetIs
<1> HIDE DEF u, m, n
<1>4. /\ \A k \in 1..m : k \in 1..(m + n)
      /\ \A k \in 1..n : m + k \in 1..(m + n)
      /\ \A k \in 1..(m + n) : k \in 1..m \/ (k - m \in 1..n /\ k = m + (k - m))
  BY <1>1
<1>5. \A k \in 1..(m + n) : k \in 1..m \/ \E l \in 1..n : k = m + l
  BY <1>4
<1>6. \A x : x \in ToSet(u) <=> x \in ToSet(s) \/ x \in ToSet(t)
  <2>1. ASSUME NEW x, x \in ToSet(u) PROVE x \in ToSet(s) \/ x \in ToSet(t)
    <3>1. PICK k \in 1..(m + n) : x = u[k]
      BY <1>1, <1>3, <2>1
    <3>2. CASE k \in 1..m
      BY <1>1, <1>2, <3>1, <3>2
    <3>3. CASE \E l \in 1..n : k = m + l
      BY <1>1, <1>2, <3>1, <3>3
    <3> QED BY <1>5, <3>2, <3>3
  <2>2. ASSUME NEW x, x \in ToSet(s) \/ x \in ToSet(t) PROVE x \in ToSet(u)
    <3>1. CASE x \in ToSet(s)
      <4>1. PICK k \in 1..m : x = s[k]
        BY <1>2, <3>1
      <4>2. k \in 1..Len(u) /\ x = u[k]
        BY <1>1, <1>4, <4>1
      <4> QED BY <1>3, <4>2
    <3>2. CASE x \in ToSet(t)
      <4>1. PICK k \in 1..n : x = t[k]
        BY <1>2, <3>2
      <4>2. m + k \in 1..Len(u) /\ x = u[m + k]
        BY <1>1, <1>4, <4>1
      <4> QED BY <1>3, <4>2
    <3> QED BY <2>2, <3>1, <3>2
  <2> QED BY <2>1, <2>2
<1>7. ASSUME Unrepeating(s), Unrepeating(t), \A x \in ToSet(s) : x \notin ToSet(t),
             NEW i \in 1..Len(u), NEW j \in 1..Len(u), u[i] = u[j]
      PROVE  i = j
  <2>1. i \in 1..(m + n) /\ j \in 1..(m + n)
    BY <1>1
  <2>2. CASE i \in 1..m /\ j \in 1..m
    <3>1. s[i] = s[j]
      BY <1>1, <1>7, <2>2
    <3> QED BY <1>7, <2>2, <3>1 DEF Unrepeating, m
  <2>3. CASE \E k, l \in 1..n : i = m + k /\ j = m + l
    <3>1. PICK k \in 1..n, l \in 1..n : i = m + k /\ j = m + l
      BY <2>3
    <3>2. t[k] = t[l]
      BY <1>1, <1>7, <3>1
    <3>3. k = l
      BY <1>7, <3>2 DEF Unrepeating, n
    <3> QED BY <3>1, <3>3
  <2>4. ASSUME NEW a \in 1..m, NEW l \in 1..n, u[a] = u[m + l] PROVE FALSE
    <3>1. s[a] = t[l]
      BY <1>1, <2>4
    <3>2. s[a] \in ToSet(s) /\ t[l] \in ToSet(t)
      BY <1>2
    <3> QED BY <1>7, <3>1, <3>2
  <2>5. \/ i \in 1..m /\ j \in 1..m
        \/ \E k, l \in 1..n : i = m + k /\ j = m + l
        \/ i \in 1..m /\ \E l \in 1..n : j = m + l
        \/ j \in 1..m /\ \E k \in 1..n : i = m + k
    BY <1>5, <2>1
  <2> QED BY <1>7, <2>2, <2>3, <2>4, <2>5
<1>8. Unrepeating(s) /\ Unrepeating(t) /\ (\A x \in ToSet(s) : x \notin ToSet(t))
        => Unrepeating(u)
  BY <1>7 DEF Unrepeating
<1> QED BY <1>1, <1>6, <1>8 DEF u

(* FlattenSeq, one sequence after another: f[i] is the first i of them. *)
FlatOf(ss, f, m) == f = [i \in 1..m |-> IF i = 1 THEN ss[i] ELSE f[i - 1] \o ss[i]]

LEMMA FlatExists ==
  ASSUME NEW ss
  PROVE  \A m \in Nat : \E f : FlatOf(ss, f, m)
<1> DEFINE S == {m \in Nat : ~ \E f : FlatOf(ss, f, m)}
<1> SUFFICES ASSUME S # {} PROVE FALSE
  OBVIOUS
<1> DEFINE m == Min(S)
<1>1. m \in S /\ \A k \in S : m <= k
  BY MinIsMember
<1>2. CASE m = 0
  <2> DEFINE f == [i \in 1..0 |-> ss[i]]
  <2>1. \A i \in 1..0 : FALSE
    OBVIOUS
  <2>2. FlatOf(ss, f, 0)
    BY <2>1 DEF FlatOf
  <2> QED BY <1>1, <1>2, <2>2
<1>3. CASE m # 0
  <2>1. m \in Nat /\ m - 1 \in Nat /\ m - 1 \notin S
    <3> HIDE DEF m
    <3> QED BY <1>1, <1>3
  <2>2. PICK f : FlatOf(ss, f, m - 1)
    BY <2>1
  <2> DEFINE last == IF m = 1 THEN ss[m] ELSE f[m - 1] \o ss[m]
             v == [i \in 1..m |-> IF i = m THEN last ELSE f[i]]
  <2>3. FlatOf(ss, v, m)
    <3> HIDE DEF m
    <3>1. ASSUME NEW i \in 1..m, i # 1, i # m
          PROVE  v[i] = v[i - 1] \o ss[i]
      <4>1. i \in 1..(m - 1) /\ i - 1 \in 1..m /\ i - 1 # m
        BY <2>1, <3>1
      <4>2. v[i] = f[i] /\ v[i - 1] = f[i - 1]
        BY <3>1, <4>1
      <4>3. f[i] = f[i - 1] \o ss[i]
        BY <2>2, <3>1, <4>1 DEF FlatOf
      <4> QED BY <4>2, <4>3
    <3>2. v[m] = last /\ (m # 1 => v[m - 1] = f[m - 1])
      BY <1>3, <2>1
    <3>3. m # 1 => v[1] = ss[1]
      BY <1>3, <2>1, <2>2 DEF FlatOf
    <3> HIDE DEF last
    <3>4. v = [i \in 1..m |-> v[i]]
      OBVIOUS
    <3> HIDE DEF v
    <3>5. \A i \in 1..m : v[i] = IF i = 1 THEN ss[i] ELSE v[i - 1] \o ss[i]
      BY <3>1, <3>2, <3>3 DEF last
    <3> QED BY <3>4, <3>5 DEF FlatOf
  <2> QED BY <1>1, <2>3
<1> QED BY <1>2, <1>3

LEMMA FlattenIs ==
  ASSUME NEW S, NEW n \in Nat, NEW ss, ss = [k \in 1..n |-> ss[k]],
         \A k \in 1..n : ss[k] \in Seq(S)
  PROVE  /\ FlattenSeq(ss) \in Seq(S)
         /\ \A x : x \in ToSet(FlattenSeq(ss)) <=> \E k \in 1..n : x \in ToSet(ss[k])
         /\ /\ \A k \in 1..n : Unrepeating(ss[k])
            /\ \A k, l \in 1..n : \A x : x \in ToSet(ss[k]) /\ x \in ToSet(ss[l]) => k = l
            => Unrepeating(FlattenSeq(ss))
<1> DEFINE Apart == /\ \A k \in 1..n : Unrepeating(ss[k])
                    /\ \A k, l \in 1..n : \A x : x \in ToSet(ss[k]) /\ x \in ToSet(ss[l]) => k = l
<1>1. ss \in Seq(Seq(S)) /\ Len(ss) = n /\ DOMAIN ss = 1..n
  <2>1. ss \in [1..n -> Seq(S)]
    OBVIOUS
  <2> QED BY <2>1, LenProperties
<1>2. CASE n = 0
  <2>1. FlattenSeq(ss) = ss
    BY <1>1, <1>2 DEF FlattenSeq
  <2>2. ss = <<>> /\ <<>> \in Seq(S)
    BY <1>1, <1>2, EmptySeq
  <2>3. \A x : x \notin ToSet(ss)
    BY <1>1, <1>2 DEF ToSet
  <2>4. Unrepeating(ss)
    BY <1>1, <1>2 DEF Unrepeating
  <2>5. \A k \in 1..n : FALSE
    BY <1>2
  <2> HIDE DEF Apart
  <2>6. ss \in Seq(S)
    BY <2>2
  <2> QED BY <2>1, <2>3, <2>4, <2>5, <2>6
<1>3. CASE n # 0
  <2> DEFINE f == CHOOSE g : FlatOf(ss, g, n)
  <2>1. FlatOf(ss, f, n)
    BY FlatExists
  <2>2. FlattenSeq(ss) = f[n]
    BY <1>1, <1>3 DEF FlattenSeq, FlatOf
  <2> HIDE DEF f
  <2>3. /\ f[1] = ss[1]
        /\ \A i \in 2..n : f[i] = f[i - 1] \o ss[i]
    <3>1. \A i \in 1..n : f[i] = IF i = 1 THEN ss[i] ELSE f[i - 1] \o ss[i]
      BY <2>1 DEF FlatOf
    <3>2. 1 \in 1..n /\ \A i \in 2..n : i \in 1..n /\ i # 1
      BY <1>3
    <3> QED BY <3>1, <3>2
  <2> DEFINE Good(i) == /\ f[i] \in Seq(S)
                        /\ \A x : x \in ToSet(f[i]) <=> \E k \in 1..i : x \in ToSet(ss[k])
                        /\ Apart => Unrepeating(f[i])
             R == {i \in 1..n : ~Good(i)}
  <2>4. Good(1)
    <3>1. 1 \in 1..n /\ \A k : k \in 1..1 <=> k = 1
      BY <1>3
    <3> QED BY <2>3, <3>1
  <2>5. ASSUME NEW i \in 2..n, Good(i - 1) PROVE Good(i)
    <3>1. /\ i \in 1..n /\ \A k : k \in 1..i <=> k \in 1..(i - 1) \/ k = i
          /\ \A k \in 1..(i - 1) : k \in 1..n /\ k # i
      OBVIOUS
    <3>2. f[i] = f[i - 1] \o ss[i] /\ f[i - 1] \in Seq(S) /\ ss[i] \in Seq(S)
      BY <2>3, <2>5, <3>1
    <3>3. /\ f[i] \in Seq(S)
          /\ \A x : x \in ToSet(f[i]) <=> x \in ToSet(f[i - 1]) \/ x \in ToSet(ss[i])
          /\ /\ Unrepeating(f[i - 1]) /\ Unrepeating(ss[i])
             /\ \A x \in ToSet(f[i - 1]) : x \notin ToSet(ss[i])
             => Unrepeating(f[i])
      BY <3>2, ConcatIs
    <3>4. \A x : x \in ToSet(f[i]) <=> \E k \in 1..i : x \in ToSet(ss[k])
      BY <2>5, <3>1, <3>3
    <3>5. ASSUME Apart PROVE Unrepeating(f[i])
      <4>1. ASSUME NEW x \in ToSet(f[i - 1]), x \in ToSet(ss[i]) PROVE FALSE
        <5>1. PICK k \in 1..(i - 1) : x \in ToSet(ss[k])
          BY <2>5
        <5> QED BY <3>1, <3>5, <4>1, <5>1
      <4> QED BY <2>5, <3>1, <3>3, <3>5, <4>1
    <3> QED BY <3>3, <3>4, <3>5
  <2>6. R = {}
    <3> SUFFICES ASSUME R # {} PROVE FALSE
      OBVIOUS
    <3>1. R \in SUBSET Nat
      OBVIOUS
    <3>2. PICK i \in R : \A j \in R : i <= j
      <4> HIDE DEF R
      <4> QED BY <3>1, MinIsMember
    <3>3. i \in 1..n /\ ~Good(i)
      OBVIOUS
    <3>4. i \in 2..n
      <4>1. i # 1
        <5> HIDE DEF Good
        <5> QED BY <2>4, <3>3
      <4> QED BY <3>3, <4>1
    <3>5. i - 1 \in 1..n /\ ~(i <= i - 1)
      BY <3>4
    <3>6. Good(i - 1)
      <4> HIDE DEF Good
      <4> QED BY <3>2, <3>5
    <3> HIDE DEF Good
    <3> QED BY <2>5, <3>3, <3>4, <3>6
  <2>7. Good(n)
    <3>1. n \in 1..n
      BY <1>3
    <3> HIDE DEF Good
    <3> QED BY <2>6, <3>1
  <2> QED BY <2>2, <2>7
<1> QED BY <1>2, <1>3

-----------------------------------------------------------------------------
(* The directories of which d is one up. *)
ChildOf(nd, c, d) == IsDir(nd, c) /\ c # ROOT /\ Up(nd, c) = d

(* What is above a directory and not itself is one up from one that is     *)
(* above it, and from only one.                                            *)
LEMMA AboveThrough ==
  ASSUME NEW nd, Planted(nd), NEW d, IsDir(nd, d)
  PROVE  \A e : IsDir(nd, e) /\ Above(nd, d, e) /\ e # d =>
           \E c : ChildOf(nd, c, d) /\ Above(nd, c, e)
<1> DEFINE Bad(e) == /\ IsDir(nd, e) /\ Above(nd, d, e) /\ e # d
                     /\ ~ \E c : ChildOf(nd, c, d) /\ Above(nd, c, e)
           S == {e \in Ino : Bad(e)}
<1>1. SUFFICES ASSUME S # {} PROVE FALSE
  BY DEF IsDir
<1>2. S \in SUBSET Nat
  BY Numbers
<1>3. PICK e \in S : \A j \in S : e <= j
  <2> HIDE DEF S
  <2> QED BY <1>1, <1>2, MinIsMember
<1>4. IsDir(nd, e) /\ Above(nd, d, e) /\ e # d /\ Bad(e)
  OBVIOUS
<1>5. /\ Up(nd, e) \in Ino /\ IsDir(nd, Up(nd, e))
      /\ e # ROOT => Up(nd, e) < e
      /\ d <= e
  BY <1>4, AboveOrder
<1>6. Above(nd, d, Up(nd, e)) /\ Above(nd, e, e)
  BY <1>4, <1>5, AboveSteps
<1>7. e # ROOT
  <2>1. \A i \in Ino : i \in Nat /\ (i < ROOT => nd[i].type = "none")
    BY Numbers DEF Planted, PlantedBut
  <2>2. d \in Nat /\ ~ (d < ROOT) /\ e \in Nat
    BY <1>4, <2>1 DEF IsDir
  <2> QED BY <1>4, <1>5, <2>2 DEF ROOT
<1>8. CASE Up(nd, e) = d
  <2>1. ChildOf(nd, e, d)
    BY <1>4, <1>7, <1>8 DEF ChildOf
  <2> QED BY <1>4, <1>6, <2>1
<1>9. CASE Up(nd, e) # d
  <2>1. Up(nd, e) \notin S
    <3>1. Up(nd, e) < e /\ Up(nd, e) \in Nat /\ e \in Nat
      BY <1>2, <1>5, <1>7, Numbers
    <3> HIDE DEF S
    <3> QED BY <1>3, <3>1
  <2>2. PICK c : ChildOf(nd, c, d) /\ Above(nd, c, Up(nd, e))
    BY <1>5, <1>6, <1>9, <2>1
  <2>3. Above(nd, c, e)
    BY <1>4, <1>5, <2>2, AboveSteps
  <2> QED BY <1>4, <2>2, <2>3
<1> QED BY <1>8, <1>9

LEMMA AboveOnce ==
  ASSUME NEW nd, Planted(nd), NEW d, NEW b, NEW c, ChildOf(nd, b, d), ChildOf(nd, c, d), b # c
  PROVE  \A e : IsDir(nd, e) => ~(Above(nd, b, e) /\ Above(nd, c, e))
<1> DEFINE S == {e \in Ino : IsDir(nd, e) /\ Above(nd, b, e) /\ Above(nd, c, e)}
<1>1. SUFFICES ASSUME S # {} PROVE FALSE
  BY DEF IsDir
<1>2. S \in SUBSET Nat
  BY Numbers
<1>3. PICK e \in S : \A j \in S : e <= j
  <2> HIDE DEF S
  <2> QED BY <1>1, <1>2, MinIsMember
<1>4. /\ IsDir(nd, e) /\ Above(nd, b, e) /\ Above(nd, c, e)
      /\ Up(nd, e) \in Ino /\ IsDir(nd, Up(nd, e))
  BY AboveOrder
<1>5. /\ IsDir(nd, b) /\ IsDir(nd, c) /\ Up(nd, b) = d /\ Up(nd, c) = d
      /\ d < b /\ d < c /\ b \in Nat /\ c \in Nat /\ d \in Nat /\ IsDir(nd, d)
  <2>1. \A i \in Ino : i \in Nat
    BY Numbers
  <2> QED BY <2>1, AboveOrder DEF ChildOf, IsDir
<1>6. ASSUME NEW x \in {b, c}, NEW y \in {b, c}, x # y, e = x PROVE FALSE
  <2>1. Above(nd, y, d)
    BY <1>4, <1>5, <1>6, AboveSteps
  <2>2. y <= d
    BY <1>5, <2>1, AboveOrder
  <2> QED BY <1>5, <2>2
<1>7. e # b /\ e # c
  BY <1>6
<1>8. Above(nd, b, Up(nd, e)) /\ Above(nd, c, Up(nd, e))
  BY <1>4, <1>7, AboveSteps
<1>9. Up(nd, e) \in S
  BY <1>4, <1>8
<1>10. e <= Up(nd, e) /\ e \in Nat /\ Up(nd, e) \in Nat
  BY <1>2, <1>3, <1>9
<1>11. e = ROOT
  BY <1>4, <1>10, AboveOrder
<1>12. b <= ROOT /\ b # ROOT /\ b < ROOT
  <2>1. b <= ROOT /\ b # ROOT
    BY <1>4, <1>11, AboveOrder DEF ChildOf
  <2> QED BY <1>5, <2>1 DEF ROOT
<1> QED BY <1>5, <1>12 DEF Planted, PlantedBut, IsDir

-----------------------------------------------------------------------------
(* The lines of a listing, and the paths it builds. *)

Lines == [dir: Ino, name: Segment, file: Ino]

LineAt(nd, d, k) == Line(d, nd[d].dentries[k].name, nd[d].dentries[k].ino)

LEMMA BelowIs ==
  ASSUME NEW p \in Path, NEW s \in Segment
  PROVE  /\ Below(p, s) \in Path /\ TailName(Below(p, s)) = s
         /\ ParentPath(Below(p, s)) = p
<1> DEFINE q == Append(p, s)
           m == Len(p)
<1>1. p \in Seq(Segment) /\ m \in Nat
  BY PathParts
<1>2. /\ q \in Seq(Segment) /\ Len(q) = m + 1
      /\ \A k \in 1..m : q[k] = p[k]
      /\ q[m + 1] = s
  BY <1>1, AppendProperties
<1>3. q \in Path
  <2>1. q # <<>>
    <3> HIDE DEF q, m
    <3> QED BY <1>1, <1>2, EmptySeq
  <2> HIDE DEF q
  <2> QED BY <1>2, <2>1 DEF Path
<1>4. /\ ParentPath(q) \in Seq(Segment) /\ Len(ParentPath(q)) = Len(q) - 1
      /\ \A k \in 1..(Len(q) - 1) : ParentPath(q)[k] = q[k]
      /\ TailName(q) = q[Len(q)]
  BY <1>3, PathParts
<1> DEFINE u == ParentPath(q)
<1> HIDE DEF q, u, m
<1>5. Len(q) - 1 = m
  BY <1>1, <1>2
<1>6. u \in Seq(Segment) /\ Len(u) = m /\ \A k \in 1..m : u[k] = p[k]
  BY <1>2, <1>4, <1>5 DEF u
<1>7. u = p
  BY <1>1, <1>6, SeqEqual DEF m
<1> QED BY <1>2, <1>3, <1>4, <1>7 DEF Below, u, q

(* The path of a name leads to the file the dentry holds. *)
LEMMA NameLeads ==
  ASSUME NEW nd, Shaped(nd), Planted(nd), NEW p \in Path, NEW d, d = FindReal(nd, p),
         NEW k, NameAt(nd, d, k)
  PROVE  LET s == nd[d].dentries[k].name
             i == nd[d].dentries[k].ino
         IN /\ s \in Name /\ s \in Segment /\ i \in Ino /\ i # 0 /\ i # ROOT
            /\ nd[i].type # "none"
            /\ Below(p, s) \in Path /\ TailName(Below(p, s)) = s
            /\ FindReal(nd, Below(p, s)) = i /\ Lstat(nd, Below(p, s)) = i
<1> DEFINE s == nd[d].dentries[k].name
           i == nd[d].dentries[k].ino
           x == TreeName(d, nd[d].dentries[k])
<1>1. x \in TreeNames(nd) /\ x.dir = d /\ x.name = s /\ x.obj = i
  BY TreeNamesAre DEF TreeName
<1>2. d \in Ino /\ nd[d].type = "dir"
  BY DEF NameAt
<1> HIDE DEF s, i, x
<1>3. s \in Name /\ s \in Segment /\ s # "" /\ i \in Ino
  BY <1>1, NameParts, Segments
<1>4. nd[i].type # "none" /\ i # ROOT
  BY <1>1 DEF Planted, PlantedBut
<1>5. i # 0
  BY <1>4, ZeroIsNone DEF Planted
<1>6. /\ Below(p, s) \in Path /\ TailName(Below(p, s)) = s
      /\ ParentPath(Below(p, s)) = p
  BY <1>3, BelowIs
<1>7. FindReal(nd, Below(p, s)) = i
  <2>1. Step(nd, d, s) = i
    BY <1>1, <1>2, StepIs
  <2>2. FindReal(nd, Below(p, s)) = Go(nd, d, s)
    BY <1>6, FindRealLast
  <2> QED BY <1>3, <2>1, <2>2 DEF Go
<1>8. nd[i] # Blank
  BY <1>4 DEF Blank
<1> QED BY <1>3, <1>4, <1>5, <1>6, <1>7, <1>8 DEF Lstat, s, i

(* A directory with a name in d is one of which d is one up, and has no    *)
(* other name.                                                             *)
LEMMA NamedChild ==
  ASSUME NEW nd, Shaped(nd), Planted(nd)
  PROVE  /\ \A d, k : NameAt(nd, d, k) /\ nd[nd[d].dentries[k].ino].type = "dir" =>
                        ChildOf(nd, nd[d].dentries[k].ino, d)
         /\ \A d, k, l : /\ NameAt(nd, d, k) /\ NameAt(nd, d, l)
                         /\ nd[d].dentries[k].name = nd[d].dentries[l].name
                         => k = l
         /\ \A d, k, l : /\ NameAt(nd, d, k) /\ NameAt(nd, d, l)
                         /\ nd[nd[d].dentries[k].ino].type = "dir"
                         /\ nd[d].dentries[k].ino = nd[d].dentries[l].ino
                         => k = l
         /\ \A d, c : ChildOf(nd, c, d) =>
              \E k : NameAt(nd, d, k) /\ nd[d].dentries[k].ino = c
<1>1. ASSUME NEW d, NEW k, NameAt(nd, d, k)
      PROVE  LET x == TreeName(d, nd[d].dentries[k])
             IN x \in TreeNames(nd) /\ x.dir = d /\ x.obj = nd[d].dentries[k].ino
                /\ x.name = nd[d].dentries[k].name
  BY <1>1, TreeNamesAre DEF TreeName
<1>2. ASSUME NEW c, IsDir(nd, c), c # ROOT
      PROVE  /\ \E x \in TreeNames(nd) : x.dir = Up(nd, c) /\ x.obj = c
             /\ \A x, y \in TreeNames(nd) : x.obj = c /\ y.obj = c => x = y
  BY <1>2 DEF Planted, PlantedBut, IsDir
<1>3. ASSUME NEW d, NEW k, NameAt(nd, d, k), nd[nd[d].dentries[k].ino].type = "dir"
      PROVE  ChildOf(nd, nd[d].dentries[k].ino, d)
  <2> DEFINE c == nd[d].dentries[k].ino
             x == TreeName(d, nd[d].dentries[k])
  <2>1. x \in TreeNames(nd) /\ x.dir = d /\ x.obj = c
    BY <1>1, <1>3
  <2>2. IsDir(nd, c) /\ c # ROOT
    <3>1. nd[c].type = "dir"
      BY <1>3
    <3> HIDE DEF c, x
    <3> QED BY <2>1, <3>1, NameParts DEF Planted, PlantedBut, IsDir
  <2> HIDE DEF c, x
  <2>3. PICK y \in TreeNames(nd) : y.dir = Up(nd, c) /\ y.obj = c
    BY <1>2, <2>2
  <2>4. y = x
    BY <1>2, <2>1, <2>2, <2>3
  <2>5. ChildOf(nd, c, d)
    BY <2>1, <2>2, <2>3, <2>4 DEF ChildOf
  <2> QED BY <2>5 DEF c
<1>4. ASSUME NEW d, NEW k, NEW l, NameAt(nd, d, k), NameAt(nd, d, l),
             nd[d].dentries[k].name = nd[d].dentries[l].name
      PROVE  k = l
  <2>1. DirShaped(nd, d) /\ Len(nd[d].dentries) \in Nat
    BY <1>4, DentriesAre DEF NameAt, Shaped
  <2>2. k \in 3..Len(nd[d].dentries) /\ l \in 3..Len(nd[d].dentries)
    BY <1>4, <2>1 DEF NameAt
  <2> QED BY <1>4, <2>1, <2>2 DEF DirShaped
<1>5. ASSUME NEW d, NEW k, NEW l, NameAt(nd, d, k), NameAt(nd, d, l),
             nd[nd[d].dentries[k].ino].type = "dir",
             nd[d].dentries[k].ino = nd[d].dentries[l].ino
      PROVE  k = l
  <2> DEFINE c == nd[d].dentries[k].ino
             x == TreeName(d, nd[d].dentries[k])
             y == TreeName(d, nd[d].dentries[l])
  <2>1. /\ x \in TreeNames(nd) /\ x.obj = c /\ x.name = nd[d].dentries[k].name
        /\ y \in TreeNames(nd) /\ y.obj = c /\ y.name = nd[d].dentries[l].name
    BY <1>1, <1>5
  <2>2. IsDir(nd, c) /\ c # ROOT
    BY <1>3, <1>5 DEF ChildOf
  <2> HIDE DEF c, x, y
  <2>3. x = y
    BY <1>2, <2>1, <2>2
  <2>4. nd[d].dentries[k].name = nd[d].dentries[l].name
    BY <2>1, <2>3
  <2> QED BY <1>4, <1>5, <2>4
<1>6. ASSUME NEW d, NEW c, ChildOf(nd, c, d)
      PROVE  \E k : NameAt(nd, d, k) /\ nd[d].dentries[k].ino = c
  <2>1. PICK x \in TreeNames(nd) : x.dir = d /\ x.obj = c
    BY <1>2, <1>6 DEF ChildOf
  <2> QED BY <2>1, NameParts
<1> QED BY <1>3, <1>4, <1>5, <1>6

-----------------------------------------------------------------------------
(* visit. *)

(* The lines are those of the names in d and in the directories below it,  *)
(* each of them once.                                                      *)
Shows(nd, ls, d) ==
  /\ ls \in Seq(Lines) /\ Unrepeating(ls)
  /\ \A x : x \in ToSet(ls) <=>
              \E e, k : NameAt(nd, e, k) /\ Above(nd, d, e) /\ x = LineAt(nd, e, k)

LEMMA LineAtIs ==
  ASSUME NEW nd, Shaped(nd), NEW d, NEW k, NameAt(nd, d, k)
  PROVE  /\ LineAt(nd, d, k) \in Lines
         /\ LineAt(nd, d, k).dir = d
         /\ LineAt(nd, d, k).name = nd[d].dentries[k].name
         /\ LineAt(nd, d, k).file = nd[d].dentries[k].ino
<1>1. /\ d \in Ino /\ k \in 1..Len(nd[d].dentries)
  BY DentriesAre DEF NameAt
<1>2. nd[d].dentries[k].name \in Segment /\ nd[d].dentries[k].ino \in Ino
  BY <1>1, DentriesAre
<1> QED BY <1>1, <1>2 DEF LineAt, Line, Lines

LEMMA OneIs ==
  ASSUME NEW S, NEW a \in S
  PROVE  /\ <<a>> \in Seq(S) /\ Unrepeating(<<a>>)
         /\ \A x : x \in ToSet(<<a>>) <=> x = a
         /\ <<>> \in Seq(S) /\ Unrepeating(<<>>) /\ \A x : x \notin ToSet(<<>>)
<1>1. <<a>> \in Seq(S) /\ <<>> \in Seq(S) /\ Len(<<a>>) = 1 /\ Len(<<>>) = 0 /\ <<a>>[1] = a
  BY EmptySeq
<1>2. \A k : k \in 1..1 <=> k = 1
  OBVIOUS
<1>3. \A k : k \notin 1..0
  OBVIOUS
<1>4. \A x : x \in ToSet(<<a>>) <=> x = a
  <2> DEFINE s == <<a>>
  <2>1. s \in Seq(S) /\ Len(s) = 1 /\ s[1] = a
    BY <1>1
  <2> HIDE DEF s
  <2>2. \A x : x \in ToSet(s) <=> \E k \in 1..Len(s) : x = s[k]
    BY <2>1, ToSetIs
  <2>3. \A x : x \in ToSet(s) <=> x = a
    BY <1>2, <2>1, <2>2
  <2> QED BY <2>3 DEF s
<1>5. \A x : x \notin ToSet(<<>>)
  BY <1>1, <1>3, ToSetIs
<1> QED BY <1>1, <1>2, <1>3, <1>4, <1>5 DEF Unrepeating

LEMMA ListableIs ==
  ASSUME NEW nd, Shaped(nd), NEW d, IsDir(nd, d)
  PROVE  /\ DOMAIN nd[d].dentries = 1..Len(nd[d].dentries) /\ Len(nd[d].dentries) \in Nat
         /\ \A k : k \in Listable(nd, d) <=> NameAt(nd, d, k)
<1>1. /\ d \in Ino /\ nd[d].type = "dir" /\ DirShaped(nd, d)
      /\ DOMAIN nd[d].dentries = 1..Len(nd[d].dentries) /\ Len(nd[d].dentries) \in Nat
  BY DentriesAre DEF IsDir, Shaped
<1>2. ASSUME NEW k, NameAt(nd, d, k) PROVE k \in Listable(nd, d)
  <2>1. k \in 1..Len(nd[d].dentries) /\ k \in 3..Len(nd[d].dentries)
    BY <1>1, <1>2 DEF NameAt
  <2>2. nd[d].dentries[k].name \in Name
    BY <1>1, <2>1 DEF DirShaped
  <2> QED BY <1>1, <2>1, <2>2, Segments DEF Listable
<1>3. ASSUME NEW k, k \in Listable(nd, d) PROVE NameAt(nd, d, k)
  <2>1. k \in 1..Len(nd[d].dentries) /\ nd[d].dentries[k].name \notin {".", ".."}
    BY <1>1, <1>3 DEF Listable
  <2>2. k # 1 /\ k # 2
    BY <1>1, <2>1 DEF DirShaped
  <2> QED BY <1>1, <2>1, <2>2 DEF NameAt
<1> QED BY <1>1, <1>2, <1>3

LEMMA VisitDirIs ==
  ASSUME NEW nd, Shaped(nd), Planted(nd), NEW p \in Path, NEW d, d = FindReal(nd, p),
         IsDir(nd, d), NEW below,
         \A k : NameAt(nd, d, k) /\ nd[nd[d].dentries[k].ino].type = "dir" =>
                  Shows(nd, below[Below(p, nd[d].dentries[k].name)], nd[d].dentries[k].ino)
  PROVE  Shows(nd, VisitDir(nd, p, below), d)
<1> DEFINE n == Len(nd[d].dentries)
           Sub(k) == NameAt(nd, d, k) /\ nd[nd[d].dentries[k].ino].type = "dir"
           under(k) == below[Below(p, nd[d].dentries[k].name)]
           heads == [k \in 1..n |-> IF NameAt(nd, d, k) THEN <<LineAt(nd, d, k)>> ELSE <<>>]
           subs == [k \in 1..n |-> IF Sub(k) THEN under(k) ELSE <<>>]
<1>1. /\ DOMAIN nd[d].dentries = 1..n /\ n \in Nat
      /\ \A k : k \in Listable(nd, d) <=> NameAt(nd, d, k)
  BY ListableIs
<1>2. ASSUME NEW k, NameAt(nd, d, k)
      PROVE  /\ Lstat(nd, Below(p, nd[d].dentries[k].name)) = nd[d].dentries[k].ino
             /\ nd[d].dentries[k].ino # 0
  BY <1>2, NameLeads
<1>3. VisitDir(nd, p, below) = FlattenSeq(heads) \o FlattenSeq(subs)
  <2>1. Find(nd, p) = d /\ nd[d].type = "dir"
    BY DEF Find, IsDir
  <2> DEFINE file(k) == Lstat(nd, Below(p, nd[d].dentries[k].name))
             lost == {k \in Listable(nd, d) : file(k) = 0}
             shown == {k \in Listable(nd, d) : \A j \in lost : k < j}
             visited == {k \in Subdirectories(nd, d) : lost = {}}
  <2>2. lost = {}
    BY <1>1, <1>2
  <2>3. \A k : k \in shown <=> NameAt(nd, d, k)
    <3> HIDE DEF lost
    <3> QED BY <1>1, <2>2
  <2>4. \A k : k \in visited <=> Sub(k)
    <3> HIDE DEF lost
    <3> QED BY <1>1, <2>2 DEF Subdirectories
  <2>5. heads = [k \in 1..n |-> IF k \in shown THEN <<Line(d, nd[d].dentries[k].name, file(k))>> ELSE <<>>]
    <3>1. \A k : NameAt(nd, d, k) => file(k) = nd[d].dentries[k].ino
      BY <1>2
    <3> HIDE DEF file, shown
    <3>2. ASSUME NEW k \in 1..n
          PROVE (IF NameAt(nd, d, k) THEN <<LineAt(nd, d, k)>> ELSE <<>>)
                = (IF k \in shown THEN <<Line(d, nd[d].dentries[k].name, file(k))>> ELSE <<>>)
      BY <2>3, <3>1 DEF LineAt
    <3> QED BY <3>2
  <2>6. subs = [k \in 1..n |-> IF k \in visited THEN under(k) ELSE <<>>]
    <3> HIDE DEF visited, Sub, under
    <3> QED BY <2>4
  <2>7. VisitDir(nd, p, below) =
          FlattenSeq([k \in 1..n |-> IF k \in shown THEN <<Line(d, nd[d].dentries[k].name, file(k))>> ELSE <<>>])
          \o FlattenSeq([k \in 1..n |-> IF k \in visited THEN under(k) ELSE <<>>])
    BY <1>1, <2>1 DEF VisitDir
  <2> HIDE DEF heads, subs, shown, visited, file
  <2> QED BY <2>5, <2>6, <2>7
<1>4. ASSUME NEW k \in 1..n
      PROVE  /\ heads[k] \in Seq(Lines) /\ Unrepeating(heads[k])
             /\ \A x : x \in ToSet(heads[k]) <=> NameAt(nd, d, k) /\ x = LineAt(nd, d, k)
  <2>1. heads[k] = IF NameAt(nd, d, k) THEN <<LineAt(nd, d, k)>> ELSE <<>>
    OBVIOUS
  <2> HIDE DEF heads
  <2>2. CASE NameAt(nd, d, k)
    <3>1. LineAt(nd, d, k) \in Lines
      BY <2>2, LineAtIs
    <3> QED BY <2>1, <2>2, <3>1, OneIs
  <2>3. CASE ~NameAt(nd, d, k)
    <3>1. Line(0, "", 0) \in Lines
      BY Numbers DEF Line, Lines, Segment
    <3> QED BY <2>1, <2>3, <3>1, OneIs
  <2> QED BY <2>2, <2>3
<1> DEFINE In(k, x) == /\ Sub(k)
                       /\ \E e, j : /\ NameAt(nd, e, j)
                                    /\ Above(nd, nd[d].dentries[k].ino, e)
                                    /\ x = LineAt(nd, e, j)
<1>5. ASSUME NEW k \in 1..n
      PROVE  /\ subs[k] \in Seq(Lines) /\ Unrepeating(subs[k])
             /\ \A x : x \in ToSet(subs[k]) <=> In(k, x)
  <2>1. subs[k] = IF Sub(k) THEN under(k) ELSE <<>>
    OBVIOUS
  <2>2. Sub(k) => Shows(nd, under(k), nd[d].dentries[k].ino)
    OBVIOUS
  <2> HIDE DEF subs, Sub, under
  <2>3. CASE Sub(k)
    BY <2>1, <2>2, <2>3 DEF Shows
  <2>4. CASE ~Sub(k)
    <3>1. Line(0, "", 0) \in Lines
      BY Numbers DEF Line, Lines, Segment
    <3> QED BY <2>1, <2>4, <3>1, OneIs
  <2> QED BY <2>3, <2>4
<1>6. ASSUME NEW k, Sub(k) PROVE ChildOf(nd, nd[d].dentries[k].ino, d)
  BY <1>6, NamedChild
<1>7. heads = [k \in 1..n |-> heads[k]] /\ subs = [k \in 1..n |-> subs[k]]
  OBVIOUS
<1> HIDE DEF heads, subs
<1>8. /\ FlattenSeq(heads) \in Seq(Lines) /\ Unrepeating(FlattenSeq(heads))
      /\ \A x : x \in ToSet(FlattenSeq(heads)) <=>
           \E k \in 1..n : NameAt(nd, d, k) /\ x = LineAt(nd, d, k)
  <2>1. ASSUME NEW k \in 1..n, NEW l \in 1..n, NEW x, x \in ToSet(heads[k]), x \in ToSet(heads[l])
        PROVE  k = l
    <3>1. NameAt(nd, d, k) /\ NameAt(nd, d, l) /\ x = LineAt(nd, d, k) /\ x = LineAt(nd, d, l)
      BY <1>4, <2>1
    <3>2. x.name = nd[d].dentries[k].name
      <4>1. NameAt(nd, d, k) /\ x = LineAt(nd, d, k)
        BY <3>1
      <4> QED BY <4>1, LineAtIs
    <3>3. x.name = nd[d].dentries[l].name
      <4>1. NameAt(nd, d, l) /\ x = LineAt(nd, d, l)
        BY <3>1
      <4> QED BY <4>1, LineAtIs
    <3> QED BY <3>1, <3>2, <3>3, NamedChild
  <2>2. \A k \in 1..n : heads[k] \in Seq(Lines) /\ Unrepeating(heads[k])
    BY <1>4
  <2>3. \A x : x \in ToSet(FlattenSeq(heads)) <=> \E k \in 1..n : x \in ToSet(heads[k])
    BY <1>1, <1>7, <2>2, FlattenIs
  <2>4. FlattenSeq(heads) \in Seq(Lines) /\ Unrepeating(FlattenSeq(heads))
    <3>1. \A k, l \in 1..n : \A x : x \in ToSet(heads[k]) /\ x \in ToSet(heads[l]) => k = l
      BY <2>1
    <3> HIDE DEF n
    <3> QED BY <1>1, <1>7, <2>2, <3>1, FlattenIs
  <2> QED BY <1>4, <2>3, <2>4
<1>9. /\ FlattenSeq(subs) \in Seq(Lines) /\ Unrepeating(FlattenSeq(subs))
      /\ \A x : x \in ToSet(FlattenSeq(subs)) <=> \E k \in 1..n : In(k, x)
  <2>0. \A k \in 1..n : /\ subs[k] \in Seq(Lines) /\ Unrepeating(subs[k])
                       /\ \A x : x \in ToSet(subs[k]) <=> In(k, x)
    <3> HIDE DEF In, n
    <3> QED BY <1>5
  <2>1. ASSUME NEW k \in 1..n, NEW l \in 1..n, NEW x, In(k, x), In(l, x)
        PROVE  k = l
    <3>1. PICK e, j : /\ NameAt(nd, e, j) /\ Above(nd, nd[d].dentries[k].ino, e)
                      /\ x = LineAt(nd, e, j)
      BY <2>1
    <3>2. PICK f, i : /\ NameAt(nd, f, i) /\ Above(nd, nd[d].dentries[l].ino, f)
                      /\ x = LineAt(nd, f, i)
      BY <2>1
    <3>3. e = f /\ IsDir(nd, e)
      <4>1. x.dir = e
        BY <3>1, LineAtIs
      <4>2. x.dir = f
        BY <3>2, LineAtIs
      <4> QED BY <3>1, <4>1, <4>2 DEF NameAt, IsDir
    <3>4. /\ ChildOf(nd, nd[d].dentries[k].ino, d)
          /\ ChildOf(nd, nd[d].dentries[l].ino, d)
      BY <1>6, <2>1
    <3>5. nd[d].dentries[k].ino = nd[d].dentries[l].ino
      BY <3>1, <3>2, <3>3, <3>4, AboveOnce
    <3> QED BY <2>1, <3>5, NamedChild
  <2> HIDE DEF In, n
  <2>2. \A k, l \in 1..n : \A x : x \in ToSet(subs[k]) /\ x \in ToSet(subs[l]) => k = l
    BY <2>0, <2>1
  <2>3. \A k \in 1..n : subs[k] \in Seq(Lines) /\ Unrepeating(subs[k])
    BY <2>0
  <2>4. \A x : x \in ToSet(FlattenSeq(subs)) <=> \E k \in 1..n : x \in ToSet(subs[k])
    BY <1>1, <1>7, <2>3, FlattenIs
  <2>5. FlattenSeq(subs) \in Seq(Lines) /\ Unrepeating(FlattenSeq(subs))
    BY <1>1, <1>7, <2>2, <2>3, FlattenIs
  <2> QED BY <2>0, <2>4, <2>5
<1> DEFINE hs == FlattenSeq(heads)
           ss == FlattenSeq(subs)
<1> HIDE DEF hs, ss, under
<1>10. ASSUME NEW x \in ToSet(hs) PROVE x \notin ToSet(ss)
  <2> SUFFICES ASSUME x \in ToSet(ss) PROVE FALSE
    OBVIOUS
  <2>1. PICK k : NameAt(nd, d, k) /\ x = LineAt(nd, d, k)
    BY <1>8, <1>10 DEF hs
  <2>2. PICK l, e, j : /\ Sub(l) /\ NameAt(nd, e, j)
                       /\ Above(nd, nd[d].dentries[l].ino, e) /\ x = LineAt(nd, e, j)
    BY <1>9 DEF ss
  <2>3. e = d
    <3>1. x.dir = d
      BY <2>1, LineAtIs
    <3>2. x.dir = e
      BY <2>2, LineAtIs
    <3> QED BY <3>1, <3>2
  <2>4. ChildOf(nd, nd[d].dentries[l].ino, d)
    BY <1>6, <2>2
  <2>5. d < nd[d].dentries[l].ino /\ nd[d].dentries[l].ino <= d
    BY <2>2, <2>3, <2>4, AboveOrder DEF ChildOf
  <2>6. d \in Nat /\ nd[d].dentries[l].ino \in Nat
    BY <2>4, Numbers DEF ChildOf, IsDir
  <2> QED BY <2>5, <2>6
<1>11. /\ hs \o ss \in Seq(Lines) /\ Unrepeating(hs \o ss)
       /\ \A x : x \in ToSet(hs \o ss) <=> x \in ToSet(hs) \/ x \in ToSet(ss)
  <2>1. hs \in Seq(Lines) /\ Unrepeating(hs) /\ ss \in Seq(Lines) /\ Unrepeating(ss)
    BY <1>8, <1>9 DEF hs, ss
  <2> QED BY <1>10, <2>1, ConcatIs
<1>12. Above(nd, d, d)
  BY AboveOrder, AboveSteps
<1>13. ASSUME NEW x, x \in ToSet(hs) \/ x \in ToSet(ss)
       PROVE  \E e, k : NameAt(nd, e, k) /\ Above(nd, d, e) /\ x = LineAt(nd, e, k)
  <2>1. CASE x \in ToSet(hs)
    BY <1>8, <1>12, <2>1 DEF hs
  <2>2. CASE x \in ToSet(ss)
    <3>1. PICK l, e, j : /\ Sub(l) /\ NameAt(nd, e, j)
                         /\ Above(nd, nd[d].dentries[l].ino, e) /\ x = LineAt(nd, e, j)
      BY <1>9, <2>2 DEF ss
    <3>2. ChildOf(nd, nd[d].dentries[l].ino, d)
      BY <1>6, <3>1
    <3>3. Above(nd, d, e)
      BY <3>1, <3>2 DEF Above, UpClosed, ChildOf
    <3> QED BY <3>1, <3>3
  <2> QED BY <1>13, <2>1, <2>2
<1>14. ASSUME NEW e, NEW j, NameAt(nd, e, j), Above(nd, d, e)
       PROVE  LineAt(nd, e, j) \in ToSet(hs) \/ LineAt(nd, e, j) \in ToSet(ss)
  <2>1. CASE e = d
    <3>1. j \in 1..n
      BY <1>1, <1>14, <2>1 DEF NameAt
    <3> QED BY <1>8, <1>14, <2>1, <3>1 DEF hs
  <2>2. CASE e # d
    <3>1. IsDir(nd, e)
      BY <1>14 DEF NameAt, IsDir
    <3>2. PICK c : ChildOf(nd, c, d) /\ Above(nd, c, e)
      BY <1>14, <2>2, <3>1, AboveThrough
    <3>3. PICK k : NameAt(nd, d, k) /\ nd[d].dentries[k].ino = c
      BY <3>2, NamedChild
    <3>4. k \in 1..n
      BY <1>1, <3>3 DEF NameAt
    <3>5. Sub(k)
      BY <3>2, <3>3 DEF ChildOf, IsDir
    <3> HIDE DEF Sub
    <3> QED BY <1>9, <1>14, <3>2, <3>3, <3>4, <3>5 DEF ss
  <2> QED BY <2>1, <2>2
<1>15. VisitDir(nd, p, below) = hs \o ss
  BY <1>3 DEF hs, ss
<1> QED BY <1>11, <1>13, <1>14, <1>15 DEF Shows

(* The visits of the recursion, m deep. *)
VisitOf(nd, v, m) ==
  v = [n \in 0..m |-> [q \in Path |-> IF n = 0 THEN <<Unending>> ELSE VisitDir(nd, q, v[n - 1])]]

LEMMA VisitExists ==
  ASSUME NEW nd
  PROVE  \A m \in Nat : \E v : VisitOf(nd, v, m)
<1> DEFINE S == {m \in Nat : ~ \E v : VisitOf(nd, v, m)}
<1> SUFFICES ASSUME S # {} PROVE FALSE
  OBVIOUS
<1> DEFINE m == Min(S)
<1>1. m \in S /\ \A k \in S : m <= k
  BY MinIsMember
<1>2. CASE m = 0
  <2> DEFINE v == [n \in 0..0 |-> [q \in Path |-> <<Unending>>]]
  <2>1. VisitOf(nd, v, 0)
    BY DEF VisitOf
  <2> QED BY <1>1, <1>2, <2>1
<1>3. CASE m # 0
  <2>1. m \in Nat /\ m - 1 \in Nat /\ m - 1 \notin S
    <3> HIDE DEF m
    <3> QED BY <1>1, <1>3
  <2>2. PICK v : VisitOf(nd, v, m - 1)
    BY <2>1
  <2> DEFINE last == [q \in Path |-> VisitDir(nd, q, v[m - 1])]
             w == [n \in 0..m |-> IF n = m THEN last ELSE v[n]]
             Turn(f, n) == [q \in Path |-> IF n = 0 THEN <<Unending>> ELSE VisitDir(nd, q, f[n - 1])]
  <2>3. VisitOf(nd, w, m)
    <3> HIDE DEF m
    <3>1. ASSUME NEW n \in 0..m, n # 0, n # m
          PROVE  w[n] = Turn(w, n)
      <4>1. n \in 0..(m - 1) /\ n - 1 \in 0..m /\ n - 1 # m
        BY <2>1, <3>1
      <4>2. w[n] = v[n] /\ w[n - 1] = v[n - 1]
        BY <3>1, <4>1
      <4>3. v[n] = Turn(v, n)
        BY <2>2, <4>1 DEF VisitOf
      <4> HIDE DEF w
      <4> QED BY <4>2, <4>3
    <3>2. w[m] = Turn(w, m)
      <4>1. m \in 0..m /\ m - 1 \in 0..m /\ m - 1 # m
        BY <2>1
      <4>2. w[m] = last /\ w[m - 1] = v[m - 1]
        BY <4>1
      <4> HIDE DEF w
      <4> QED BY <1>3, <4>2
    <3>3. w[0] = Turn(w, 0)
      <4>1. 0 \in 0..m /\ 0 \in 0..(m - 1) /\ 0 # m
        BY <1>3, <2>1
      <4>2. w[0] = v[0]
        BY <4>1
      <4>3. v[0] = Turn(v, 0)
        BY <2>2, <4>1 DEF VisitOf
      <4> HIDE DEF w
      <4> QED BY <4>2, <4>3
    <3>4. w = [n \in 0..m |-> w[n]]
      OBVIOUS
    <3> HIDE DEF w, Turn
    <3>5. \A n \in 0..m : w[n] = Turn(w, n)
      BY <3>1, <3>2, <3>3
    <3>6. w = [n \in 0..m |-> Turn(w, n)]
      BY <3>4, <3>5
    <3> QED BY <3>6 DEF VisitOf, Turn
  <2> QED BY <1>1, <2>3
<1> QED BY <1>2, <1>3

(* The visit of a directory ends, and shows what is in it and below it:    *)
(* each level of the recursion is at a directory of a higher number.       *)
LEMMA VisitShows ==
  ASSUME NEW nd, Shaped(nd), Planted(nd), NEW p \in Path, IsDir(nd, FindReal(nd, p))
  PROVE  Shows(nd, Visit(nd, p), FindReal(nd, p))
<1> DEFINE v == CHOOSE w : VisitOf(nd, w, MaxIno)
<1>1. MaxIno \in Nat /\ \A i \in Ino : i \in Nat /\ i <= MaxIno
  BY Numbers, IlistAssumption
<1>2. VisitOf(nd, v, MaxIno)
  BY <1>1, VisitExists
<1>3. Visit(nd, p) = v[MaxIno][p]
  BY DEF Visit, VisitOf
<1> HIDE DEF v
<1> DEFINE Good(n) == \A q \in Path :
             IsDir(nd, FindReal(nd, q)) /\ n + FindReal(nd, q) > MaxIno =>
               Shows(nd, v[n][q], FindReal(nd, q))
           R == {n \in 0..MaxIno : ~Good(n)}
<1>4. \A i : IsDir(nd, i) => i \in Nat /\ i <= MaxIno
  BY <1>1 DEF IsDir
<1>5. Good(0)
  BY <1>1, <1>4
<1>6. ASSUME NEW n \in 1..MaxIno, Good(n - 1), NEW q \in Path,
             IsDir(nd, FindReal(nd, q)), n + FindReal(nd, q) > MaxIno
      PROVE  Shows(nd, v[n][q], FindReal(nd, q))
  <2> DEFINE d == FindReal(nd, q)
             name(k) == nd[d].dentries[k].name
             ino(k) == nd[d].dentries[k].ino
             below == v[n - 1]
  <2>1. v[n][q] = VisitDir(nd, q, below)
    <3>1. n \in 0..MaxIno /\ n # 0
      OBVIOUS
    <3>2. v[n] = [r \in Path |-> VisitDir(nd, r, v[n - 1])]
      BY <1>2, <3>1 DEF VisitOf
    <3> QED BY <3>2
  <2> HIDE DEF below
  <2>2. ASSUME NEW k, NameAt(nd, d, k), nd[ino(k)].type = "dir"
        PROVE  Shows(nd, below[Below(q, name(k))], ino(k))
    <3>1. Below(q, name(k)) \in Path /\ FindReal(nd, Below(q, name(k))) = ino(k)
      BY <2>2, NameLeads
    <3>2. ChildOf(nd, ino(k), d)
      BY <2>2, NamedChild
    <3>3. IsDir(nd, ino(k)) /\ d < ino(k)
      BY <3>2, AboveOrder DEF ChildOf
    <3> HIDE DEF d, name, ino
    <3>4. d \in Nat /\ ino(k) \in Nat /\ n + d > MaxIno
      BY <1>4, <1>6, <3>3 DEF d
    <3>5. (n - 1) + ino(k) > MaxIno
      BY <1>1, <3>3, <3>4
    <3> QED BY <1>6, <3>1, <3>3, <3>5 DEF below
  <2>3. d = FindReal(nd, q) /\ IsDir(nd, d)
    BY <1>6
  <2> HIDE DEF d
  <2>4. Shows(nd, VisitDir(nd, q, below), d)
    BY <2>2, <2>3, VisitDirIs
  <2> QED BY <2>1, <2>3, <2>4
<1>7. R = {}
  <2> SUFFICES ASSUME R # {} PROVE FALSE
    OBVIOUS
  <2>1. R \in SUBSET Nat
    BY <1>1
  <2>2. PICK n \in R : \A j \in R : n <= j
    <3> HIDE DEF R
    <3> QED BY <2>1, MinIsMember
  <2>3. n \in 0..MaxIno /\ ~Good(n)
    OBVIOUS
  <2>4. n # 0
    <3> HIDE DEF Good
    <3> QED BY <1>5, <2>3
  <2>5. n \in 1..MaxIno /\ n - 1 \in 0..MaxIno /\ ~(n <= n - 1)
    BY <1>1, <2>3, <2>4
  <2>6. Good(n - 1)
    <3> HIDE DEF Good
    <3> QED BY <2>2, <2>5
  <2>7. Good(n)
    BY <1>6, <2>5, <2>6
  <2> QED BY <2>3, <2>7
<1>8. Good(MaxIno)
  <2>1. MaxIno \in 0..MaxIno
    BY <1>1
  <2> HIDE DEF Good
  <2> QED BY <1>7, <2>1
<1>9. MaxIno + FindReal(nd, p) > MaxIno
  <2>1. FindReal(nd, p) # 0
    BY ZeroIsNone DEF Planted
  <2>2. FindReal(nd, p) \in Nat
    BY <1>4
  <2> QED BY <1>1, <2>1, <2>2
<1> QED BY <1>3, <1>8, <1>9

-----------------------------------------------------------------------------
(* What the listings of a careful caller's table show. *)

LEMMA RootPath ==
  /\ <<"">> \in Path
  /\ \A nd : FindReal(nd, <<"">>) = ROOT
<1> DEFINE p == <<"">>
<1>1. p \in Seq(Segment) /\ Len(p) = 1 /\ p[1] = "" /\ p # <<>>
  BY DEF Segment
<1> HIDE DEF p
<1>2. p \in Path
  BY <1>1 DEF Path
<1>3. ASSUME NEW nd PROVE FindReal(nd, p) = ROOT
  <2>1. PICK w : Walks(nd, p, w, Len(p)) /\ FindReal(nd, p) = w[Len(p)]
    BY <1>1, FindRealWalks
  <2>2. w[0] = ROOT /\ w[1] = Go(nd, w[0], p[1])
    <3>1. 1 \in 1..1 /\ 1 - 1 = 0
      OBVIOUS
    <3>2. w[0] = ROOT /\ \A k \in 1..1 : w[k] = Go(nd, w[k - 1], p[k])
      BY <1>1, <2>1 DEF Walks
    <3> QED BY <3>1, <3>2
  <2> QED BY <1>1, <2>1, <2>2 DEF Go
<1> QED BY <1>2, <1>3 DEF p

LEMMA CInvVisitReportsAll == CInv => VisitReportsAll
<1> SUFFICES ASSUME CInv PROVE VisitReportsAll
  OBVIOUS
<1> DEFINE lines == Visit(entry, <<"">>)
           n == Len(lines)
           at(x) == LineAt(entry, x[1], x[2])
<1>1. Shaped(entry) /\ Planted(entry)
  BY CInvFacts
<1>2. IsDir(entry, ROOT)
  BY <1>1, Numbers DEF Planted, PlantedBut, IsDir
<1>3. Shows(entry, lines, ROOT)
  <2>1. <<"">> \in Path /\ FindReal(entry, <<"">>) = ROOT
    BY RootPath
  <2> QED BY <1>1, <1>2, <2>1, VisitShows
<1> HIDE DEF lines
<1>4. /\ \A x \in NamesIn(entry) : x = <<x[1], x[2]>> /\ NameAt(entry, x[1], x[2])
      /\ \A d, k : NameAt(entry, d, k) => <<d, k>> \in NamesIn(entry)
  BY <1>1, NamesInAre
<1>5. \A e, k : NameAt(entry, e, k) => Above(entry, ROOT, e)
  BY <1>1, AboveOrder DEF NameAt, IsDir
<1>6. \A l : l \in ToSet(lines) <=> \E x \in NamesIn(entry) : l = at(x)
  <2>1. \A l : l \in ToSet(lines) <=> \E e, k : NameAt(entry, e, k) /\ l = LineAt(entry, e, k)
    BY <1>3, <1>5 DEF Shows
  <2>2. \A d, k : <<d, k>>[1] = d /\ <<d, k>>[2] = k
    OBVIOUS
  <2>3. ASSUME NEW l, l \in ToSet(lines) PROVE \E x \in NamesIn(entry) : l = at(x)
    <3>1. PICK e, k : NameAt(entry, e, k) /\ l = LineAt(entry, e, k)
      BY <2>1, <2>3
    <3>2. <<e, k>> \in NamesIn(entry) /\ l = at(<<e, k>>)
      BY <1>4, <2>2, <3>1
    <3> HIDE DEF at
    <3> QED BY <3>2
  <2>4. ASSUME NEW x \in NamesIn(entry) PROVE at(x) \in ToSet(lines)
    BY <1>4, <2>1
  <2> HIDE DEF at
  <2> QED BY <2>3, <2>4
<1>7. ASSUME NEW x \in NamesIn(entry), NEW y \in NamesIn(entry), at(x) = at(y)
      PROVE  x = y
  <2>1. /\ NameAt(entry, x[1], x[2]) /\ NameAt(entry, y[1], y[2])
        /\ x = <<x[1], x[2]>> /\ y = <<y[1], y[2]>>
    BY <1>4
  <2>2. /\ at(x).dir = x[1] /\ at(x).name = entry[x[1]].dentries[x[2]].name
    BY <1>1, <2>1, LineAtIs
  <2>3. /\ at(y).dir = y[1] /\ at(y).name = entry[y[1]].dentries[y[2]].name
    BY <1>1, <2>1, LineAtIs
  <2>4. x[1] = y[1] /\ entry[x[1]].dentries[x[2]].name = entry[x[1]].dentries[y[2]].name
    <3> HIDE DEF at
    <3> QED BY <1>7, <2>2, <2>3
  <2>5. x[2] = y[2]
    BY <1>1, <2>1, <2>4, NamedChild
  <2> QED BY <2>1, <2>4, <2>5
<1>8. /\ n \in Nat /\ Unrepeating(lines)
      /\ \A l : l \in ToSet(lines) <=> \E i \in 1..n : l = lines[i]
  BY <1>3, ToSetIs DEF Shows
<1> HIDE DEF at, n
<1>9. n = Cardinality(NamesIn(entry))
  <2> DEFINE f == [i \in 1..n |-> CHOOSE x \in NamesIn(entry) : lines[i] = at(x)]
  <2>1. ASSUME NEW i \in 1..n PROVE f[i] \in NamesIn(entry) /\ lines[i] = at(f[i])
    BY <1>6, <1>8
  <2>2. f \in [1..n -> NamesIn(entry)]
    BY <2>1
  <2> HIDE DEF f
  <2>3. ASSUME NEW i \in 1..n, NEW j \in 1..n, f[i] = f[j] PROVE i = j
    <3>1. lines[i] = lines[j]
      BY <2>1, <2>3
    <3> QED BY <1>8, <3>1 DEF Unrepeating, n
  <2>4. ASSUME NEW x \in NamesIn(entry) PROVE \E i \in 1..n : f[i] = x
    <3>1. PICK i \in 1..n : at(x) = lines[i]
      BY <1>6, <1>8
    <3>2. f[i] \in NamesIn(entry) /\ at(f[i]) = at(x)
      BY <2>1, <3>1
    <3> QED BY <1>7, <3>2
  <2>5. f \in Bijection(1..n, NamesIn(entry))
    <3>1. f \in Injection(1..n, NamesIn(entry))
      BY <2>2, <2>3 DEF Injection, IsInjective
    <3>2. f \in Surjection(1..n, NamesIn(entry))
      BY <2>2, <2>4 DEF Surjection
    <3> QED BY <3>1, <3>2 DEF Bijection
  <2> QED BY <1>8, <2>5, FS_CountingElements DEF ExistsBijection
<1>10. ToSet(lines) =
         {Line(x[1], entry[x[1]].dentries[x[2]].name, entry[x[1]].dentries[x[2]].ino) :
            x \in NamesIn(entry)}
  BY <1>6 DEF at, LineAt
<1> QED BY <1>9, <1>10 DEF VisitReportsAll, lines, n

(* describe_file, on a path of ls: a line of the k-th dentry of d, or none. *)
Tells(ls, d, k) ==
  /\ ls \in Seq(Lines) /\ \A x \in ToSet(ls) : x.name = entry[d].dentries[k].name
  /\ NameAt(entry, d, k) =>
       \A x : x \in ToSet(ls) <=>
         x = LineAt(entry, d, k) /\ ~Dangling(LineAt(entry, d, k))

LEMMA DescribeIs ==
  ASSUME CInv, NEW p \in Path, NEW d, d = FindReal(entry, p), IsDir(entry, d),
         NEW k \in 1..Len(entry[d].dentries)
  PROVE  Tells(Describe(entry, d, Below(p, entry[d].dentries[k].name)), d, k)
<1> DEFINE s == entry[d].dentries[k].name
           q == Below(p, s)
           i == Lstat(entry, q)
           told == Describe(entry, d, q)
<1>1. Shaped(entry) /\ Planted(entry) /\ d \in Ino
  BY CInvFacts DEF IsDir
<1>2. s \in Segment
  BY <1>1, DentriesAre
<1>3. q \in Path /\ q \in Seq(Segment) /\ TailName(q) = s
  BY <1>2, BelowIs, PathParts
<1>4. i \in Ino
  BY <1>3, Numbers DEF Lstat
<1>5. told = IF i = 0 \/ Find(entry, q) = 0 THEN <<>> ELSE <<Line(d, s, i)>>
  BY <1>3 DEF Describe, TailName
<1> HIDE DEF s, q, i, told
<1>6. Line(d, s, i) \in Lines /\ Line(d, s, i).name = s
  BY <1>1, <1>2, <1>4 DEF Line, Lines
<1>7. /\ told \in Seq(Lines)
      /\ \A x : x \in ToSet(told) <=> ~(i = 0 \/ Find(entry, q) = 0) /\ x = Line(d, s, i)
  BY <1>5, <1>6, OneIs
<1>8. ASSUME NameAt(entry, d, k)
      PROVE  /\ Line(d, s, i) = LineAt(entry, d, k)
             /\ ~(i = 0 \/ Find(entry, q) = 0) <=> ~Dangling(LineAt(entry, d, k))
  <2> DEFINE j == entry[d].dentries[k].ino
  <2>1. i = j /\ j # 0 /\ FindReal(entry, q) = j
    BY <1>1, <1>8, NameLeads DEF s, q, i
  <2>2. LineAt(entry, d, k).file = j
    BY <1>1, <1>8, LineAtIs
  <2>3. Line(d, s, i) = LineAt(entry, d, k)
    BY <2>1 DEF LineAt, s
  <2> HIDE DEF j
  <2>4. Find(entry, q) = IF entry[j].type = "lnk" THEN FindReal(entry, entry[j].target) ELSE j
    BY <2>1 DEF Find
  <2>5. Dangling(LineAt(entry, d, k)) <=>
          entry[j].type = "lnk" /\ FindReal(entry, entry[j].target) = 0
    BY <2>2 DEF Dangling
  <2> QED BY <2>1, <2>3, <2>4, <2>5
<1>9. \A x \in ToSet(told) : x.name = s
  BY <1>6, <1>7
<1> QED BY <1>7, <1>8, <1>9 DEF Tells, s, q, told

LEMMA CInvListersAgree == CInv => ListersAgree
<1> SUFFICES ASSUME CInv, NEW p \in Paths, TypeAt(p) = "dir"
             PROVE  LET d == FindReal(entry, p)
                    IN {line \in ToSet(Ls(entry, p)) : line.name \notin {".", ".."}} =
                       {line \in ToSet(Visit(entry, p)) : line.dir = d /\ ~Dangling(line)}
  BY DEF ListersAgree
<1> DEFINE d == FindReal(entry, p)
           n == Len(entry[d].dentries)
           told(k) == Describe(entry, d, Below(p, entry[d].dentries[k].name))
           ss == [k \in 1..n |-> told(k)]
<1>1. p \in Path /\ Shaped(entry) /\ Planted(entry)
  BY NameSpaceAssumption, CInvFacts
<1>2. d \in Ino /\ d # 0 /\ entry[d].type = "dir" /\ IsDir(entry, d)
  <2>1. FindReal(entry, p) \in Ino
    BY <1>1, CInvFacts, PathParts
  <2>2. entry[FindReal(entry, p)].type = "dir"
    BY DEF TypeAt
  <2>3. entry[0].type = "none"
    BY <1>1, ZeroIsNone DEF Planted
  <2> QED BY <2>1, <2>2, <2>3 DEF IsDir
<1>3. /\ DOMAIN entry[d].dentries = 1..n /\ n \in Nat
      /\ \A k : k \in Listable(entry, d) <=> NameAt(entry, d, k)
  BY <1>1, <1>2, ListableIs
<1>4. Ls(entry, p) = FlattenSeq(ss)
  BY <1>2, <1>3 DEF Ls
<1>5. Shows(entry, Visit(entry, p), d)
  BY <1>1, <1>2, VisitShows
<1>6. \A k \in 1..n : ss[k] = told(k)
  OBVIOUS
<1>7. ss = [k \in 1..n |-> ss[k]]
  OBVIOUS
<1>8. ASSUME NEW k \in 1..n
      PROVE  /\ ss[k] \in Seq(Lines) /\ \A x \in ToSet(ss[k]) : x.name = entry[d].dentries[k].name
             /\ NameAt(entry, d, k) =>
                  \A x : x \in ToSet(ss[k]) <=>
                    x = LineAt(entry, d, k) /\ ~Dangling(LineAt(entry, d, k))
  <2>1. ss[k] = told(k)
    BY <1>6
  <2>2. d = FindReal(entry, p) /\ k \in 1..Len(entry[d].dentries)
    OBVIOUS
  <2> HIDE DEF d, n, ss
  <2>3. Tells(told(k), d, k)
    BY <1>1, <1>2, <2>2, DescribeIs
  <2> HIDE DEF told
  <2> QED BY <2>1, <2>3 DEF Tells
<1> HIDE DEF d, n, told, ss
<1>9. \A x : x \in ToSet(Ls(entry, p)) <=> \E k \in 1..n : x \in ToSet(ss[k])
  BY <1>3, <1>4, <1>7, <1>8, FlattenIs
<1>10. Above(entry, d, d)
  BY <1>1, <1>2, AboveOrder, AboveSteps
<1>11. ASSUME NEW x \in ToSet(Ls(entry, p)), x.name \notin {".", ".."}
       PROVE  x \in ToSet(Visit(entry, p)) /\ x.dir = d /\ ~Dangling(x)
  <2>1. PICK k \in 1..n : x \in ToSet(ss[k])
    BY <1>9
  <2>2. NameAt(entry, d, k)
    <3>1. entry[d].dentries[k].name \notin {".", ".."}
      BY <1>8, <1>11, <2>1
    <3> QED BY <1>3, <3>1 DEF Listable
  <2>3. x = LineAt(entry, d, k) /\ ~Dangling(x)
    BY <1>8, <2>1, <2>2
  <2>4. x.dir = d
    BY <1>1, <2>2, <2>3, LineAtIs
  <2> QED BY <1>5, <1>10, <2>2, <2>3, <2>4 DEF Shows
<1>12. ASSUME NEW x \in ToSet(Visit(entry, p)), x.dir = d, ~Dangling(x)
       PROVE  x \in ToSet(Ls(entry, p)) /\ x.name \notin {".", ".."}
  <2>1. PICK e, k : NameAt(entry, e, k) /\ x = LineAt(entry, e, k)
    BY <1>5 DEF Shows
  <2>2. e = d /\ x.name = entry[e].dentries[k].name
    BY <1>1, <1>12, <2>1, LineAtIs
  <2>3. k \in Listable(entry, d)
    BY <1>3, <2>1, <2>2
  <2>4. k \in 1..n /\ entry[d].dentries[k].name \notin {".", ".."}
    BY <1>3, <2>3 DEF Listable
  <2>5. x \in ToSet(ss[k])
    BY <1>8, <1>12, <2>1, <2>2, <2>4
  <2> QED BY <1>9, <2>2, <2>4, <2>5
<1> QED BY <1>11, <1>12 DEF d

(* lslr of the root shows every name of the tree, once and with its file,  *)
(* however deep and wide the tree: the recursion of visit ends, no path it *)
(* builds is lost, and no directory is left out or listed again.           *)
THEOREM VisitReportsAllHolds == CarefulSpec => []VisitReportsAll
BY CarefulInvariance, CInvVisitReportsAll, PTL

(* ls of a directory and lslr show the same names with the same files, but *)
(* for the links that lead nowhere, which describe_file leaves out.        *)
THEOREM ListersAgreeHolds == CarefulSpec => []ListersAgree
BY CarefulInvariance, CInvListersAgree, PTL

(* lslr of any directory, by any path to it, shows every name in it and    *)
(* below it once, with its file, and no name from elsewhere.               *)
THEOREM SubtreeListed ==
  CarefulSpec => [](\A p \in Path : IsDir(entry, FindReal(entry, p)) =>
                      Shows(entry, Visit(entry, p), FindReal(entry, p)))
<1>1. CInv => \A p \in Path : IsDir(entry, FindReal(entry, p)) =>
                Shows(entry, Visit(entry, p), FindReal(entry, p))
  BY CInvFacts, VisitShows
<1> QED BY <1>1, CarefulInvariance, PTL
=============================================================================
