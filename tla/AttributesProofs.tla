--------------------------- MODULE AttributesProofs ---------------------------
(***************************************************************************)
(* Proofs about Attributes, for every set of paths, files, links and       *)
(* permissions: the types, what a missing path gives, the reach of the     *)
(* calls that follow links, and what a list of attributes holds.           *)
(***************************************************************************)
EXTENDS Attributes, SequenceTheorems, WellFoundedInduction, TLAPS

Meta == [type: Type, bits: SUBSET Perm, owner: Owner, times: Times]
Attributes0 == UNION {[names -> ValueLen] : names \in SUBSET Attr}

(* The number 0 has neither a mode nor attributes. *)
Zeroed == meta[0].type = "none" /\ meta[0].bits = {} /\ xattr[0] = NoAttributes

IInv ==
  /\ meta \in [Ino -> Meta]
  /\ xattr \in [Ino -> Attributes0]
  /\ phantom \in BOOLEAN
  /\ Zeroed

USE AttributesAssumption

LEMMA WithBitsInType ==
  ASSUME NEW t \in Type, NEW u \in Type
  PROVE  WithBits(t, u) \in Type
BY DEF WithBits, Type

(* A walk ends at a file or at 0. *)
LEMMA FindInRange ==
  ASSUME IInv, NEW p \in Path
  PROVE  Find(p) \in Ino /\ FileAt[p] \in Ino
<1>1. FileAt[p] \in Ino BY DEF Ino, File
<1>2. \A j \in File : LinkTo[j] \in Path /\ FileAt[LinkTo[j]] \in Ino BY DEF Ino, File
<1>3. meta[FileAt[p]].type = "lnk" => FileAt[p] \in File
  BY <1>1 DEF IInv, Zeroed, Ino
<1> QED BY <1>1, <1>2, <1>3 DEF Find

(* Setting and removing an attribute keep a file's attributes a function   *)
(* from names to lengths.                                                  *)
LEMMA WithInRange ==
  ASSUME NEW x \in Attributes0, NEW n \in Attr, NEW len \in ValueLen
  PROVE  With(x, n, len) \in Attributes0 /\ Without(x, n) \in Attributes0
<1>1. PICK names \in SUBSET Attr : x \in [names -> ValueLen] BY DEF Attributes0
<1>2. With(x, n, len) \in [names \cup {n} -> ValueLen] BY <1>1 DEF With
<1>3. Without(x, n) \in [names \ {n} -> ValueLen] BY <1>1 DEF Without
<1>4. names \cup {n} \in SUBSET Attr /\ names \ {n} \in SUBSET Attr OBVIOUS
<1> QED BY <1>2, <1>3, <1>4 DEF Attributes0

LEMMA InitIInv == Init => IInv
<1> SUFFICES ASSUME Init PROVE IInv OBVIOUS
<1>1. FirstOwner \in Owner /\ FirstTimes \in Times BY DEF FirstOwner, FirstTimes
<1>2. \A t \in Type : Made(t) \in Meta BY <1>1 DEF Made, Meta
<1>3. "none" \in Type BY DEF Type
<1>4. meta \in [Ino -> Meta] BY <1>2, <1>3 DEF Init, Ino, File
<1>5. NoAttributes \in [{} -> ValueLen] BY DEF NoAttributes
<1>6. NoAttributes \in Attributes0 BY <1>5 DEF Attributes0
<1>7. meta[0] = Made("none") /\ xattr[0] = NoAttributes BY DEF Init, Ino
<1>8. Zeroed BY <1>7 DEF Zeroed, Made
<1> QED BY <1>4, <1>6, <1>8 DEF IInv, Init

(* A call that sets metadata of the file its path leads to, or none. *)
LEMMA MetaStep ==
  ASSUME IInv, NEW i \in Ino, NEW m \in Meta,
         meta' = IF i = 0 THEN meta ELSE [meta EXCEPT ![i] = m],
         UNCHANGED xattr, phantom' \in BOOLEAN
  PROVE  IInv'
BY DEF IInv, Zeroed, Ino, File

(* A call that sets the attributes of one file, or of none. *)
LEMMA AttributeStep ==
  ASSUME IInv, NEW i \in Ino, NEW x \in Attributes0,
         xattr' = IF i = 0 THEN xattr ELSE [xattr EXCEPT ![i] = x],
         UNCHANGED meta, phantom' \in BOOLEAN
  PROVE  IInv'
BY DEF IInv, Zeroed, Ino, File

LEMMA NextIInv == IInv /\ [Next]_vars => IInv'
<1> SUFFICES ASSUME IInv, [Next]_vars PROVE IInv' OBVIOUS
<1>0. phantom \in BOOLEAN /\ (\A p \in Path : PhantomAfterFind(p) \in BOOLEAN)
  BY DEF IInv, PhantomAfterFind
<1>1. CASE UNCHANGED vars BY <1>1 DEF vars, IInv, Zeroed
<1>2. CASE Next
  <2> PICK p \in Path :
        \/ Ask(p)
        \/ \E mode \in Modes, bits \in SUBSET Perm : Chmod(p, mode, bits)
        \/ \E owner \in Owner : Chown(p, owner)
        \/ \E times \in Times : Utime(p, times)
        \/ \E n \in Attr : \/ \E len \in ValueLen : Lsetxattr(p, n, len)
                           \/ Lremovexattr(p, n)
    BY <1>2 DEF Next
  <2> DEFINE i == Find(p)
  <2>0. i \in Ino /\ FileAt[p] \in Ino BY FindInRange
  <2>m. meta[i] \in Meta BY <2>0 DEF IInv
  <2>1. CASE Ask(p) BY <2>1, <1>0 DEF Ask, IInv, Zeroed
  <2>2. ASSUME NEW mode \in Modes, NEW bits \in SUBSET Perm, Chmod(p, mode, bits)
        PROVE  IInv'
    <3> DEFINE m == [meta[i] EXCEPT !.type = Chmoded(@, mode), !.bits = bits]
    <3>0. mode \in Type OBVIOUS
    <3>t. Chmoded(meta[i].type, mode) \in Type BY <3>0, WithBitsInType DEF Chmoded, Type
    <3>1. m \in Meta BY <2>m, <3>t DEF Meta
    <3>2. meta' = IF i = 0 THEN meta ELSE [meta EXCEPT ![i] = m]
      BY <2>2, <2>0, <2>m DEF Chmod, IInv, Meta
    <3>3. UNCHANGED xattr /\ phantom' \in BOOLEAN BY <2>2, <1>0 DEF Chmod
    <3> HIDE DEF i, m
    <3> QED BY <2>0, <3>1, <3>2, <3>3, MetaStep
  <2>3. ASSUME NEW owner \in Owner, Chown(p, owner) PROVE IInv'
    <3> DEFINE m == [meta[i] EXCEPT !.owner = owner]
    <3>1. m \in Meta BY <2>m DEF Meta
    <3>2. meta' = IF i = 0 THEN meta ELSE [meta EXCEPT ![i] = m]
      BY <2>3, <2>0, <2>m DEF Chown, IInv, Meta
    <3>3. UNCHANGED xattr /\ phantom' \in BOOLEAN BY <2>3, <1>0 DEF Chown
    <3> HIDE DEF i, m
    <3> QED BY <2>0, <3>1, <3>2, <3>3, MetaStep
  <2>4. ASSUME NEW times \in Times, Utime(p, times) PROVE IInv'
    <3> DEFINE m == [meta[i] EXCEPT !.times = times]
    <3>1. m \in Meta BY <2>m DEF Meta
    <3>2. meta' = IF i = 0 THEN meta ELSE [meta EXCEPT ![i] = m]
      BY <2>4, <2>0, <2>m DEF Utime, IInv, Meta
    <3>3. UNCHANGED xattr /\ phantom' \in BOOLEAN BY <2>4, <1>0 DEF Utime
    <3> HIDE DEF i, m
    <3> QED BY <2>0, <3>1, <3>2, <3>3, MetaStep
  <2>5. ASSUME NEW n \in Attr, NEW len \in ValueLen, Lsetxattr(p, n, len) PROVE IInv'
    <3> DEFINE x == With(xattr[FileAt[p]], n, len)
    <3>1. x \in Attributes0 BY <2>0, WithInRange DEF IInv
    <3>2. UNCHANGED <<meta, phantom>> BY <2>5 DEF Lsetxattr
    <3>3. CASE FileAt[p] = 0 \/ Has(FileAt[p], n)
      BY <2>5, <3>2, <3>3 DEF Lsetxattr, IInv, Zeroed
    <3>4. CASE ~(FileAt[p] = 0 \/ Has(FileAt[p], n))
      <4>1. xattr' = IF FileAt[p] = 0 THEN xattr ELSE [xattr EXCEPT ![FileAt[p]] = x]
        BY <2>5, <3>4 DEF Lsetxattr
      <4> HIDE DEF x
      <4> QED BY <2>0, <3>1, <3>2, <4>1, <1>0, AttributeStep
    <3> QED BY <3>3, <3>4
  <2>6. ASSUME NEW n \in Attr, Lremovexattr(p, n) PROVE IInv'
    <3> DEFINE x == Without(xattr[i], n)
    <3>1. PICK names \in SUBSET Attr : xattr[i] \in [names -> ValueLen]
      BY <2>0 DEF IInv, Attributes0
    <3>2. x \in [names \ {n} -> ValueLen] BY <3>1 DEF Without
    <3>3. x \in Attributes0 BY <3>2 DEF Attributes0
    <3>4. xattr' = IF i = 0 THEN xattr ELSE [xattr EXCEPT ![i] = x]
      BY <2>6 DEF Lremovexattr
    <3>5. UNCHANGED meta /\ phantom' \in BOOLEAN BY <2>6, <1>0 DEF Lremovexattr
    <3> HIDE DEF i, x
    <3> QED BY <2>0, <3>3, <3>4, <3>5, AttributeStep
  <2> QED BY <2>1, <2>2, <2>3, <2>4, <2>5, <2>6
<1> QED BY <1>1, <1>2

(* The inductive invariant holds in every state. *)
THEOREM Invariance == Spec => []IInv
BY InitIInv, NextIInv, PTL DEF Spec

(* What is known of files keeps its type, and number 0 never gets an       *)
(* attribute, under any calls.                                             *)
THEOREM TypeCorrect == Spec => []TypeOK
<1>1. IInv => TypeOK BY DEF IInv, TypeOK, Meta, Attributes0, Zeroed
<1> QED BY <1>1, Invariance, PTL

(* my_access and my_statvfs of a path without a file: no mask but the      *)
(* empty one is granted, whether or not operator[] has made a File of      *)
(* number 0.                                                               *)
THEOREM MissingGrantsNoPermissionHolds == Spec => []MissingGrantsNoPermission
<1>1. IInv => MissingGrantsNoPermission
  BY DEF IInv, Zeroed, MissingGrantsNoPermission, Grants, StatvfsFiles, Lgetxattr
<1> QED BY <1>1, Invariance, PTL

(* find_ino, at the end of a path, never stops at a link that no link      *)
(* leads to.                                                               *)
LEMMA FindElsewhere ==
  ASSUME IInv, NEW p \in Path, NEW i \in File, meta[i].type = "lnk",
         \A j \in File : meta[j].type = "lnk" => FileAt[LinkTo[j]] # i
  PROVE  Find(p) # i
<1>1. CASE meta[FileAt[p]].type = "lnk"
  <2>1. FileAt[p] \in File BY <1>1 DEF IInv, Zeroed, File
  <2> QED BY <1>1, <2>1 DEF Find
<1>2. CASE meta[FileAt[p]].type # "lnk"
  BY <1>2 DEF Find
<1> QED BY <1>1, <1>2

(* A link nothing leads to keeps its metadata: chmod, chown and utime act  *)
(* elsewhere.                                                              *)
THEOREM LinkOutOfReachHolds == Spec => LinkOutOfReach
<1>1. ASSUME IInv, Next, NEW i \in File, meta[i].type = "lnk",
             \A j \in File : meta[j].type = "lnk" => FileAt[LinkTo[j]] # i
      PROVE  meta'[i] = meta[i]
  <2> PICK p \in Path :
        \/ Ask(p)
        \/ \E mode \in Modes, bits \in SUBSET Perm : Chmod(p, mode, bits)
        \/ \E owner \in Owner : Chown(p, owner)
        \/ \E times \in Times : Utime(p, times)
        \/ \E n \in Attr : \/ \E len \in ValueLen : Lsetxattr(p, n, len)
                           \/ Lremovexattr(p, n)
    BY <1>1 DEF Next
  <2>0. Find(p) # i BY <1>1, FindElsewhere
  <2>t. i \in Ino /\ meta \in [Ino -> Meta] BY <1>1 DEF IInv, Ino
  <2>1. CASE Ask(p) BY <2>1 DEF Ask
  <2>2. ASSUME NEW mode \in Modes, NEW bits \in SUBSET Perm, Chmod(p, mode, bits)
        PROVE  meta'[i] = meta[i]
    BY <2>2, <2>0, <2>t DEF Chmod
  <2>3. ASSUME NEW owner \in Owner, Chown(p, owner) PROVE meta'[i] = meta[i]
    BY <2>3, <2>0, <2>t DEF Chown
  <2>4. ASSUME NEW times \in Times, Utime(p, times) PROVE meta'[i] = meta[i]
    BY <2>4, <2>0, <2>t DEF Utime
  <2>5. ASSUME NEW n \in Attr, NEW len \in ValueLen, Lsetxattr(p, n, len)
        PROVE  meta'[i] = meta[i]
    BY <2>5 DEF Lsetxattr
  <2>6. ASSUME NEW n \in Attr, Lremovexattr(p, n) PROVE meta'[i] = meta[i]
    BY <2>6 DEF Lremovexattr
  <2> QED BY <2>1, <2>2, <2>3, <2>4, <2>5, <2>6
<1>2. IInv /\ [Next]_vars =>
        [\A i \in File :
           /\ meta[i].type = "lnk"
           /\ \A j \in File : meta[j].type = "lnk" => FileAt[LinkTo[j]] # i
           => meta'[i] = meta[i]]_vars
  BY <1>1
<1> QED BY <1>2, Invariance, PTL DEF Spec, LinkOutOfReach

-----------------------------------------------------------------------------
(* my_llistxattr.  Its loop is a function on the numbers of turns; what is *)
(* said of every turn is said of the least for which it would not hold.    *)
LEMMA MinIsMember ==
  ASSUME NEW S \in SUBSET Nat, S # {}
  PROVE  Min(S) \in S /\ \A x \in S : Min(S) <= x
<1> DEFINE Less == {ss \in Nat \X Nat : ss[1] < ss[2]}
<1>1. IsWellFoundedOn(Less, Nat)
  BY NatLessThanWellFounded DEF OpToRel
<1>2. PICK x \in S : \A y \in S : ~ (<<y, x>> \in Less)
  <2> HIDE DEF Less
  <2> QED BY <1>1, WFMin
<1>3. ASSUME NEW y \in S PROVE x <= y
  <2>1. x \in Nat /\ y \in Nat
    OBVIOUS
  <2>2. ~ (y < x)
    BY <1>2, <2>1
  <2> QED
    BY <2>1, <2>2
<1> QED
  BY <1>3 DEF Min

N == Len(NameLen)

LEMMA NIsNat == N \in Nat /\ Attr = 1..N /\ \A n \in 1..N : NameLen[n] \in Nat \ {0}
BY LenProperties, ElementOfSeq DEF N, Attr

(* Two functions that are defined turn by turn: the bytes up to each name, *)
(* and what the loop has.                                                  *)
SumOf(names, f, m) ==
  f = [k \in 0..m |-> IF k = 0 THEN 0
                      ELSE f[k - 1] + (IF k \in names THEN NameLen[k] + 1 ELSE 0)]

Begun == [listed |-> {}, pos |-> 0, broken |-> FALSE]

LoopOf(x, size, f, m) ==
  f = [n \in 0..m |-> IF n = 0 THEN Begun ELSE ListName(x, size, f[n - 1], n)]

LEMMA SumExists ==
  ASSUME NEW names
  PROVE  \A m \in Nat : \E f : SumOf(names, f, m)
<1> DEFINE S == {m \in Nat : ~ \E f : SumOf(names, f, m)}
<1> SUFFICES ASSUME S # {} PROVE FALSE
  OBVIOUS
<1> DEFINE m == Min(S)
<1>1. m \in S /\ \A k \in S : m <= k
  BY MinIsMember
<1>2. CASE m = 0
  <2> DEFINE f == [k \in 0..0 |-> 0]
  <2>1. SumOf(names, f, 0)
    BY DEF SumOf
  <2> QED BY <1>1, <1>2, <2>1
<1>3. CASE m # 0
  <2>1. m \in Nat /\ m - 1 \in Nat /\ m - 1 \notin S
    <3> HIDE DEF m
    <3> QED BY <1>1, <1>3
  <2>2. PICK f : SumOf(names, f, m - 1)
    BY <2>1
  <2> DEFINE last == f[m - 1] + (IF m \in names THEN NameLen[m] + 1 ELSE 0)
             h == [k \in 0..m |-> IF k = m THEN last ELSE f[k]]
  <2>3. SumOf(names, h, m)
    <3> HIDE DEF m
    <3>1. ASSUME NEW k \in 0..m, k # 0, k # m
          PROVE  h[k] = h[k - 1] + (IF k \in names THEN NameLen[k] + 1 ELSE 0)
      <4>1. k \in 0..(m - 1) /\ k - 1 \in 0..m /\ k - 1 # m
        BY <2>1, <3>1
      <4>2. h[k] = f[k] /\ h[k - 1] = f[k - 1]
        BY <3>1, <4>1
      <4>3. f[k] = f[k - 1] + (IF k \in names THEN NameLen[k] + 1 ELSE 0)
        BY <2>2, <3>1, <4>1 DEF SumOf
      <4> QED BY <4>2, <4>3
    <3>2. h[m] = last /\ h[m - 1] = f[m - 1]
      BY <1>3, <2>1
    <3>3. h[0] = 0
      BY <1>3, <2>1, <2>2 DEF SumOf
    <3> HIDE DEF last
    <3>4. h = [k \in 0..m |-> h[k]]
      OBVIOUS
    <3> HIDE DEF h
    <3>5. \A k \in 0..m : h[k] = IF k = 0 THEN 0
                                 ELSE h[k - 1] + (IF k \in names THEN NameLen[k] + 1 ELSE 0)
      BY <3>1, <3>2, <3>3 DEF last
    <3> QED BY <3>4, <3>5 DEF SumOf
  <2> QED BY <1>1, <2>3
<1> QED BY <1>2, <1>3

LEMMA LoopExists ==
  ASSUME NEW x, NEW size
  PROVE  \A m \in Nat : \E f : LoopOf(x, size, f, m)
<1> DEFINE S == {m \in Nat : ~ \E f : LoopOf(x, size, f, m)}
<1> SUFFICES ASSUME S # {} PROVE FALSE
  OBVIOUS
<1> DEFINE m == Min(S)
<1>1. m \in S /\ \A k \in S : m <= k
  BY MinIsMember
<1>2. CASE m = 0
  <2> DEFINE f == [n \in 0..0 |-> Begun]
  <2>1. LoopOf(x, size, f, 0)
    BY DEF LoopOf
  <2> QED BY <1>1, <1>2, <2>1
<1>3. CASE m # 0
  <2>1. m \in Nat /\ m - 1 \in Nat /\ m - 1 \notin S
    <3> HIDE DEF m
    <3> QED BY <1>1, <1>3
  <2>2. PICK f : LoopOf(x, size, f, m - 1)
    BY <2>1
  <2> DEFINE last == ListName(x, size, f[m - 1], m)
             h == [n \in 0..m |-> IF n = m THEN last ELSE f[n]]
  <2>3. LoopOf(x, size, h, m)
    <3> HIDE DEF m
    <3>1. ASSUME NEW n \in 0..m, n # 0, n # m
          PROVE  h[n] = ListName(x, size, h[n - 1], n)
      <4>1. n \in 0..(m - 1) /\ n - 1 \in 0..m /\ n - 1 # m
        BY <2>1, <3>1
      <4>2. h[n] = f[n] /\ h[n - 1] = f[n - 1]
        BY <3>1, <4>1
      <4>3. f[n] = ListName(x, size, f[n - 1], n)
        BY <2>2, <3>1, <4>1 DEF LoopOf
      <4> QED BY <4>2, <4>3
    <3>2. h[m] = last /\ h[m - 1] = f[m - 1]
      BY <1>3, <2>1
    <3>3. h[0] = Begun
      BY <1>3, <2>1, <2>2 DEF LoopOf
    <3> HIDE DEF last
    <3>4. h = [n \in 0..m |-> h[n]]
      OBVIOUS
    <3> HIDE DEF h
    <3>5. \A n \in 0..m : h[n] = IF n = 0 THEN Begun ELSE ListName(x, size, h[n - 1], n)
      BY <3>1, <3>2, <3>3 DEF last
    <3> QED BY <3>4, <3>5 DEF LoopOf
  <2> QED BY <1>1, <2>3
<1> QED BY <1>2, <1>3


(* The bytes grow with every name there is, and only with one.             *)
Grows(b, names) ==
  /\ b[0] = 0 /\ \A k \in 0..N : b[k] \in Nat
  /\ \A k \in 1..N : IF k \in names THEN b[k] > b[k - 1] ELSE b[k] = b[k - 1]
  /\ \A k \in 1..N : k \in names => b[k] = b[k - 1] + NameLen[k] + 1

LEMMA BytesGrow ==
  ASSUME NEW names
  PROVE  Grows(BytesTo(names), names)
<1> DEFINE b == CHOOSE f : SumOf(names, f, N)
<1>1. N \in Nat /\ \A n \in 1..N : NameLen[n] \in Nat \ {0}
  BY NIsNat
<1>2. SumOf(names, b, N)
  BY <1>1, SumExists
<1>3. BytesTo(names) = b
  BY DEF BytesTo, SumOf, N
<1> HIDE DEF b
<1>4. b[0] = 0
  BY <1>1, <1>2 DEF SumOf
<1>5. ASSUME NEW k \in 1..N
      PROVE  b[k] = b[k - 1] + (IF k \in names THEN NameLen[k] + 1 ELSE 0)
  BY <1>1, <1>2 DEF SumOf
<1>6. \A k \in 0..N : b[k] \in Nat
  <2> DEFINE S == {k \in Nat : k <= N /\ b[k] \notin Nat}
  <2> SUFFICES ASSUME S # {} PROVE FALSE
    BY <1>1
  <2> DEFINE m == Min(S)
  <2>1. S \in SUBSET Nat
    OBVIOUS
  <2>2. m \in S /\ \A k \in S : m <= k
    <3> HIDE DEF S
    <3> QED BY <2>1, MinIsMember
  <2> HIDE DEF m
  <2>3. m # 0 /\ m \in 1..N /\ m - 1 \in Nat /\ m - 1 <= N
    BY <1>1, <1>4, <2>2
  <2>4. b[m - 1] \in Nat
    <3>1. m - 1 \notin S
      <4> HIDE DEF S
      <4> QED BY <2>2, <2>3
    <3> QED BY <2>3, <3>1
  <2>5. b[m] \in Nat
    <3>1. PICK a \in Nat : a = IF m \in names THEN NameLen[m] + 1 ELSE 0
      BY <1>1, <2>3
    <3>2. b[m] = b[m - 1] + a
      BY <1>5, <2>3, <3>1
    <3> QED BY <2>4, <3>2
  <2> QED BY <2>2, <2>5
<1>7. ASSUME NEW k \in 1..N
      PROVE  /\ IF k \in names THEN b[k] > b[k - 1] ELSE b[k] = b[k - 1]
             /\ k \in names => b[k] = b[k - 1] + NameLen[k] + 1
  <2>1. b[k] \in Nat /\ b[k - 1] \in Nat /\ NameLen[k] \in Nat
    BY <1>1, <1>6
  <2>2. b[k] = b[k - 1] + (IF k \in names THEN NameLen[k] + 1 ELSE 0)
    BY <1>5
  <2>3. CASE k \in names
    <3>1. b[k] = b[k - 1] + (NameLen[k] + 1)
      BY <2>2, <2>3
    <3>2. PICK v \in Nat : v = b[k - 1]
      BY <2>1
    <3>3. PICK l \in Nat : l = NameLen[k]
      BY <2>1
    <3>4. v + (l + 1) = v + l + 1 /\ v + (l + 1) > v
      OBVIOUS
    <3>5. b[k] = v + (l + 1)
      BY <3>1, <3>2, <3>3
    <3>6. b[k] = v + l + 1 /\ b[k] > v
      BY <3>4, <3>5
    <3> QED BY <2>3, <3>2, <3>3, <3>6
  <2>4. CASE k \notin names
    <3>1. b[k] = b[k - 1] + 0
      BY <2>2, <2>4
    <3> QED BY <2>1, <2>4, <3>1
  <2> QED BY <2>3, <2>4
<1> QED BY <1>3, <1>4, <1>6, <1>7 DEF Grows

LEMMA BytesMonotone ==
  ASSUME NEW b, NEW names, Grows(b, names), NEW j \in 0..N
  PROVE  \A k \in j..N : b[j] <= b[k]
<1>1. N \in Nat /\ j \in Nat /\ b[j] \in Nat
  BY NIsNat DEF Grows
<1> DEFINE S == {k \in Nat : j <= k /\ k <= N /\ ~ (b[j] <= b[k])}
<1> SUFFICES ASSUME S # {} PROVE FALSE
  BY <1>1
<1> DEFINE m == Min(S)
<1>2. S \in SUBSET Nat
  OBVIOUS
<1>3. m \in S /\ \A k \in S : m <= k
  <2> HIDE DEF S
  <2> QED BY <1>2, MinIsMember
<1> HIDE DEF m
<1>4. m # j /\ m \in 1..N /\ m - 1 \in Nat /\ m - 1 <= N /\ j <= m - 1
  BY <1>1, <1>3
<1>5. b[j] <= b[m - 1]
  <2>1. m - 1 \notin S
    <3> HIDE DEF S
    <3> QED BY <1>3, <1>4
  <2> QED BY <1>4, <2>1
<1>6. b[m - 1] \in Nat /\ b[m] \in Nat /\ b[m - 1] <= b[m]
  <2>1. m \in 0..N /\ m - 1 \in 0..N
    BY <1>4
  <2>2. b[m - 1] \in Nat /\ b[m] \in Nat
    BY <2>1 DEF Grows
  <2>3. b[m] > b[m - 1] \/ b[m] = b[m - 1]
    BY <1>4 DEF Grows
  <2> QED BY <2>2, <2>3
<1>7. b[j] <= b[m]
  BY <1>1, <1>5, <1>6
<1> QED BY <1>3, <1>7

(* What the loop has after n turns: the names up to the last it has looked *)
(* at, or up to the one before a name that did not fit.                    *)
Upto(has, b, size, s, last) ==
  /\ s.listed = {k \in has : k <= last} /\ s.pos = b[last]
  /\ b[last] = 0 \/ b[last] < size

Filled(has, b, size, s, n) ==
  \E last \in 0..n :
    /\ Upto(has, b, size, s, last)
    /\ ~s.broken => last = n
    /\ s.broken => last + 1 \in has /\ last + 1 \in 1..n /\ ~ (b[last + 1] < size)

LEMMA TurnFills ==
  ASSUME NEW has \in SUBSET Attr, NEW x, DOMAIN x = has, NEW b, Grows(b, has), NEW size \in Nat, NEW s,
         s \in [listed: SUBSET Attr, pos: Nat, broken: BOOLEAN],
         NEW n \in 0..(N - 1), Filled(has, b, size, s, n)
  PROVE  /\ Filled(has, b, size, ListName(x, size, s, n + 1), n + 1)
         /\ ListName(x, size, s, n + 1) \in [listed: SUBSET Attr, pos: Nat, broken: BOOLEAN]
<1> DEFINE Rec == [listed: SUBSET Attr, pos: Nat, broken: BOOLEAN]
           k == n + 1
           c == s.pos + NameLen[k] + 1
<1>1. /\ N \in Nat /\ n \in Nat /\ k \in 1..N /\ k - 1 = n /\ n \in 0..N /\ k \in Attr
      /\ NameLen[k] \in Nat /\ Attr = 1..N /\ 1..N \subseteq Nat
  BY NIsNat
<1>2. s.listed \in SUBSET Attr /\ s.pos \in Nat /\ s.broken \in BOOLEAN
  OBVIOUS
<1> HIDE DEF k
<1>3. PICK last \in 0..n :
        /\ Upto(has, b, size, s, last)
        /\ ~s.broken => last = n
        /\ s.broken => last + 1 \in has /\ last + 1 \in 1..n /\ ~ (b[last + 1] < size)
  BY DEF Filled
<1>4. \A j \in 0..n : j \in 0..k
  BY <1>1 DEF k
<1>4a. \A j \in has : j <= k <=> j <= n \/ j = k
  <2>1. \A j \in Nat : j <= k <=> j <= n \/ j = k
    BY <1>1 DEF k
  <2> QED BY <1>1, <2>1
<1>5. CASE s.broken
  <2>1. ListName(x, size, s, k) = s
    BY <1>5 DEF ListName
  <2>2. last \in 0..k /\ last + 1 \in 1..k
    BY <1>1, <1>3, <1>5 DEF k
  <2>3. Filled(has, b, size, s, k)
    BY <1>3, <1>5, <2>2 DEF Filled
  <2> QED BY <2>1, <2>3 DEF k
<1>6. CASE ~s.broken /\ k \notin has
  <2>1. ListName(x, size, s, k) = s
    BY <1>6 DEF ListName
  <2>2. b[k] = b[n] /\ last = n
    BY <1>1, <1>3, <1>6 DEF Grows
  <2>3. {j \in has : j <= k} = {j \in has : j <= n}
    BY <1>6, <1>4a
  <2>4. Upto(has, b, size, s, k)
    BY <1>3, <2>2, <2>3 DEF Upto
  <2>5. k \in 0..k
    BY <1>1
  <2>6. Filled(has, b, size, s, k)
    BY <1>6, <2>4, <2>5 DEF Filled
  <2> QED BY <2>1, <2>6 DEF k
<1>7. CASE ~s.broken /\ k \in has
  <2>1. last = n /\ s.pos = b[n] /\ s.listed = {j \in has : j <= n}
    BY <1>3, <1>7 DEF Upto
  <2>2. b[k] = c /\ c \in Nat
    BY <1>1, <1>2, <1>7, <2>1 DEF Grows
  <2> HIDE DEF c
  <2>3. CASE c < size
    <3> DEFINE r == [s EXCEPT !.listed = @ \cup {k}, !.pos = c]
    <3>1. ListName(x, size, s, k) = r
      BY <1>7, <2>3 DEF ListName, c
    <3>2. r \in Rec /\ r.listed = s.listed \cup {k} /\ r.pos = c /\ r.broken = s.broken
      BY <1>1, <1>2, <2>2
    <3> HIDE DEF r
    <3>3. s.listed \cup {k} = {j \in has : j <= k}
      BY <1>7, <1>4a, <2>1
    <3>4. Upto(has, b, size, r, k)
      BY <2>2, <2>3, <3>2, <3>3 DEF Upto
    <3>5. k \in 0..k
      BY <1>1
    <3>6. Filled(has, b, size, r, k)
      BY <1>7, <3>2, <3>4, <3>5 DEF Filled
    <3> QED BY <3>1, <3>2, <3>6 DEF k
  <2>4. CASE ~(c < size)
    <3> DEFINE r == [s EXCEPT !.broken = TRUE]
    <3>1. ListName(x, size, s, k) = r
      BY <1>7, <2>4 DEF ListName, c
    <3>2. r \in Rec /\ r.listed = s.listed /\ r.pos = s.pos /\ r.broken
      BY <1>2
    <3> HIDE DEF r
    <3>3. Upto(has, b, size, r, n)
      BY <1>3, <2>1, <3>2 DEF Upto
    <3>4. n + 1 \in has /\ n + 1 \in 1..k /\ ~ (b[n + 1] < size) /\ n \in 0..k
      BY <1>1, <1>7, <2>2, <2>4 DEF k
    <3>5. Filled(has, b, size, r, k)
      BY <3>2, <3>3, <3>4 DEF Filled
    <3> QED BY <3>1, <3>2, <3>5 DEF k
  <2> QED BY <2>3, <2>4
<1> QED BY <1>5, <1>6, <1>7

LEMMA LoopFills ==
  ASSUME NEW has \in SUBSET Attr, NEW x, DOMAIN x = has, NEW b, Grows(b, has),
         NEW size \in Nat, NEW f, LoopOf(x, size, f, N)
  PROVE  Filled(has, b, size, f[N], N)
<1> DEFINE Rec == [listed: SUBSET Attr, pos: Nat, broken: BOOLEAN]
           S == {n \in Nat : n <= N /\ ~ (Filled(has, b, size, f[n], n) /\ f[n] \in Rec)}
<1>1. N \in Nat /\ Attr \subseteq Nat /\ Attr = 1..N
  BY NIsNat
<1>2. f[0] = Begun /\ \A n \in 1..N : f[n] = ListName(x, size, f[n - 1], n)
  BY <1>1 DEF LoopOf
<1> SUFFICES ASSUME S # {} PROVE FALSE
  BY <1>1
<1> DEFINE m == Min(S)
<1>3. S \in SUBSET Nat
  OBVIOUS
<1>4. m \in S /\ \A k \in S : m <= k
  <2> HIDE DEF S
  <2> QED BY <1>3, MinIsMember
<1> HIDE DEF m
<1>5. CASE m = 0
  <2>1. Begun \in Rec /\ Begun.listed = {} /\ Begun.pos = 0 /\ ~Begun.broken
    BY DEF Begun
  <2>2. b[0] = 0 /\ {k \in has : k <= 0} = {}
    BY <1>1 DEF Grows
  <2>3. Upto(has, b, size, Begun, 0)
    BY <2>1, <2>2 DEF Upto
  <2>4. 0 \in 0..0
    OBVIOUS
  <2>5. Filled(has, b, size, Begun, 0)
    BY <2>1, <2>3, <2>4 DEF Filled
  <2> QED BY <1>2, <1>4, <1>5, <2>1, <2>5
<1>6. CASE m # 0
  <2>1. m \in 1..N /\ m - 1 \in 0..(N - 1) /\ m - 1 \in Nat /\ m - 1 <= N
    BY <1>1, <1>4, <1>6
  <2>2. m - 1 \notin S
    <3> HIDE DEF S
    <3> QED BY <1>4, <2>1
  <2>3. PICK n \in 0..(N - 1) : n = m - 1
    BY <2>1
  <2> DEFINE s == f[n]
  <2>4. Filled(has, b, size, s, n) /\ s \in Rec
    BY <2>1, <2>2, <2>3
  <2>5. f[m] = ListName(x, size, s, n + 1) /\ m = n + 1
    BY <1>2, <2>1, <2>3
  <2> HIDE DEF s
  <2>6. Filled(has, b, size, ListName(x, size, s, n + 1), n + 1)
        /\ ListName(x, size, s, n + 1) \in Rec
    BY <2>4, TurnFills
  <2> HIDE DEF Rec
  <2>7. Filled(has, b, size, f[m], m) /\ f[m] \in Rec
    BY <2>5, <2>6
  <2> QED BY <1>4, <2>7
<1> QED BY <1>5, <1>6

(* A prefix of the names, their bytes, the room there is, and no name left *)
(* out for which there was more.                                           *)
FittingPrefix(has, b, got, size) ==
  /\ \E last \in 0..N : got.listed = {n \in has : n <= last} /\ got.pos = b[last]
  /\ got.pos <= size
  /\ \A n \in has \ got.listed : b[n] >= size

LEMMA ListFits ==
  ASSUME IInv, NEW p \in Path, FileAt[p] # 0,
         NEW has, has = DOMAIN xattr[FileAt[p]],
         NEW b, b = BytesTo(has), NEW size \in Nat
  PROVE  FittingPrefix(has, b, Llistxattr(p, size), size)
<1>1. N \in Nat
  BY NIsNat
<1>2. PICK x : x = xattr[FileAt[p]]
  OBVIOUS
<1>3. has = DOMAIN x /\ has \in SUBSET Attr
  <2>1. x \in Attributes0
    BY <1>2, FindInRange DEF IInv
  <2> QED BY <1>2, <2>1 DEF Attributes0
<1>4. Grows(b, has)
  BY BytesGrow
<1>5. PICK f : f = CHOOSE g : LoopOf(x, size, g, N)
  OBVIOUS
<1>6. LoopOf(x, size, f, N)
  BY <1>1, <1>5, LoopExists
<1>7. Listed(x, size) = f[N]
  BY <1>5 DEF Listed, LoopOf, Begun, N
<1>8. PICK s : s = f[N]
  OBVIOUS
<1>9. Filled(has, b, size, s, N)
  BY <1>3, <1>4, <1>6, <1>8, LoopFills
<1>10. PICK last \in 0..N :
         /\ Upto(has, b, size, s, last)
         /\ ~s.broken => last = N
         /\ s.broken => last + 1 \in has /\ last + 1 \in 1..N /\ ~ (b[last + 1] < size)
  BY <1>9 DEF Filled
<1>12. Llistxattr(p, size) = [pos |-> s.pos, listed |-> s.listed]
  BY <1>2, <1>7, <1>8 DEF Llistxattr
<1>13. Llistxattr(p, size).listed = s.listed /\ Llistxattr(p, size).pos = s.pos
  BY <1>12
<1>14. s.listed = {k \in has : k <= last} /\ s.pos = b[last]
  BY <1>10 DEF Upto
<1>15. s.pos <= size
  <2>1. b[last] = 0 \/ b[last] < size
    BY <1>10 DEF Upto
  <2>2. b[last] \in Nat
    BY <1>4 DEF Grows
  <2> QED BY <1>14, <2>1, <2>2
<1>16. ASSUME NEW n \in has \ s.listed PROVE b[n] >= size
  <2>1. n \in 1..N /\ n > last /\ last \in 0..N
    BY <1>1, <1>3, <1>14, NIsNat
  <2>2. last + 1 \in 1..N /\ ~ (b[last + 1] < size)
    BY <1>1, <1>10, <2>1
  <2>3. last + 1 \in 0..N /\ n \in (last + 1)..N
    BY <1>1, <2>1
  <2>4. b[last + 1] <= b[n]
    BY <1>4, <2>3, BytesMonotone
  <2>5. b[last + 1] \in Nat /\ b[n] \in Nat
    BY <1>4, <2>3 DEF Grows
  <2> QED BY <2>2, <2>4, <2>5
<1> QED BY <1>13, <1>14, <1>15, <1>16 DEF FittingPrefix

(* What my_llistxattr puts into a buffer of any size is names in their     *)
(* order from the first, within the buffer, up to one that would fill it.  *)
THEOREM ListIsPrefixHolds == Spec => []ListIsPrefix
<1>1. IInv => ListIsPrefix
  <2> SUFFICES ASSUME IInv, NEW p \in Path, FileAt[p] # 0,
                      NEW size \in 0..(BytesTo(DOMAIN xattr[FileAt[p]])[N] + 1)
               PROVE  FittingPrefix(DOMAIN xattr[FileAt[p]],
                                    BytesTo(DOMAIN xattr[FileAt[p]]),
                                    Llistxattr(p, size), size)
    BY Zenon DEF ListIsPrefix, FittingPrefix, N
  <2>1. size \in Nat
    OBVIOUS
  <2> QED BY <2>1, ListFits
<1> QED BY <1>1, Invariance, PTL
=============================================================================
