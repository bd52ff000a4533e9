---------------------------- MODULE FileDataProofs ----------------------------
(***************************************************************************)
(* Proofs about FileData, for every set of bytes and every bound.          *)
(***************************************************************************)
EXTENDS FileData, SequenceTheorems, WellFoundedInduction, TLAPS

LEMMA BuffersAreSequences ==
  ASSUME NEW buf \in Buffers
  PROVE  /\ buf \in Seq(Char) /\ Len(buf) \in 0..MaxBuf
         /\ DOMAIN buf = 1..Len(buf)
<1>1. PICK m \in 0..MaxBuf : buf \in [1..m -> Char]
  BY DEF Buffers, SeqOf
<1>2. m \in Nat
  BY <1>1, FileDataAssumption
<1>3. buf \in Seq(Char)
  BY <1>1, <1>2, IsASeq
<1>4. Len(buf) \in Nat /\ DOMAIN buf = 1..Len(buf)
  BY <1>3, LenProperties
<1>5. Len(buf) = m
  BY <1>1, <1>2, <1>4
<1> QED
  BY <1>1, <1>3, <1>4, <1>5

LEMMA WriteStartRange ==
  ASSUME NEW d \in Seq(Byte), NEW offset
  PROVE  WriteStart(d, offset) \in 0..Len(d)
BY LenProperties DEF WriteStart

(* A write yields data as much longer as the buffer is long. *)
LEMMA WrittenIsData ==
  ASSUME NEW d \in Seq(Byte), NEW buf \in Seq(Char), NEW at \in 0..Len(d)
  PROVE  /\ Written(d, buf, at) \in Seq(Byte)
         /\ Len(Written(d, buf, at)) = Len(d) + Len(buf)
<1> DEFINE n == Len(d) + Len(buf)
           byte(k) == IF k \in (at + 1)..(at + Len(buf)) THEN buf[k - at]
                      ELSE IF k <= Len(d) THEN d[k] ELSE NUL
<1>1. Len(d) \in Nat /\ Len(buf) \in Nat
  BY LenProperties
<1>2. ASSUME NEW k \in 1..n PROVE byte(k) \in Byte
  <2>1. CASE k \in (at + 1)..(at + Len(buf))
    <3>1. k - at \in 1..Len(buf)
      BY <1>1, <2>1
    <3>2. buf[k - at] \in Char
      BY <3>1, ElementOfSeq
    <3> QED BY <2>1, <3>2 DEF Byte
  <2>2. CASE k \notin (at + 1)..(at + Len(buf)) /\ k <= Len(d)
    <3>1. d[k] \in Byte
      BY <1>1, <2>2, ElementOfSeq
    <3> QED BY <2>2, <3>1
  <2>3. CASE k \notin (at + 1)..(at + Len(buf)) /\ ~ (k <= Len(d))
    BY <2>3 DEF Byte
  <2> QED BY <2>1, <2>2, <2>3
<1>3. Written(d, buf, at) = [k \in 1..n |-> byte(k)]
  BY DEF Written
<1>4. Written(d, buf, at) \in [1..n -> Byte]
  BY <1>2, <1>3
<1>5. n \in Nat
  BY <1>1
<1>6. Written(d, buf, at) \in Seq(Byte)
  <2> HIDE DEF n
  <2> QED BY <1>4, <1>5, IsASeq
<1>7. Len(Written(d, buf, at)) = n
  <2> HIDE DEF n, byte
  <2>1. DOMAIN Written(d, buf, at) = 1..n
    BY <1>3
  <2>2. /\ Len(Written(d, buf, at)) \in Nat
        /\ DOMAIN Written(d, buf, at) = 1..Len(Written(d, buf, at))
    BY <1>6, LenProperties
  <2> QED BY <1>5, <2>1, <2>2
<1> QED BY <1>6, <1>7

(* A resize yields data of the length asked for. *)
LEMMA ResizedIsData ==
  ASSUME NEW d \in Seq(Byte), NEW n \in Nat
  PROVE  Resized(d, n) \in Seq(Byte) /\ Len(Resized(d, n)) = n
<1>1. Len(d) \in Nat
  BY LenProperties
<1>2. ASSUME NEW k \in 1..n, k <= Len(d) PROVE d[k] \in Byte
  BY <1>1, <1>2, ElementOfSeq
<1>3. Resized(d, n) \in [1..n -> Byte]
  BY <1>2 DEF Resized, Byte
<1>4. Resized(d, n) \in Seq(Byte)
  BY <1>3, IsASeq
<1>5. /\ Len(Resized(d, n)) \in Nat
      /\ DOMAIN Resized(d, n) = 1..Len(Resized(d, n))
  BY <1>4, LenProperties
<1>6. Len(Resized(d, n)) = n
  BY <1>3, <1>5
<1> QED BY <1>4, <1>6

-----------------------------------------------------------------------------
(* SizeWithinData is inductive but for a write and a link made: there the  *)
(* new size is the length of the buffer, and the data is at least as long  *)
(* because Written adds that much to it.                                    *)
IInv == /\ TypeOK /\ SizeWithinData
        /\ type = "absent" => data = <<>>
        /\ Len(data) <= MaxLen

LEMMA InitStep == Init => IInv
BY FileDataAssumption, EmptySeq DEF Init, IInv, TypeOK, SizeWithinData

LEMMA PwriteStep ==
  ASSUME IInv, NEW buf \in Buffers, NEW offset, Pwrite(buf, offset)
  PROVE  IInv'
<1>1. CASE Fails
  BY <1>1 DEF Fails, vars, IInv, TypeOK, SizeWithinData
<1>2. CASE ~Fails
  <2>1. /\ type = "reg" /\ Len(data) + Len(buf) <= MaxLen
        /\ data' = Written(data, buf, WriteStart(data, offset))
        /\ st_size' = Len(buf)
        /\ UNCHANGED type
    BY <1>2 DEF Pwrite
  <2>2. data \in Seq(Byte)
    BY DEF IInv, TypeOK
  <2>3. buf \in Seq(Char) /\ Len(buf) \in Nat /\ Len(data) \in Nat
    BY <2>2, BuffersAreSequences, LenProperties
  <2>4. data' \in Seq(Byte) /\ Len(data') = Len(data) + Len(buf)
    BY <2>1, <2>2, <2>3, WriteStartRange, WrittenIsData
  <2> QED
    BY <2>1, <2>3, <2>4, FileDataAssumption DEF IInv, TypeOK, SizeWithinData
<1> QED BY <1>1, <1>2

LEMMA SymlinkStep ==
  ASSUME IInv, NEW target \in Buffers, Symlink(target)
  PROVE  IInv'
<1>1. target \in Seq(Char) /\ Len(target) \in 0..MaxBuf
  BY BuffersAreSequences
<1>2. << >> \in Seq(Byte) /\ Len(<< >>) = 0
  BY EmptySeq
<1>3. 0 \in 0..Len(<< >>)
  BY <1>2
<1>4. data' \in Seq(Byte) /\ Len(data') = 0 + Len(target)
  BY <1>1, <1>2, <1>3, WrittenIsData DEF Symlink
<1> QED
  BY <1>1, <1>4, FileDataAssumption DEF Symlink, IInv, TypeOK, Type, SizeWithinData

LEMMA FtruncateStep ==
  ASSUME IInv, NEW n \in Offsets, Ftruncate(n)
  PROVE  IInv'
<1>1. CASE Fails
  BY <1>1 DEF Fails, vars, IInv, TypeOK, SizeWithinData
<1>2. CASE ~Fails
  <2>1. /\ type \notin {"absent", "dir"} /\ n \in 0..MaxLen
        /\ data' = Resized(data, n)
        /\ st_size' = n
        /\ UNCHANGED type
    BY <1>2 DEF Ftruncate
  <2>2. data' \in Seq(Byte) /\ Len(data') = n
    BY <2>1, ResizedIsData DEF IInv, TypeOK
  <2> QED
    BY <2>1, <2>2, FileDataAssumption DEF IInv, TypeOK, SizeWithinData
<1> QED BY <1>1, <1>2

LEMMA NextStep == IInv /\ [Next]_vars => IInv'
<1> SUFFICES ASSUME IInv, [Next]_vars
             PROVE  IInv'
  OBVIOUS
<1>1. ASSUME NEW kind \in {"reg", "dir"}, NEW mode \in Type, Make(kind, mode)
      PROVE  IInv'
  <2>1. WithBits(kind, mode) \in Type
    BY DEF WithBits, Type
  <2> QED BY <1>1, <2>1 DEF Make, IInv, TypeOK, SizeWithinData
<1>2. ASSUME NEW mode \in Type, Chmod(mode) PROVE IInv'
  <2>1. Chmoded(type, mode) \in Type
    BY DEF Chmoded, WithBits, Type
  <2> QED BY <1>2, <2>1 DEF Chmod, IInv, TypeOK, Type, SizeWithinData
<1>3. ASSUME NEW buf \in Buffers, Symlink(buf) PROVE IInv'
  BY <1>3, SymlinkStep
<1>4. ASSUME NEW buf \in Buffers, NEW offset \in Offsets, Pwrite(buf, offset)
      PROVE  IInv'
  BY <1>4, PwriteStep
<1>5. ASSUME NEW n \in Offsets, Ftruncate(n) PROVE IInv'
  BY <1>5, FtruncateStep
<1>6. CASE UNCHANGED vars
  BY <1>6 DEF vars, IInv, TypeOK, SizeWithinData
<1> QED
  BY <1>1, <1>2, <1>3, <1>4, <1>5, <1>6 DEF Next

(* The inductive invariant: types, lengths, and that a file not yet made   *)
(* has no data.                                                            *)
THEOREM Invariance == Spec => []IInv
BY InitStep, NextStep, PTL DEF Spec

(* The data is a sequence of bytes and its recorded size a natural number. *)
THEOREM TypeCorrect == Spec => []TypeOK
<1>1. IInv => TypeOK
  BY DEF IInv
<1> QED BY <1>1, Invariance, PTL

(* st_size is never more than the length of the data. *)
THEOREM SizeWithinDataHolds == Spec => []SizeWithinData
<1>1. IInv => SizeWithinData
  BY DEF IInv
<1> QED BY <1>1, Invariance, PTL

(* No call changes the data of a file that is or becomes a directory. *)
THEOREM DirectoryKeepsDataHolds == Spec => DirectoryKeepsData
<1> DEFINE Keeps == type = "dir" \/ type' = "dir" => UNCHANGED <<data, st_size>>
<1>1. ASSUME Next PROVE Keeps
  <2>1. ASSUME NEW kind \in {"reg", "dir"}, NEW mode \in Type, Make(kind, mode)
        PROVE  Keeps
    BY <2>1 DEF Make
  <2>2. ASSUME NEW mode \in Type, Chmod(mode) PROVE Keeps
    BY <2>2 DEF Chmod
  <2>3. ASSUME NEW buf \in Buffers, Symlink(buf) PROVE Keeps
    BY <2>3 DEF Symlink
  <2>4. ASSUME NEW buf \in Buffers, NEW offset \in Offsets, Pwrite(buf, offset)
        PROVE  Keeps
    BY <2>4 DEF Pwrite, Fails, vars
  <2>5. ASSUME NEW n \in Offsets, Ftruncate(n) PROVE Keeps
    BY <2>5 DEF Ftruncate, Fails, vars
  <2> QED BY <1>1, <2>1, <2>2, <2>3, <2>4, <2>5 DEF Next
<1>2. [Next]_vars => [Keeps]_vars
  BY <1>1
<1> QED BY <1>2, PTL DEF Spec, DirectoryKeepsData

-----------------------------------------------------------------------------
(* A piece of a sequence, element by element. *)
LEMMA PieceOf ==
  ASSUME NEW S, NEW w \in Seq(S), NEW at \in Nat, NEW m \in Nat, at + m <= Len(w)
  PROVE  /\ SubSeq(w, at + 1, at + m) \in Seq(S)
         /\ Len(SubSeq(w, at + 1, at + m)) = m
         /\ \A i \in 1..m : SubSeq(w, at + 1, at + m)[i] = w[at + i]
<1> DEFINE b == at + 1
           e == at + m
<1>1. b \in Nat \ {0} /\ e \in Nat /\ e <= Len(w) /\ Len(w) \in Nat
  BY LenProperties
<1>2. \A i \in b..e : w[i] \in S
  BY <1>1, ElementOfSeq
<1>3. /\ IF b <= e THEN e - b + 1 = m ELSE m = 0
      /\ \A i \in 1..m : b + i - 1 = at + i
  OBVIOUS
<1> HIDE DEF b, e
<1>4. /\ SubSeq(w, b, e) \in Seq(S)
      /\ Len(SubSeq(w, b, e)) = IF b <= e THEN e - b + 1 ELSE 0
      /\ \A i \in 1..(e - b + 1) : SubSeq(w, b, e)[i] = w[b + i - 1]
  BY <1>1, <1>2, SubSeqProperties
<1>5. \A i \in 1..m : i \in 1..(e - b + 1)
  BY <1>3, <1>1
<1>6. /\ SubSeq(w, b, e) \in Seq(S) /\ Len(SubSeq(w, b, e)) = m
      /\ \A i \in 1..m : SubSeq(w, b, e)[i] = w[at + i]
  BY <1>3, <1>4, <1>5
<1> QED BY <1>6 DEF b, e

(* A read of where a buffer has been written finds the buffer. *)
LEMMA BufferReadsBack ==
  ASSUME NEW d \in Seq(Byte), NEW buf \in Buffers, NEW at \in 0..Len(d),
         buf # <<>>, Len(d) + Len(buf) <= MaxLen
  PROVE  ReadFrom(Written(d, buf, at), Len(buf), at) = [ret |-> Len(buf), buf |-> buf]
<1> DEFINE w == Written(d, buf, at)
           m == Len(buf)
<1>1. buf \in Seq(Char) /\ m \in Nat /\ Len(d) \in Nat /\ DOMAIN buf = 1..m
  BY BuffersAreSequences, LenProperties
<1>2. m >= 1
  BY <1>1, EmptySeq
<1>3. Len(w) = Len(d) + m /\ w \in Seq(Byte)
  BY <1>1, WrittenIsData
<1>4. (at + m - 1) % Word = at + m - 1
  <2>1. at + m - 1 \in Nat /\ at + m - 1 < Word /\ Word \in Nat
    BY <1>1, <1>2, FileDataAssumption
  <2> DEFINE n == at + m - 1
  <2> HIDE DEF n, m
  <2> QED BY <2>1 DEF n
<1>5. ~ (Len(w) < (at + m - 1) % Word)
  BY <1>1, <1>3, <1>4
<1>6. Min({at + m, Len(w)}) = at + m
  <2>1. at + m <= Len(w) /\ at + m \in Int /\ Len(w) \in Int
    BY <1>1, <1>3
  <2> HIDE DEF w, m
  <2> QED BY <2>1 DEF Min
<1>7. SubSeq(w, at + 1, at + m) = buf
  <2>1. \A k \in (at + 1)..(at + m) : w[k] \in Char /\ w[k] = buf[k - at]
    <3> TAKE k \in (at + 1)..(at + m)
    <3>1. k - at \in 1..m /\ k \in 1..(Len(d) + m)
      BY <1>1
    <3>2. w[k] = buf[k - at]
      BY <3>1 DEF Written
    <3> QED BY <1>1, <3>1, <3>2, ElementOfSeq
  <2> DEFINE s == SubSeq(w, at + 1, at + m)
  <2>2. /\ s \in Seq(Byte) /\ Len(s) = m
        /\ \A i \in 1..m : s[i] = w[at + i]
    <3>1. at \in Nat /\ at + m <= Len(w)
      BY <1>1, <1>3
    <3> HIDE DEF w, m
    <3> QED BY <1>1, <1>2, <1>3, <3>1, PieceOf
  <2>3. \A i \in 1..m : s[i] = buf[i]
    <3> TAKE i \in 1..m
    <3>1. at + i \in (at + 1)..(at + m) /\ at + i - at = i
      BY <1>1
    <3> HIDE DEF w, m, s
    <3> QED BY <2>1, <2>2, <3>1
  <2>4. buf \in Seq(Byte)
    BY <1>1 DEF Byte
  <2> HIDE DEF s
  <2> QED BY <2>2, <2>3, <2>4, SeqEqual DEF s
<1>8. CString(buf) = buf
  <2>1. \A k \in DOMAIN buf : buf[k] # NUL
    BY <1>1, ElementOfSeq, FileDataAssumption
  <2> QED BY <2>1 DEF CString
<1> HIDE DEF w, m
<1>9. ReadFrom(w, m, at) = [ret |-> m, buf |-> buf]
  BY <1>5, <1>6, <1>7, <1>8 DEF ReadFrom
<1> QED BY <1>9 DEF w, m

(* What a write leaves alone at any offset, and what it puts in and adds   *)
(* at one that is within the data.                                         *)
THEOREM WriteIsLocalHolds == Spec => WriteIsLocal
<1> DEFINE Within(offset) == offset \in 0..Len(data)
           Asked(buf, offset) == IF Within(offset)
                                 THEN (offset + 1)..(offset + Len(buf)) ELSE {}
           Keeps(buf, offset) ==
             \A k \in DOMAIN data \ Asked(buf, offset) : data'[k] = data[k]
           Puts(buf, offset) ==
             Within(offset) =>
               /\ \A k \in DOMAIN data' \ DOMAIN data :
                    k > offset + Len(buf) => data'[k] = NUL
               /\ buf # <<>> =>
                    ReadFrom(data', Len(buf), offset) = [ret |-> Len(buf), buf |-> buf]
           Local(buf, offset) ==
             type = "reg" /\ Pwrite(buf, offset) =>
               /\ LET asked == IF offset \in 0..Len(data)
                              THEN (offset + 1)..(offset + Len(buf)) ELSE {}
                  IN \A k \in DOMAIN data \ asked : data'[k] = data[k]
               /\ offset \in 0..Len(data) =>
                    /\ \A k \in DOMAIN data' \ DOMAIN data :
                         k > offset + Len(buf) => data'[k] = NUL
                    /\ buf # <<>> =>
                         ReadFrom(data', Len(buf), offset) = [ret |-> Len(buf), buf |-> buf]
<1>1. ASSUME IInv, NEW buf \in Buffers, NEW offset \in Offsets, type = "reg",
             Pwrite(buf, offset)
      PROVE  Local(buf, offset)
  <2> DEFINE at == WriteStart(data, offset)
  <2>1. data' = Written(data, buf, at) /\ Len(data) + Len(buf) <= MaxLen
    BY <1>1 DEF Pwrite
  <2>2. data \in Seq(Byte) /\ at \in 0..Len(data)
    BY <1>1, WriteStartRange DEF IInv, TypeOK
  <2>3. Len(buf) \in Nat /\ Len(data) \in Nat /\ DOMAIN data = 1..Len(data)
    BY <2>2, BuffersAreSequences, LenProperties
  <2>4. at = IF Within(offset) THEN offset ELSE Len(data)
    BY DEF WriteStart
  <2> HIDE DEF at
  <2>5. ASSUME NEW k \in DOMAIN data \ ((at + 1)..(at + Len(buf))) PROVE data'[k] = data[k]
    BY <2>1, <2>2, <2>3, <2>5 DEF Written
  <2>6. ASSUME NEW k \in DOMAIN data' \ DOMAIN data, k > at + Len(buf)
        PROVE  data'[k] = NUL
    BY <2>1, <2>2, <2>3, <2>6 DEF Written
  <2>7. buf # <<>> => ReadFrom(data', Len(buf), at) = [ret |-> Len(buf), buf |-> buf]
    BY <2>1, <2>2, BufferReadsBack
  <2>8. Keeps(buf, offset)
    <3>1. CASE Within(offset)
      BY <2>4, <2>5, <3>1
    <3>2. CASE ~Within(offset)
      <4>1. at = Len(data)
        BY <2>4, <3>2
      <4>2. DOMAIN data \ ((at + 1)..(at + Len(buf))) = DOMAIN data
        BY <2>3, <4>1
      <4> QED BY <2>5, <3>2, <4>2
    <3> QED BY <3>1, <3>2
  <2>9. Puts(buf, offset)
    <3> SUFFICES ASSUME Within(offset) PROVE Puts(buf, offset)
      OBVIOUS
    <3>1. at = offset
      BY <2>4
    <3>2. \A k \in DOMAIN data' \ DOMAIN data : k > offset + Len(buf) => data'[k] = NUL
      BY <2>6, <3>1
    <3>3. buf # <<>> =>
            ReadFrom(data', Len(buf), offset) = [ret |-> Len(buf), buf |-> buf]
      BY <2>7, <3>1
    <3> QED BY <3>2, <3>3
  <2> QED BY <2>8, <2>9
<1>2. IInv /\ [Next]_vars =>
        [\A buf \in Buffers, offset \in Offsets : Local(buf, offset)]_vars
  <2> HIDE DEF Local
  <2> SUFFICES ASSUME IInv, [Next]_vars, ~UNCHANGED vars,
                      NEW buf \in Buffers, NEW offset \in Offsets
               PROVE  Local(buf, offset)
    BY DEF Local
  <2>1. CASE type = "reg" /\ Pwrite(buf, offset)
    BY <1>1, <2>1
  <2> QED BY <2>1 DEF Local
<1> QED
  BY <1>2, Invariance, PTL DEF Spec, WriteIsLocal

-----------------------------------------------------------------------------
(* A loop of reads *)

LEMMA MinIsMember ==
  ASSUME NEW S \in SUBSET Nat, S # {}
  PROVE  Min(S) \in S /\ \A x \in S : Min(S) <= x
<1> DEFINE Less == {ss \in Nat \X Nat : ss[1] < ss[2]}
<1>1. IsWellFoundedOn(Less, Nat)
  BY NatLessThanWellFounded DEF OpToRel
<1>2. PICK x \in S : \A y \in S : ~ (<<y, x>> \in Less)
  <2> HIDE DEF Less
  <2> QED BY <1>1, WFMin
<1>3. ASSUME NEW y \in S PROVE x <= y
  <2>1. x \in Nat /\ y \in Nat
    OBVIOUS
  <2>2. ~ (y < x)
    BY <1>2, <2>1
  <2> QED
    BY <2>1, <2>2
<1> QED
  BY <1>3 DEF Min

(* One turn of the loop, and the loop as a sequence of turns. *)
ReadOn(size, before) ==
  LET r == Pread(size, before.at)
  IN IF r.ret <= 0 THEN before
     ELSE [at |-> before.at + r.ret, all |-> before.all \o r.buf]

Started == [at |-> 0, all |-> <<>>]

LoopOf(size, g, m) ==
  g = [n \in 0..m |-> IF n = 0 THEN Started ELSE ReadOn(size, g[n - 1])]

LEMMA LoopExists ==
  ASSUME NEW size
  PROVE  \A m \in Nat : \E g : LoopOf(size, g, m)
<1> DEFINE S == {m \in Nat : ~ \E g : LoopOf(size, g, m)}
<1> SUFFICES ASSUME S # {} PROVE FALSE
  OBVIOUS
<1> DEFINE m == Min(S)
<1>1. m \in S /\ \A k \in S : m <= k
  BY MinIsMember
<1>2. CASE m = 0
  <2> DEFINE g == [n \in 0..0 |-> Started]
  <2>1. LoopOf(size, g, 0)
    BY DEF LoopOf
  <2> QED BY <1>1, <1>2, <2>1
<1>3. CASE m # 0
  <2>1. m \in Nat /\ m - 1 \in Nat /\ m - 1 \notin S
    <3> HIDE DEF m
    <3> QED BY <1>1, <1>3
  <2>2. PICK g : LoopOf(size, g, m - 1)
    BY <2>1
  <2> DEFINE last == ReadOn(size, g[m - 1])
             h == [n \in 0..m |-> IF n = m THEN last ELSE g[n]]
  <2>3. LoopOf(size, h, m)
    <3> HIDE DEF m
    <3>1. ASSUME NEW n \in 0..m, n # 0, n # m
          PROVE  h[n] = ReadOn(size, h[n - 1])
      <4>1. n \in 0..(m - 1) /\ n - 1 \in 0..m /\ n - 1 # m
        BY <2>1, <3>1
      <4>2. h[n] = g[n] /\ h[n - 1] = g[n - 1]
        BY <3>1, <4>1
      <4>3. g[n] = ReadOn(size, g[n - 1])
        BY <2>2, <3>1, <4>1 DEF LoopOf
      <4> QED BY <4>2, <4>3
    <3>2. h[m] = last /\ h[m - 1] = g[m - 1]
      BY <1>3, <2>1
    <3>3. h[0] = Started
      BY <1>3, <2>1, <2>2 DEF LoopOf
    <3> HIDE DEF last
    <3>4. h = [n \in 0..m |-> h[n]]
      OBVIOUS
    <3> HIDE DEF h
    <3>5. \A n \in 0..m : h[n] = IF n = 0 THEN Started ELSE ReadOn(size, h[n - 1])
      BY <3>1, <3>2, <3>3 DEF last
    <3> QED BY <3>4, <3>5 DEF LoopOf
  <2> QED BY <1>1, <2>3
<1> QED BY <1>2, <1>3

LEMMA ReadLoopTurns ==
  ASSUME NEW size
  PROVE  \E g : /\ ReadLoop(size) = g[MaxLen + 2] /\ g[0] = Started
                /\ \A n \in 1..(MaxLen + 2) : g[n] = ReadOn(size, g[n - 1])
<1> DEFINE M == MaxLen + 2
           g == CHOOSE g : LoopOf(size, g, M)
<1>1. M \in Nat
  BY FileDataAssumption
<1>2. LoopOf(size, g, M)
  BY <1>1, LoopExists
<1>3. ReadLoop(size) = g[M]
  BY DEF ReadLoop, LoopOf, ReadOn, Started
<1> HIDE DEF g
<1>4. g[0] = Started /\ \A n \in 1..M : g[n] = ReadOn(size, g[n - 1])
  BY <1>1, <1>2 DEF LoopOf
<1> QED BY <1>3, <1>4

(* Pieces of text are text, and follow on each other. *)
LEMMA TextPieces ==
  ASSUME NEW d \in Seq(Char), NEW at \in 0..Len(d), NEW e \in at..Len(d)
  PROVE  /\ CString(SubSeq(d, at + 1, e)) = SubSeq(d, at + 1, e)
         /\ SubSeq(d, 1, at) \o SubSeq(d, at + 1, e) = SubSeq(d, 1, e)
<1>1. Len(d) \in Nat
  BY LenProperties
<1>2. \A i \in (at + 1)..e : d[i] \in Char
  BY <1>1, ElementOfSeq
<1>3. at + 1 \in Int /\ e \in Int
  BY <1>1
<1>4. SubSeq(d, at + 1, e) \in Seq(Char)
  BY <1>2, <1>3, SubSeqProperties
<1>5. CString(SubSeq(d, at + 1, e)) = SubSeq(d, at + 1, e)
  <2> DEFINE s == SubSeq(d, at + 1, e)
  <2>1. s \in Seq(Char)
    BY <1>4
  <2> HIDE DEF s
  <2>2. \A k \in DOMAIN s : s[k] # NUL
    BY <2>1, LenProperties, ElementOfSeq, FileDataAssumption
  <2>3. CString(s) = s
    BY <2>2 DEF CString
  <2> QED BY <2>3 DEF s
<1>6. SubSeq(d, 1, at) \o SubSeq(d, at + 1, e) = SubSeq(d, 1, e)
  <2>1. 1 \in 1..(Len(d) + 1) /\ at \in (1 - 1)..Len(d)
    BY <1>1
  <2> QED BY <2>1, ConcatAdjacentSubSeq
<1> QED BY <1>5, <1>6

LEMMA MinOfTwo ==
  ASSUME NEW a \in Int, NEW b \in Int
  PROVE  Min({a, b}) \in {a, b} /\ Min({a, b}) <= a /\ Min({a, b}) <= b
<1>1. \E x \in {a, b} : \A y \in {a, b} : x <= y
  <2>1. CASE a <= b
    BY <2>1
  <2>2. CASE b <= a
    BY <2>2
  <2> QED BY <2>1, <2>2
<1> DEFINE m == CHOOSE x \in {a, b} : \A y \in {a, b} : x <= y
<1>2. m \in {a, b} /\ \A y \in {a, b} : m <= y
  BY <1>1
<1>3. Min({a, b}) = m
  BY DEF Min
<1> HIDE DEF m
<1> QED BY <1>2, <1>3

(* A read of a file of text, from where the data has not ended, gives the  *)
(* bytes up to some place e.  The count it returns leads there, or to one  *)
(* past the end if e is the end.                                           *)
LEMMA ReadGives ==
  ASSUME data \in Seq(Char), Len(data) <= MaxLen, type # "dir",
         NEW size \in 1..(MaxLen + 1), NEW at \in 0..Len(data)
  PROVE  \E e \in at..Len(data) :
           /\ Pread(size, at).buf = SubSeq(data, at + 1, e)
           /\ \/ Pread(size, at).ret = e - at
              \/ e = Len(data) /\ Pread(size, at).ret = e - at + 1
           /\ at < Len(data) => Pread(size, at).ret >= 1
           /\ Len(data) <= at + size => e = Len(data)
<1> DEFINE L == Len(data)
<1>1. L \in Nat /\ MaxLen \in Nat /\ L <= MaxLen
  BY LenProperties, FileDataAssumption
<1>2. (at + size - 1) % Word = at + size - 1
  <2> DEFINE n == at + size - 1
  <2>1. n \in Nat /\ n < Word /\ Word \in Nat
    BY <1>1, FileDataAssumption
  <2> HIDE DEF n
  <2>2. n % Word = n
    BY <2>1
  <2> QED BY <2>2 DEF n
<1>3. Pread(size, at) = ReadFrom(data, size, at)
  <2>1. ~(at > L)
    BY <1>1
  <2> QED BY <2>1 DEF Pread
<1>4. CASE L < at + size - 1
  <2>1. Pread(size, at) = [ret |-> L - at, buf |-> CString(SubSeq(data, at + 1, L))]
    BY <1>2, <1>3, <1>4 DEF ReadFrom
  <2>2. L \in at..L
    BY <1>1
  <2>3. CString(SubSeq(data, at + 1, L)) = SubSeq(data, at + 1, L)
    BY <2>2, TextPieces
  <2>4. at < L => L - at >= 1
    BY <1>1
  <2> HIDE DEF L
  <2>5. Pread(size, at).ret = L - at /\ Pread(size, at).buf = SubSeq(data, at + 1, L)
    BY <2>1, <2>3
  <2> QED BY <2>2, <2>4, <2>5 DEF L
<1>5. CASE ~(L < at + size - 1)
  <2> DEFINE e == Min({at + size, L})
  <2>1. Pread(size, at) = [ret |-> size, buf |-> CString(SubSeq(data, at + 1, e))]
    BY <1>2, <1>3, <1>5 DEF ReadFrom
  <2>2. e \in {at + size, L} /\ e <= at + size /\ e <= L
    <3>1. at + size \in Int /\ L \in Int
      BY <1>1
    <3> QED BY <3>1, MinOfTwo
  <2> HIDE DEF e
  <2>3. e \in at..L /\ (size = e - at \/ (e = L /\ size = e - at + 1))
        /\ (L <= at + size => e = L)
    BY <1>1, <1>5, <2>2
  <2>4. CString(SubSeq(data, at + 1, e)) = SubSeq(data, at + 1, e)
    BY <2>3, TextPieces
  <2>5. Pread(size, at).ret = size /\ Pread(size, at).buf = SubSeq(data, at + 1, e)
    BY <2>1, <2>4
  <2>6. size >= 1
    BY <1>1
  <2> HIDE DEF L
  <2> QED BY <2>3, <2>5, <2>6 DEF L
<1> QED BY <1>4, <1>5

(* What the loop has after n turns: the data up to where it is, and that   *)
(* is n bytes from the start at least, or the end.                         *)
Gathered(g, n) ==
  /\ g.at \in Nat
  /\ \/ g.at <= Len(data) /\ g.all = SubSeq(data, 1, g.at)
     \/ g.at = Len(data) + 1 /\ g.all = data
  /\ g.at >= n \/ g.at >= Len(data)

LEMMA TurnGathers ==
  ASSUME data \in Seq(Char), Len(data) <= MaxLen, type # "dir",
         NEW size \in 1..(MaxLen + 1), NEW g, NEW n \in Nat, Gathered(g, n)
  PROVE  Gathered(ReadOn(size, g), n + 1)
<1> DEFINE L == Len(data)
           r == Pread(size, g.at)
<1>1. L \in Nat /\ g.at \in Nat
  BY LenProperties DEF Gathered
<1>2. CASE g.at = L + 1
  <2>1. r.ret = -1
    BY <1>1, <1>2 DEF Pread, Refused
  <2>2. ReadOn(size, g) = g
    <3> HIDE DEF r
    <3> QED BY <2>1 DEF ReadOn, r
  <2>3. g.all = data
    BY <1>1, <1>2 DEF Gathered
  <2> QED BY <1>1, <1>2, <2>2, <2>3 DEF Gathered
<1>3. CASE g.at # L + 1
  <2>1. PICK at \in 0..L : at = g.at /\ g.all = SubSeq(data, 1, at)
    BY <1>1, <1>3 DEF Gathered
  <2>2. PICK e \in at..L :
          /\ r.buf = SubSeq(data, at + 1, e)
          /\ r.ret = e - at \/ (e = L /\ r.ret = e - at + 1)
          /\ at < L => r.ret >= 1
    BY <2>1, ReadGives
  <2> HIDE DEF r
  <2>3. CASE r.ret <= 0
    <3>1. ReadOn(size, g) = g
      BY <2>3 DEF ReadOn, r
    <3>2. g.at >= L
      BY <1>1, <2>1, <2>2, <2>3
    <3> QED BY <3>1, <3>2 DEF Gathered
  <2>4. CASE ~(r.ret <= 0)
    <3>1. ReadOn(size, g) = [at |-> at + r.ret, all |-> SubSeq(data, 1, at) \o r.buf]
      BY <2>1, <2>4 DEF ReadOn, r
    <3>2. SubSeq(data, 1, at) \o r.buf = SubSeq(data, 1, e)
      BY <2>2, TextPieces
    <3>3. SubSeq(data, 1, L) = data
      BY SubSeqFull
    <3>4. r.ret \in Nat /\ r.ret >= 1
      BY <1>1, <2>2, <2>4
    <3>5. ReadOn(size, g).at = at + r.ret /\ ReadOn(size, g).all = SubSeq(data, 1, e)
      <4>1. PICK b, all : b = at + r.ret /\ all = SubSeq(data, 1, e)
        OBVIOUS
      <4>2. ReadOn(size, g) = [at |-> b, all |-> all]
        BY <3>1, <3>2, <4>1
      <4>3. ReadOn(size, g).at = b /\ ReadOn(size, g).all = all
        BY <4>2
      <4> QED BY <4>1, <4>3
    <3>6. at + r.ret = e \/ (e = L /\ at + r.ret = L + 1)
      BY <1>1, <2>2, <3>4
    <3>7. at + r.ret \in Nat /\ (at + r.ret >= n + 1 \/ at + r.ret >= L)
      <4>1. at \in Nat /\ (at >= n \/ at >= L)
        BY <2>1 DEF Gathered
      <4> QED BY <1>1, <3>4, <4>1
    <3>8. PICK h : h = ReadOn(size, g)
      OBVIOUS
    <3>9. h.at = at + r.ret /\ h.all = SubSeq(data, 1, e)
      BY <3>5, <3>8
    <3>10. h.at \in Nat /\ (h.at >= n + 1 \/ h.at >= L)
      BY <3>7, <3>9
    <3>11. \/ h.at <= L /\ h.all = SubSeq(data, 1, h.at)
           \/ h.at = L + 1 /\ h.all = data
      <4>1. CASE at + r.ret = e
        BY <1>1, <3>9, <4>1
      <4>2. CASE e = L /\ at + r.ret = L + 1
        BY <3>3, <3>9, <4>2
      <4> QED BY <3>6, <4>1, <4>2
    <3>12. Gathered(h, n + 1)
      BY <3>10, <3>11 DEF Gathered
    <3> QED BY <3>8, <3>12
  <2> QED BY <2>3, <2>4
<1> QED BY <1>2, <1>3

(* After n turns the loop has gathered what n turns do. *)
LEMMA LoopGathers ==
  ASSUME data \in Seq(Char), Len(data) <= MaxLen, type # "dir",
         NEW size \in 1..(MaxLen + 1), NEW g, g[0] = Started,
         \A n \in 1..(MaxLen + 2) : g[n] = ReadOn(size, g[n - 1])
  PROVE  Gathered(g[MaxLen + 2], MaxLen + 2)
<1> DEFINE M == MaxLen + 2
           S == {n \in Nat : n <= M /\ ~ Gathered(g[n], n)}
<1>1. M \in Nat
  BY FileDataAssumption
<1> SUFFICES ASSUME S # {} PROVE FALSE
  BY <1>1
<1> DEFINE m == Min(S)
<1>2. S \subseteq Nat
  OBVIOUS
<1>3. m \in S /\ \A k \in S : m <= k
  <2> HIDE DEF S
  <2> QED BY <1>2, MinIsMember
<1> HIDE DEF m
<1>4. CASE m = 0
  <2>1. Started.at = 0 /\ Started.all = <<>>
    BY DEF Started
  <2>2. SubSeq(data, 1, 0) = <<>> /\ Len(data) \in Nat
    BY SubSeqEmpty, LenProperties
  <2>3. Gathered(Started, 0)
    BY <2>1, <2>2 DEF Gathered
  <2> QED BY <1>3, <1>4, <2>3
<1>5. CASE m # 0
  <2>1. m \in Nat /\ m <= M /\ m - 1 \in Nat /\ m - 1 <= M /\ m \in 1..M
    BY <1>1, <1>3, <1>5
  <2>2. m - 1 \notin S
    <3> HIDE DEF S
    <3> QED BY <1>3, <2>1
  <2>3. Gathered(g[m - 1], m - 1)
    BY <2>1, <2>2
  <2>4. PICK k \in Nat : k = m - 1
    BY <2>1
  <2> DEFINE b == g[k]
  <2>5. Gathered(b, k)
    BY <2>3, <2>4
  <2> HIDE DEF b
  <2>6. Gathered(ReadOn(size, b), k + 1)
    BY <2>5, TurnGathers
  <2>7. g[m] = ReadOn(size, b) /\ m = k + 1
    BY <2>1, <2>4 DEF b
  <2>8. Gathered(g[m], m)
    BY <2>6, <2>7
  <2> QED BY <1>3, <2>8
<1> QED BY <1>4, <1>5

(* A reader that begins at 0 and goes on by what each read returned, until *)
(* one returns nothing, has all the data; a link whose text fits the       *)
(* buffer is read whole.                                                   *)
LEMMA LoopComplete ==
  ASSUME IInv
  PROVE  ReadLoopComplete
<1> SUFFICES ASSUME type # "dir", data \in Seq(Char), NEW size \in 1..(MaxLen + 1)
             PROVE  /\ ReadLoop(size).all = data
                    /\ type = "lnk" /\ Len(data) <= size => Readlink(size).buf = data
  BY DEF ReadLoopComplete
<1>1. Len(data) \in Nat /\ Len(data) <= MaxLen /\ MaxLen \in Nat
  BY LenProperties, FileDataAssumption DEF IInv
<1>2. SubSeq(data, 1, Len(data)) = data
  BY SubSeqFull
<1>3. ReadLoop(size).all = data
  <2>1. PICK g : /\ ReadLoop(size) = g[MaxLen + 2] /\ g[0] = Started
                 /\ \A n \in 1..(MaxLen + 2) : g[n] = ReadOn(size, g[n - 1])
    BY ReadLoopTurns
  <2>2. Gathered(g[MaxLen + 2], MaxLen + 2)
    BY <1>1, <2>1, LoopGathers
  <2>3. PICK h : h = ReadLoop(size)
    OBVIOUS
  <2>4. Gathered(h, MaxLen + 2)
    BY <2>1, <2>2, <2>3
  <2>5. h.at >= Len(data)
    BY <1>1, <2>4 DEF Gathered
  <2>6. h.all = data
    <3>1. CASE h.at <= Len(data) /\ h.all = SubSeq(data, 1, h.at)
      <4>1. h.at = Len(data)
        BY <1>1, <2>4, <2>5, <3>1 DEF Gathered
      <4> QED BY <1>2, <3>1, <4>1
    <3> QED BY <2>4, <3>1 DEF Gathered
  <2> QED BY <2>3, <2>6
<1>4. ASSUME type = "lnk", Len(data) <= size PROVE Readlink(size).buf = data
  <2>1. PICK r : r = Pread(size, 0)
    OBVIOUS
  <2>2. PICK at \in 0..Len(data) : at = 0
    BY <1>1
  <2>3. PICK e \in at..Len(data) : /\ Pread(size, at).buf = SubSeq(data, at + 1, e)
                                   /\ Len(data) <= at + size => e = Len(data)
    BY <1>1, <2>2, ReadGives
  <2>4. e = Len(data) /\ at + 1 = 1
    BY <1>1, <1>4, <2>2, <2>3
  <2>5. r.buf = data
    BY <1>2, <2>1, <2>2, <2>3, <2>4
  <2>6. Readlink(size) = [r EXCEPT !.ret = Min({@, 0})]
    BY <1>4, <2>1 DEF Readlink
  <2> QED BY <2>5, <2>6
<1> QED BY <1>3, <1>4

(* For every buffer size, a file of text is read back in full.             *)
THEOREM ReadLoopCompleteHolds == Spec => []ReadLoopComplete
<1>1. IInv => ReadLoopComplete
  BY LoopComplete
<1> QED BY <1>1, Invariance, PTL
=============================================================================
