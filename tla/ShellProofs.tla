----------------------------- MODULE ShellProofs -----------------------------
(***************************************************************************)
(* Proofs about Shell: that a saved dialogue, played back, makes the calls *)
(* it was recorded with, for sessions of any length.                       *)
(***************************************************************************)
EXTENDS Shell, SequenceTheorems, TLAPS

ArgKind == [script: BOOLEAN, number: BOOLEAN, checked: BOOLEAN, kept: BOOLEAN]

LEMMA KindIs ==
  ASSUME NEW a \in ArgKind
  PROVE  a = [script |-> a.script, number |-> a.number, checked |-> a.checked, kept |-> a.kept]
BY DEF ArgKind

LEMMA RereadIs ==
  ASSUME NEW arg \in ArgKind
  PROVE  /\ Unkept(arg) = [script |-> arg.script, number |-> arg.number,
                           checked |-> FALSE, kept |-> FALSE]
         /\ Typed(arg) = [script |-> FALSE, number |-> arg.number,
                          checked |-> FALSE, kept |-> arg.kept]
<1>1. Unkept(arg) \in ArgKind /\ Typed(arg) \in ArgKind
  BY DEF ArgKind, Unkept, Typed
<1>2. /\ Unkept(arg).script = arg.script /\ Unkept(arg).number = arg.number
      /\ Unkept(arg).checked = FALSE /\ Unkept(arg).kept = FALSE
      /\ Typed(arg).script = FALSE /\ Typed(arg).number = arg.number
      /\ Typed(arg).checked = FALSE /\ Typed(arg).kept = arg.kept
  BY DEF ArgKind, Unkept, Typed
<1> QED BY <1>1, <1>2, KindIs

(* Every operation reads known arguments, and one that keeps them all in   *)
(* the record looks whether it was given its numbers.                      *)
LEMMA WantedIs ==
  ASSUME NEW op
  PROVE  /\ Wanted(op) \in Seq(ArgKind) /\ Len(Wanted(op)) \in Nat
         /\ DOMAIN Wanted(op) = 1..Len(Wanted(op))
         /\ \A k \in 1..Len(Wanted(op)) :
              /\ Wanted(op)[k] \in ArgKind
              /\ FullyKept(op) => /\ Wanted(op)[k].kept /\ Wanted(op)[k].script
                                  /\ Wanted(op)[k].number => Wanted(op)[k].checked
         /\ op = Nothing => Len(Wanted(op)) = 0
<1> DEFINE W == {<<>>, <<Number>>, <<Number, Number>>, <<Word>>, <<Unkept(Word)>>,
                 <<Unkept(Number), Unkept(Number)>>, <<Unkept(Number), Typed(Word)>>,
                 <<Typed(Unkept(Number))>>, <<Typed(Unkept(Number)), Typed(Unkept(Number))>>,
                 <<Typed(Unkept(Word)), Typed(Unkept(Word))>>,
                 <<Typed(Unkept(Word)), Typed(Unkept(Number))>>, <<Typed(Unkept(Word))>>}
<1>1. Op = {"rmdir", "mkdir", "chown", "rename", "symlink", "pread", "pwrite", "truncate",
            "utime", "lsetxattr", "lgetxattr", "lremovexattr"}
  BY DEF Op, Arguments
<1>2. \A o \in Op : Arguments[o] \in W
  BY <1>1 DEF Arguments
<1>3. Wanted(op) \in W
  BY <1>2 DEF Wanted
<1>4. op = Nothing => Wanted(op) = <<>>
  BY <1>1 DEF Wanted, Nothing
<1> DEFINE N == Number
           S == Word
           UN == Unkept(Number)
           US == Unkept(Word)
           TS == Typed(Word)
           TUN == Typed(Unkept(Number))
           TUS == Typed(Unkept(Word))
<1>5. /\ N = [script |-> TRUE, number |-> TRUE, checked |-> TRUE, kept |-> TRUE]
      /\ S = [script |-> TRUE, number |-> FALSE, checked |-> FALSE, kept |-> TRUE]
      /\ UN = [script |-> TRUE, number |-> TRUE, checked |-> FALSE, kept |-> FALSE]
      /\ US = [script |-> TRUE, number |-> FALSE, checked |-> FALSE, kept |-> FALSE]
      /\ TS = [script |-> FALSE, number |-> FALSE, checked |-> FALSE, kept |-> TRUE]
      /\ TUN = [script |-> FALSE, number |-> TRUE, checked |-> FALSE, kept |-> FALSE]
      /\ TUS = [script |-> FALSE, number |-> FALSE, checked |-> FALSE, kept |-> FALSE]
  <2>1. N = [script |-> TRUE, number |-> TRUE, checked |-> TRUE, kept |-> TRUE]
    BY DEF Number
  <2>2. S = [script |-> TRUE, number |-> FALSE, checked |-> FALSE, kept |-> TRUE]
    <3>1. Word \in ArgKind
      BY <2>1 DEF Word, ArgKind
    <3>2. Word.script = TRUE /\ Word.number = FALSE /\ Word.checked = FALSE /\ Word.kept = TRUE
      BY <2>1 DEF Word
    <3> QED BY <3>1, <3>2, KindIs
  <2>3. Number \in ArgKind /\ Word \in ArgKind
    BY <2>1, <2>2 DEF ArgKind
  <2>4. UN = [script |-> TRUE, number |-> TRUE, checked |-> FALSE, kept |-> FALSE]
    BY <2>1, <2>3, RereadIs
  <2>5. US = [script |-> TRUE, number |-> FALSE, checked |-> FALSE, kept |-> FALSE]
    BY <2>2, <2>3, RereadIs
  <2>6. TS = [script |-> FALSE, number |-> FALSE, checked |-> FALSE, kept |-> TRUE]
    BY <2>2, <2>3, RereadIs
  <2>7. UN \in ArgKind /\ US \in ArgKind
    BY <2>4, <2>5 DEF ArgKind
  <2>8. TUN = [script |-> FALSE, number |-> TRUE, checked |-> FALSE, kept |-> FALSE]
    BY <2>4, <2>7, RereadIs
  <2>9. TUS = [script |-> FALSE, number |-> FALSE, checked |-> FALSE, kept |-> FALSE]
    BY <2>5, <2>7, RereadIs
  <2> QED BY <2>1, <2>2, <2>4, <2>5, <2>6, <2>8, <2>9
<1> HIDE DEF N, S, UN, US, TS, TUN, TUS
<1>6. N \in ArgKind /\ S \in ArgKind /\ UN \in ArgKind /\ US \in ArgKind /\ TS \in ArgKind
      /\ TUN \in ArgKind /\ TUS \in ArgKind
  BY <1>5 DEF ArgKind
<1>7. Wanted(op) \in {<<>>, <<N>>, <<N, N>>, <<S>>, <<US>>, <<UN, UN>>, <<UN, TS>>, <<TUN>>,
                      <<TUN, TUN>>, <<TUS, TUS>>, <<TUS, TUN>>, <<TUS>>}
  BY <1>3 DEF N, S, UN, US, TS, TUN, TUS
<1> HIDE DEF W
<1>8. Wanted(op) \in Seq(ArgKind)
  <2>1. \A x, y \in ArgKind : <<x>> \in Seq(ArgKind) /\ <<x, y>> \in Seq(ArgKind)
    OBVIOUS
  <2> QED BY <1>6, <1>7, <2>1, EmptySeq
<1>9. Len(Wanted(op)) \in Nat /\ DOMAIN Wanted(op) = 1..Len(Wanted(op))
  BY <1>8, LenProperties
<1>10. ASSUME FullyKept(op) PROVE Wanted(op) \in {<<>>, <<N>>, <<N, N>>, <<S>>}
  <2>1. \A k \in 1..Len(Wanted(op)) : Wanted(op)[k].kept /\ Wanted(op)[k].script
    BY <1>9, <1>10 DEF FullyKept
  <2>2. ~UN.kept /\ ~US.kept /\ ~TS.script /\ ~TUN.kept /\ ~TUS.kept
    BY <1>5
  <2>3. ASSUME NEW x, Wanted(op) = <<x>> PROVE x.kept /\ x.script
    BY <2>1, <2>3
  <2>4. ASSUME NEW x, NEW y, Wanted(op) = <<x, y>> PROVE x.kept /\ x.script
    BY <2>1, <2>4
  <2> QED BY <1>7, <2>2, <2>3, <2>4
<1>11. ASSUME NEW k \in 1..Len(Wanted(op)), FullyKept(op)
       PROVE  Wanted(op)[k] \in {N, S}
  BY <1>10, <1>11
<1>12. \A x \in {N, S} : x.kept /\ x.script /\ (x.number => x.checked)
  BY <1>5
<1>13. \A k \in 1..Len(Wanted(op)) : Wanted(op)[k] \in ArgKind
  BY <1>8, ElementOfSeq
<1> QED BY <1>4, <1>8, <1>9, <1>11, <1>12, <1>13

-----------------------------------------------------------------------------
(* A command as a dialogue has it in full: the operation, the file and all *)
(* the arguments, as words that a script can be read as.                   *)
Fits(arg, v) == v \in Values \ {Nothing} /\ (arg.number => v \in {Good, Zero})

Commands ==
  {c \in [op: Values \ {Nothing}, file: Values \ {Nothing}, args: Seq(Values)] :
     /\ FullyKept(c.op) /\ Len(c.args) = Len(Wanted(c.op))
     /\ \A k \in 1..Len(c.args) : Fits(Wanted(c.op)[k], c.args[k])}

Words(c) == <<c.op, c.file>> \o c.args

(* The words of a dialogue are those of commands, which make the calls cs  *)
(* in that order, and after them the words z.                              *)
Plays(words, cs, z) ==
  \E n \in Nat :
    \E rest \in [0..n -> Seq(Values)], due \in [0..n -> Seq(Calls)] :
      /\ rest[0] = words /\ rest[n] = z /\ due[0] = cs /\ due[n] = <<>>
      /\ \A j \in 1..n : \E c \in Commands :
           /\ rest[j - 1] = Words(c) \o rest[j]
           /\ due[j - 1] = IF c.op \in Op THEN <<c>> \o due[j] ELSE due[j]

LEMMA WordsAre ==
  ASSUME NEW op \in Values, NEW file \in Values, NEW args \in Seq(Values),
         NEW c, c.op = op, c.file = file, c.args = args
  PROVE  /\ Words(c) \in Seq(Values) /\ Len(Words(c)) = Len(args) + 2
         /\ Words(c)[1] = op /\ Words(c)[2] = file
         /\ \A k \in 1..Len(args) : Words(c)[k + 2] = args[k]
<1> DEFINE s == <<op, file>>
<1>1. s \in Seq(Values) /\ Len(s) = 2 /\ s[1] = op /\ s[2] = file
  OBVIOUS
<1>2. Len(args) \in Nat
  BY LenProperties
<1>3. Words(c) = s \o args
  BY DEF Words
<1> HIDE DEF s
<1>4. /\ s \o args \in Seq(Values) /\ Len(s \o args) = Len(s) + Len(args)
      /\ \A k \in 1..(Len(s) + Len(args)) :
           (s \o args)[k] = IF k <= Len(s) THEN s[k] ELSE args[k - Len(s)]
  BY <1>1, ConcatProperties
<1> DEFINE w == s \o args
<1> HIDE DEF w
<1>5. /\ w \in Seq(Values) /\ Len(w) = 2 + Len(args)
      /\ \A k \in 1..(2 + Len(args)) : w[k] = IF k <= 2 THEN s[k] ELSE args[k - 2]
  BY <1>1, <1>4, Zenon DEF w
<1>6. w[1] = op /\ w[2] = file
  BY <1>1, <1>2, <1>5
<1>7. ASSUME NEW k \in 1..Len(args) PROVE w[k + 2] = args[k]
  <2>1. k + 2 \in 1..(2 + Len(args)) /\ ~(k + 2 <= 2) /\ (k + 2) - 2 = k
    BY <1>2
  <2> QED BY <1>5, <2>1
<1>8. Len(args) + 2 = 2 + Len(args)
  BY <1>2
<1> QED BY <1>3, <1>5, <1>6, <1>7, <1>8 DEF w

LEMMA CommandIs ==
  ASSUME NEW c \in Commands
  PROVE  /\ c.op \in Values \ {Nothing} /\ c.file \in Values \ {Nothing} /\ c.args \in Seq(Values)
         /\ c = [op |-> c.op, file |-> c.file, args |-> c.args]
         /\ c.op \in Op => c \in Calls
         /\ FullyKept(c.op) /\ Len(c.args) = Len(Wanted(c.op)) /\ Len(c.args) \in Nat
         /\ \A k \in 1..Len(c.args) : Fits(Wanted(c.op)[k], c.args[k])
         /\ Words(c) \in Seq(Values) /\ Len(Words(c)) = Len(c.args) + 2
         /\ Words(c)[1] = c.op /\ Words(c)[2] = c.file
         /\ \A k \in 1..Len(c.args) : Words(c)[k + 2] = c.args[k]
<1>1. /\ c.op \in Values \ {Nothing} /\ c.file \in Values \ {Nothing} /\ c.args \in Seq(Values)
      /\ c = [op |-> c.op, file |-> c.file, args |-> c.args]
      /\ FullyKept(c.op) /\ Len(c.args) = Len(Wanted(c.op))
      /\ \A k \in 1..Len(c.args) : Fits(Wanted(c.op)[k], c.args[k])
  BY DEF Commands
<1>2. c.op \in Op => c \in Calls
  BY <1>1 DEF Calls
<1> QED BY <1>1, <1>2, WordsAre, LenProperties

(* Sequences: what is put in front of a sequence, and at its end. *)
Then(s, v) == Append(s, v)

LEMMA AppendBehind ==
  ASSUME NEW S, NEW s \in Seq(S), NEW t \in Seq(S), NEW v \in S
  PROVE  Then(s \o t, v) = s \o Then(t, v)
<1>1. <<v>> \in Seq(S) /\ s \o t \in Seq(S)
  BY ConcatProperties
<1>2. Then(s \o t, v) = (s \o t) \o <<v>>
  BY <1>1, AppendIsConcat DEF Then
<1>3. Then(t, v) = t \o <<v>>
  BY AppendIsConcat DEF Then
<1>4. (s \o t) \o <<v>> = s \o (t \o <<v>>)
  BY <1>1, ConcatAssociative
<1> QED BY <1>2, <1>3, <1>4

LEMMA ThenIs ==
  ASSUME NEW S, NEW s \in Seq(S), NEW v \in S
  PROVE  /\ Then(s, v) \in Seq(S) /\ Len(Then(s, v)) = Len(s) + 1
         /\ Then(s, v)[Len(s) + 1] = v
         /\ \A k \in 1..Len(s) : Then(s, v)[k] = s[k]
<1>1. Then(s, v) \in Seq(S)
  BY AppendProperties DEF Then
<1>2. Len(Then(s, v)) = Len(s) + 1
  BY AppendProperties DEF Then
<1>3. Then(s, v)[Len(s) + 1] = v
  BY AppendProperties DEF Then
<1>4. \A k \in 1..Len(s) : Then(s, v)[k] = s[k]
  BY AppendProperties DEF Then
<1> QED BY <1>1, <1>2, <1>3, <1>4

LEMMA ThenWord ==
  \A s \in Seq(Values), v \in Values :
    /\ Then(s, v) \in Seq(Values) /\ Len(Then(s, v)) = Len(s) + 1
    /\ Then(s, v)[Len(s) + 1] = v
    /\ \A k \in 1..Len(s) : Then(s, v)[k] = s[k]
<1> TAKE s \in Seq(Values), v \in Values
<1> QED BY ThenIs

LEMMA ThenCall ==
  \A s \in Seq(Calls), c \in Calls :
    /\ Then(s, c) \in Seq(Calls) /\ Len(Then(s, c)) = Len(s) + 1
    /\ Then(s, c)[Len(s) + 1] = c
    /\ \A k \in 1..Len(s) : Then(s, c)[k] = s[k]
<1> TAKE s \in Seq(Calls), c \in Calls
<1> QED BY ThenIs

LEMMA TwoWords ==
  ASSUME NEW S, NEW a \in S, NEW b \in S
  PROVE  Then(Then(<<>>, a), b) = <<a, b>>
<1> DEFINE s == <<a>>
           t == <<a, b>>
<1>1. s \in Seq(S) /\ Len(s) = 1 /\ s[1] = a
  OBVIOUS
<1>2. t \in Seq(S) /\ Len(t) = 2 /\ t[1] = a /\ t[2] = b
  OBVIOUS
<1>3. Then(<<>>, a) = s
  BY DEF Then
<1> HIDE DEF s, t
<1>4. Then(s, b) \in Seq(S) /\ Len(Then(s, b)) = 2 /\ Then(s, b)[2] = b /\ Then(s, b)[1] = a
  <2>1. s \in Seq(S) /\ b \in S
    BY <1>1
  <2>2. /\ Then(s, b) \in Seq(S) /\ Len(Then(s, b)) = Len(s) + 1
        /\ Then(s, b)[Len(s) + 1] = b
        /\ \A k \in 1..Len(s) : Then(s, b)[k] = s[k]
    BY <2>1, ThenIs
  <2>3. Len(s) + 1 = 2 /\ 1 \in 1..Len(s)
    BY <1>1
  <2> QED BY <1>1, <2>2, <2>3
<1> DEFINE u == Then(s, b)
<1>5. u \in Seq(S) /\ Len(u) = Len(t) /\ \A k \in 1..Len(u) : u[k] = t[k]
  BY <1>2, <1>4
<1> HIDE DEF u
<1>6. u = t
  BY <1>2, <1>5, SeqEqual
<1> QED BY <1>3, <1>6 DEF u, t

LEMMA WordBehind ==
  \A s, t \in Seq(Values), v \in Values : Then(s \o t, v) = s \o Then(t, v)
<1> TAKE s, t \in Seq(Values), v \in Values
<1> QED BY AppendBehind

LEMMA CallBehind ==
  \A s, t \in Seq(Calls), c \in Calls : Then(s \o t, c) = s \o Then(t, c)
<1> TAKE s, t \in Seq(Calls), c \in Calls
<1> QED BY AppendBehind

LEMMA AppendsOne ==
  ASSUME NEW S, NEW s \in Seq(S), NEW c \in S
  PROVE  /\ <<c>> \in Seq(S) /\ <<c>> \o s \in Seq(S) /\ Len(<<c>> \o s) = Len(s) + 1
         /\ (<<c>> \o s)[1] = c /\ <<c>> \o s # <<>>
         /\ \A k \in 1..Len(s) : (<<c>> \o s)[k + 1] = s[k]
         /\ Then(<<>>, c) = <<c>> \o <<>>
<1> DEFINE o == <<c>>
<1>1. o \in Seq(S) /\ Len(o) = 1 /\ o[1] = c /\ Len(s) \in Nat
  BY LenProperties
<1>2. Then(<<>>, c) = o \o <<>>
  BY DEF Then
<1> HIDE DEF o
<1>3. /\ o \o s \in Seq(S) /\ Len(o \o s) = Len(o) + Len(s)
      /\ \A k \in 1..(Len(o) + Len(s)) : (o \o s)[k] = IF k <= Len(o) THEN o[k] ELSE s[k - Len(o)]
  BY <1>1, ConcatProperties
<1> DEFINE u == o \o s
<1> HIDE DEF u
<1>4. /\ u \in Seq(S) /\ Len(u) = 1 + Len(s)
      /\ \A k \in 1..(1 + Len(s)) : u[k] = IF k <= 1 THEN o[k] ELSE s[k - 1]
  BY <1>1, <1>3, Zenon DEF u
<1>5. u[1] = c /\ Len(u) = Len(s) + 1 /\ u # <<>>
  BY <1>1, <1>4, EmptySeq
<1>6. ASSUME NEW k \in 1..Len(s) PROVE u[k + 1] = s[k]
  <2>1. k + 1 \in 1..(1 + Len(s)) /\ ~(k + 1 <= 1) /\ (k + 1) - 1 = k
    BY <1>1
  <2> QED BY <1>4, <2>1
<1> QED BY <1>1, <1>2, <1>4, <1>5, <1>6 DEF o, u

-----------------------------------------------------------------------------
(* How such a dialogue grows and is used up. *)

LEMMA PlaysTyped ==
  ASSUME NEW words, NEW cs, NEW z, Plays(words, cs, z)
  PROVE  words \in Seq(Values) /\ cs \in Seq(Calls) /\ z \in Seq(Values)
<1>1. PICK n \in Nat : \E rest \in [0..n -> Seq(Values)], due \in [0..n -> Seq(Calls)] :
        rest[0] = words /\ rest[n] = z /\ due[0] = cs /\ due[n] = <<>>
  BY DEF Plays
<1>2. 0 \in 0..n /\ n \in 0..n
  OBVIOUS
<1> QED BY <1>1, <1>2

LEMMA PlaysNothing ==
  ASSUME NEW z \in Seq(Values)
  PROVE  Plays(z, <<>>, z)
<1> DEFINE rest == [j \in 0..0 |-> z]
           due == [j \in 0..0 |-> <<>>]
<1>1. <<>> \in Seq(Calls) /\ 0 \in 0..0 /\ 0 \in Nat
  BY EmptySeq
<1>2. rest \in [0..0 -> Seq(Values)] /\ due \in [0..0 -> Seq(Calls)]
  BY <1>1
<1>3. rest[0] = z /\ due[0] = <<>>
  BY <1>1
<1>4. \A j \in 1..0 : FALSE
  OBVIOUS
<1> HIDE DEF rest, due
<1> QED BY <1>1, <1>2, <1>3, <1>4 DEF Plays

(* A word more is a word more that is no command's. *)
LEMMA PlaysGrow ==
  ASSUME NEW words, NEW cs, NEW z, Plays(words, cs, z), NEW v \in Values
  PROVE  Plays(Then(words, v), cs, Then(z, v))
<1>0. PICK n \in Nat :
        \E rest \in [0..n -> Seq(Values)], due \in [0..n -> Seq(Calls)] :
          /\ rest[0] = words /\ rest[n] = z /\ due[0] = cs /\ due[n] = <<>>
          /\ \A j \in 1..n : \E c \in Commands :
               /\ rest[j - 1] = Words(c) \o rest[j]
               /\ due[j - 1] = IF c.op \in Op THEN <<c>> \o due[j] ELSE due[j]
  BY DEF Plays
<1>1. PICK rest \in [0..n -> Seq(Values)], due \in [0..n -> Seq(Calls)] :
        /\ rest[0] = words /\ rest[n] = z /\ due[0] = cs /\ due[n] = <<>>
        /\ \A j \in 1..n : \E c \in Commands :
             /\ rest[j - 1] = Words(c) \o rest[j]
             /\ due[j - 1] = IF c.op \in Op THEN <<c>> \o due[j] ELSE due[j]
  BY <1>0
<1> DEFINE more == [j \in 0..n |-> Then(rest[j], v)]
<1>2. more \in [0..n -> Seq(Values)] /\ \A j \in 0..n : more[j] = Then(rest[j], v)
  BY AppendProperties DEF Then
<1>3. 0 \in 0..n /\ n \in 0..n
  OBVIOUS
<1>4. ASSUME NEW j \in 1..n
      PROVE  \E c \in Commands :
               /\ more[j - 1] = Words(c) \o more[j]
               /\ due[j - 1] = IF c.op \in Op THEN <<c>> \o due[j] ELSE due[j]
  <2>1. j \in 0..n /\ j - 1 \in 0..n
    OBVIOUS
  <2>2. PICK c \in Commands :
          /\ rest[j - 1] = Words(c) \o rest[j]
          /\ due[j - 1] = IF c.op \in Op THEN <<c>> \o due[j] ELSE due[j]
    BY <1>1
  <2>3. Words(c) \in Seq(Values) /\ rest[j] \in Seq(Values)
    BY <2>1, CommandIs
  <2>4. Then(Words(c) \o rest[j], v) = Words(c) \o Then(rest[j], v)
    BY <2>3, WordBehind
  <2>5. more[j - 1] = Words(c) \o more[j]
    BY <1>2, <2>1, <2>2, <2>4
  <2> QED BY <2>2, <2>5
<1>5. more[0] = Then(words, v) /\ more[n] = Then(z, v)
  BY <1>1, <1>2, <1>3
<1> HIDE DEF more
<1>6. n \in Nat
  OBVIOUS
<1>7. due[0] = cs /\ due[n] = <<>>
  BY <1>1
<1>8. \A j \in 1..n : \E c \in Commands :
        /\ more[j - 1] = Words(c) \o more[j]
        /\ due[j - 1] = IF c.op \in Op THEN <<c>> \o due[j] ELSE due[j]
  BY <1>4
<1>9. \E rst \in [0..n -> Seq(Values)], du \in [0..n -> Seq(Calls)] :
        /\ rst[0] = Then(words, v) /\ rst[n] = Then(z, v) /\ du[0] = cs /\ du[n] = <<>>
        /\ \A j \in 1..n : \E c \in Commands :
             /\ rst[j - 1] = Words(c) \o rst[j]
             /\ du[j - 1] = IF c.op \in Op THEN <<c>> \o du[j] ELSE du[j]
  BY <1>2, <1>5, <1>7, <1>8, Zenon
<1> QED BY <1>6, <1>9 DEF Plays

(* Words that have become a command are one. *)
LEMMA PlaysMore ==
  ASSUME NEW words, NEW cs, NEW c \in Commands, Plays(words, cs, Words(c))
  PROVE  Plays(words, IF c.op \in Op THEN Then(cs, c) ELSE cs, <<>>)
<1>0. PICK n \in Nat :
        \E rest \in [0..n -> Seq(Values)], due \in [0..n -> Seq(Calls)] :
          /\ rest[0] = words /\ rest[n] = Words(c) /\ due[0] = cs /\ due[n] = <<>>
          /\ \A j \in 1..n : \E d \in Commands :
               /\ rest[j - 1] = Words(d) \o rest[j]
               /\ due[j - 1] = IF d.op \in Op THEN <<d>> \o due[j] ELSE due[j]
  BY DEF Plays
<1>1. PICK rest \in [0..n -> Seq(Values)], due \in [0..n -> Seq(Calls)] :
        /\ rest[0] = words /\ rest[n] = Words(c) /\ due[0] = cs /\ due[n] = <<>>
        /\ \A j \in 1..n : \E d \in Commands :
             /\ rest[j - 1] = Words(d) \o rest[j]
             /\ due[j - 1] = IF d.op \in Op THEN <<d>> \o due[j] ELSE due[j]
  BY <1>0
<1> DEFINE With(s) == IF c.op \in Op THEN Then(s, c) ELSE s
           m == n + 1
           more == [j \in 0..m |-> IF j = m THEN <<>> ELSE rest[j]]
           owed == [j \in 0..m |-> IF j = m THEN <<>> ELSE With(due[j])]
<1>2. /\ m \in Nat /\ 0 \in 0..m /\ m \in 0..m /\ 0 # m /\ 0 \in 0..n /\ n \in 0..n
      /\ \A j \in 0..m : j # m => j \in 0..n
  OBVIOUS
<1>3. <<>> \in Seq(Values) /\ <<>> \in Seq(Calls)
  BY EmptySeq
<1>4. \A s \in Seq(Calls) : With(s) \in Seq(Calls)
  BY CommandIs, AppendProperties DEF Then
<1>5. /\ more \in [0..m -> Seq(Values)]
      /\ \A j \in 0..n : more[j] = rest[j]
      /\ more[m] = <<>>
  BY <1>2, <1>3
<1>6. /\ owed \in [0..m -> Seq(Calls)]
      /\ \A j \in 0..n : owed[j] = With(due[j])
      /\ owed[m] = <<>>
  <2> HIDE DEF With
  <2> QED BY <1>2, <1>3, <1>4
<1>7. m - 1 = n
  OBVIOUS
<1> HIDE DEF more, owed
<1>8. ASSUME NEW j \in 1..m
      PROVE  \E d \in Commands :
               /\ more[j - 1] = Words(d) \o more[j]
               /\ owed[j - 1] = IF d.op \in Op THEN <<d>> \o owed[j] ELSE owed[j]
  <2>1. CASE j = m
    <3>1. more[j - 1] = Words(c) /\ more[j] = <<>> /\ owed[j] = <<>> /\ owed[j - 1] = With(<<>>)
      BY <1>1, <1>2, <1>5, <1>6, <1>7, <2>1
    <3>2. Words(c) \o <<>> = Words(c)
      BY CommandIs, ConcatEmptySeq
    <3>3. c.op \in Op => Then(<<>>, c) = <<c>> \o <<>>
      BY <1>3, CommandIs, AppendsOne
    <3> QED BY <3>1, <3>2, <3>3
  <2>2. CASE j # m
    <3>1. j \in 1..n /\ j \in 0..n /\ j - 1 \in 0..n
      BY <2>2
    <3>2. PICK d \in Commands :
            /\ rest[j - 1] = Words(d) \o rest[j]
            /\ due[j - 1] = IF d.op \in Op THEN <<d>> \o due[j] ELSE due[j]
      BY <1>1, <3>1
    <3>3. more[j - 1] = Words(d) \o more[j]
      BY <1>5, <3>1, <3>2
    <3>4. With(due[j - 1]) = IF d.op \in Op THEN <<d>> \o With(due[j]) ELSE With(due[j])
      <4>1. CASE d.op \in Op /\ c.op \in Op
        <5>1. d \in Calls /\ c \in Calls /\ due[j] \in Seq(Calls)
          BY <3>1, <4>1, CommandIs
        <5>2. <<d>> \in Seq(Calls)
          BY <5>1
        <5>3. Then(<<d>> \o due[j], c) = <<d>> \o Then(due[j], c)
          BY <5>1, <5>2, CallBehind
        <5> QED BY <3>2, <4>1, <5>3
      <4>2. CASE ~(d.op \in Op /\ c.op \in Op)
        BY <3>2, <4>2
      <4> QED BY <4>1, <4>2
    <3>5. owed[j - 1] = With(due[j - 1]) /\ owed[j] = With(due[j])
      BY <1>6, <3>1
    <3> HIDE DEF With
    <3> QED BY <3>3, <3>4, <3>5
  <2> QED BY <2>1, <2>2
<1>9. more[0] = words /\ owed[0] = With(cs)
  BY <1>1, <1>2, <1>5, <1>6
<1> HIDE DEF m
<1>10. Plays(words, With(cs), <<>>)
  <2> DEFINE whole == With(cs)
  <2>1. \A j \in 1..m : \E d \in Commands :
          /\ more[j - 1] = Words(d) \o more[j]
          /\ owed[j - 1] = IF d.op \in Op THEN <<d>> \o owed[j] ELSE owed[j]
    BY <1>8
  <2>2. more \in [0..m -> Seq(Values)] /\ more[0] = words /\ more[m] = <<>>
    BY <1>5, <1>9
  <2> HIDE DEF With
  <2>3. owed \in [0..m -> Seq(Calls)] /\ owed[0] = whole /\ owed[m] = <<>>
    BY <1>6, <1>9
  <2>4. m \in Nat
    BY <1>2
  <2> HIDE DEF whole
  <2>5. \E rst \in [0..m -> Seq(Values)], du \in [0..m -> Seq(Calls)] :
          /\ rst[0] = words /\ rst[m] = <<>> /\ du[0] = whole /\ du[m] = <<>>
          /\ \A j \in 1..m : \E d \in Commands :
               /\ rst[j - 1] = Words(d) \o rst[j]
               /\ du[j - 1] = IF d.op \in Op THEN <<d>> \o du[j] ELSE du[j]
    BY <2>1, <2>2, <2>3, Zenon
  <2>6. Plays(words, whole, <<>>)
    BY <2>4, <2>5 DEF Plays
  <2> QED BY <2>6 DEF whole
<1> QED BY <1>10

(* A dialogue that still has calls to make begins with a command. *)
Begins(words, cs, z) ==
  \E c \in Commands, left \in Seq(Values), ds \in Seq(Calls) :
    /\ words = Words(c) \o left
    /\ cs = IF c.op \in Op THEN <<c>> \o ds ELSE ds
    /\ Plays(left, ds, z)

LEMMA PlaysFirst ==
  ASSUME NEW words, NEW cs, NEW z, Plays(words, cs, z), cs # <<>>
  PROVE  Begins(words, cs, z)
<1> SUFFICES \E c \in Commands, left \in Seq(Values), ds \in Seq(Calls) :
               /\ words = Words(c) \o left
               /\ cs = IF c.op \in Op THEN <<c>> \o ds ELSE ds
               /\ Plays(left, ds, z)
  BY DEF Begins
<1>0. PICK n \in Nat :
        \E rest \in [0..n -> Seq(Values)], due \in [0..n -> Seq(Calls)] :
          /\ rest[0] = words /\ rest[n] = z /\ due[0] = cs /\ due[n] = <<>>
          /\ \A j \in 1..n : \E c \in Commands :
               /\ rest[j - 1] = Words(c) \o rest[j]
               /\ due[j - 1] = IF c.op \in Op THEN <<c>> \o due[j] ELSE due[j]
  BY DEF Plays
<1>1. PICK rest \in [0..n -> Seq(Values)], due \in [0..n -> Seq(Calls)] :
        /\ rest[0] = words /\ rest[n] = z /\ due[0] = cs /\ due[n] = <<>>
        /\ \A j \in 1..n : \E c \in Commands :
             /\ rest[j - 1] = Words(c) \o rest[j]
             /\ due[j - 1] = IF c.op \in Op THEN <<c>> \o due[j] ELSE due[j]
  BY <1>0
<1>2. n # 0
  BY <1>1
<1>3. 1 \in 1..n /\ 1 \in 0..n /\ 1 - 1 = 0
  BY <1>2
<1>4. PICK c \in Commands :
        words = Words(c) \o rest[1] /\ cs = IF c.op \in Op THEN <<c>> \o due[1] ELSE due[1]
  BY <1>1, <1>3
<1>5. rest[1] \in Seq(Values) /\ due[1] \in Seq(Calls)
  BY <1>3
<1>6. Plays(rest[1], due[1], z)
  <2> DEFINE m == n - 1
             less == [j \in 0..m |-> rest[j + 1]]
             owed == [j \in 0..m |-> due[j + 1]]
  <2>1. m \in Nat /\ 0 \in 0..m /\ m \in 0..m /\ m + 1 = n /\ 0 + 1 = 1
        /\ \A j \in 0..m : j + 1 \in 0..n
    BY <1>2
  <2>2. less \in [0..m -> Seq(Values)] /\ owed \in [0..m -> Seq(Calls)]
    BY <2>1
  <2>3. less[0] = rest[1] /\ less[m] = z /\ owed[0] = due[1] /\ owed[m] = <<>>
    BY <1>1, <2>1
  <2>4. ASSUME NEW j \in 1..m
        PROVE  \E d \in Commands :
                 /\ less[j - 1] = Words(d) \o less[j]
                 /\ owed[j - 1] = IF d.op \in Op THEN <<d>> \o owed[j] ELSE owed[j]
    <3>1. j + 1 \in 1..n /\ (j + 1) - 1 = j /\ j \in 0..m /\ j - 1 \in 0..m /\ (j - 1) + 1 = j
      BY <2>1
    <3>2. PICK d \in Commands :
            /\ rest[j] = Words(d) \o rest[j + 1]
            /\ due[j] = IF d.op \in Op THEN <<d>> \o due[j + 1] ELSE due[j + 1]
      BY <1>1, <3>1
    <3>3. less[j - 1] = rest[j] /\ less[j] = rest[j + 1] /\ owed[j - 1] = due[j]
          /\ owed[j] = due[j + 1]
      BY <3>1
    <3> QED BY <3>2, <3>3
  <2> HIDE DEF less, owed
  <2>5. m \in Nat
    BY <2>1
  <2> HIDE DEF m
  <2>6. \E r \in [0..m -> Seq(Values)], q \in [0..m -> Seq(Calls)] :
          /\ r[0] = rest[1] /\ r[m] = z /\ q[0] = due[1] /\ q[m] = <<>>
          /\ \A j \in 1..m : \E d \in Commands :
               /\ r[j - 1] = Words(d) \o r[j]
               /\ q[j - 1] = IF d.op \in Op THEN <<d>> \o q[j] ELSE q[j]
    BY <2>2, <2>3, <2>4
  <2> QED BY <2>5, <2>6 DEF Plays
<1> DEFINE left == rest[1]
           ds == due[1]
<1>7. /\ left \in Seq(Values) /\ ds \in Seq(Calls) /\ Plays(left, ds, z)
      /\ words = Words(c) \o left /\ cs = IF c.op \in Op THEN <<c>> \o ds ELSE ds
  BY <1>4, <1>5, <1>6
<1> HIDE DEF left, ds
<1> QED BY <1>7

-----------------------------------------------------------------------------
(* The invariant *)

(* Nothing is read of an argument before its command's turn. *)
Blank == round.at # "args" => round.args = <<>>

(* The first session: the record has the calls that are not behind the     *)
(* first loss, and as long as there was none it ends with what has been    *)
(* read of the command that is being typed.                                *)
Kept == IF faithful = -1 THEN Len(calls) ELSE faithful

Open(z) ==
  /\ round.at # "args" => z = <<>> /\ cin
  /\ round.at = "file" => round.op # Nothing
  /\ round.at = "args" /\ FullyKept(round.op) =>
       /\ cin /\ z = Words(round) /\ round.op # Nothing /\ round.file # Nothing
       /\ \A k \in 1..Len(round.args) : Fits(Wanted(round.op)[k], round.args[k])

Recorder ==
  session = "first" =>
    /\ ~myin /\ Kept \in 0..Len(calls)
    /\ \E cs \in Seq(Calls), z \in Seq(Values) :
         /\ Plays(record, cs, z)
         /\ Len(cs) = Kept /\ \A k \in 1..Len(cs) : cs[k] = calls[k]
         /\ faithful = -1 => Open(z)

(* The second session: until it has made the calls that the record has,    *)
(* the words it has read of a command and those the script has still to    *)
(* give are a dialogue that makes the rest of them.                        *)
Ahead ==
  IF round.at = "op" THEN script
  ELSE IF round.at = "file" THEN <<round.op>> \o script
  ELSE Words(round) \o script

Running ==
  /\ session = "replay" /\ myin /\ cin
  /\ \E cs \in Seq(Calls), z \in Seq(Values) :
       /\ Plays(Ahead, cs, z)
       /\ Len(calls) + Len(cs) = faithful
       /\ \A k \in 1..Len(cs) : cs[k] = made[Len(calls) + k]

Player ==
  session # "first" =>
    /\ faithful \in 0..Len(made)
    /\ \A k \in 1..Len(calls) : k <= faithful => calls[k] = made[k]
    /\ Len(calls) >= faithful \/ Running

SInv == TypeOK /\ Blank /\ Recorder /\ Player

-----------------------------------------------------------------------------
(* What each read does to the round. *)

Rounds == [at: {"op", "file", "args"}, op: Values, file: Values, args: Seq(Values)]

LEMMA StringsDiffer ==
  /\ Nothing \notin Op /\ Nothing # Zero /\ Zero \in Values /\ Nothing \in Values
  /\ Op \subseteq Values /\ {File, Good, Bad} \subseteq Values
<1>1. Op = {"rmdir", "mkdir", "chown", "rename", "symlink", "pread", "pwrite", "truncate",
            "utime", "lsetxattr", "lgetxattr", "lremovexattr"}
  BY DEF Op, Arguments
<1>2. Nothing \notin Op /\ Nothing # Zero
  BY <1>1 DEF Nothing, Zero
<1> HIDE DEF Nothing, Zero
<1> QED BY <1>2 DEF Values

LEMMA RoundAdds ==
  ASSUME NEW r \in Rounds, NEW v \in Values
  PROVE  /\ [r EXCEPT !.args = Append(@, v)] \in Rounds
         /\ [r EXCEPT !.args = Append(@, v)].at = r.at
         /\ [r EXCEPT !.args = Append(@, v)].op = r.op
         /\ [r EXCEPT !.args = Append(@, v)].file = r.file
         /\ [r EXCEPT !.args = Append(@, v)].args = Then(r.args, v)
<1> DEFINE a == Then(r.args, v)
<1>1. r.args \in Seq(Values)
  BY DEF Rounds
<1>2. a \in Seq(Values)
  BY <1>1, AppendProperties DEF Then
<1>3. [r EXCEPT !.args = Append(@, v)] = [r EXCEPT !.args = a]
  BY DEF Then
<1> HIDE DEF a
<1>4. /\ [r EXCEPT !.args = a] \in Rounds /\ [r EXCEPT !.args = a].at = r.at
      /\ [r EXCEPT !.args = a].op = r.op /\ [r EXCEPT !.args = a].file = r.file
      /\ [r EXCEPT !.args = a].args = a
  BY <1>2 DEF Rounds
<1> QED BY <1>3, <1>4 DEF a

LEMMA FreshIs ==
  /\ Fresh \in Rounds /\ Fresh.at = "op" /\ Fresh.args = <<>>
BY EmptySeq DEF Fresh, Rounds, Values

LEMMA RecordedTyped ==
  ASSUME NEW s \in Seq(Values \ {Nothing}), NEW v \in Values
  PROVE  /\ Recorded(s, v) \in Seq(Values \ {Nothing})
         /\ v = Nothing => Recorded(s, v) = s
         /\ v # Nothing => Recorded(s, v) = Then(s, v)
BY AppendProperties DEF Recorded, Then

LEMMA ScriptTyped ==
  ASSUME NEW arg, NEW v \in Values, script \in Seq(Values), myin \in BOOLEAN, FromScript(arg, v)
  PROVE  script' \in Seq(Values) /\ myin' \in BOOLEAN
BY HeadTailProperties DEF FromScript

(* The words of a script that are read one after the other. *)
LEMMA HeadBack ==
  ASSUME NEW s \in Seq(Values), s # <<>>
  PROVE  /\ Head(s) \in Values /\ Tail(s) \in Seq(Values) /\ <<Head(s)>> \in Seq(Values)
         /\ Head(s) = s[1] /\ <<Head(s)>> \o Tail(s) = s
<1>1. Head(s) \in Values /\ Tail(s) \in Seq(Values) /\ Head(s) = s[1]
  BY HeadTailProperties
<1>2. <<Head(s)>> \in Seq(Values)
  BY <1>1
<1>3. s = <<Head(s)>> \o Tail(s)
  BY HeadTailProperties
<1> QED BY <1>1, <1>2, <1>3

LEMMA WordsTogether ==
  \A s, t, u \in Seq(Values) : (s \o t) \o u = s \o (t \o u)
<1> TAKE s, t, u \in Seq(Values)
<1> QED BY ConcatAssociative

LEMMA Shift ==
  ASSUME NEW p \in Seq(Values), NEW s \in Seq(Values), s # <<>>
  PROVE  Then(p, Head(s)) \o Tail(s) = p \o s
<1> DEFINE h == <<Head(s)>>
           t == Tail(s)
<1>1. h \in Seq(Values) /\ t \in Seq(Values) /\ h \o t = s
  BY HeadBack
<1>2. Then(p, Head(s)) = p \o h
  BY HeadBack, AppendIsConcat DEF Then
<1> HIDE DEF h, t
<1>3. (p \o h) \o t = p \o (h \o t)
  BY <1>1, WordsTogether
<1> QED BY <1>1, <1>2, <1>3 DEF t

Same(s, t, u, w) ==
  /\ Len(s) + Len(t) = Len(u) + Len(w)
  /\ \A k \in 1..Len(s) : k <= Len(u) => s[k] = u[k]
  /\ \A k \in 1..Len(u) : Len(s) < k => t[k - Len(s)] = u[k]
  /\ Len(s) = Len(u) => s = u /\ t = w

LEMMA SameWords ==
  ASSUME NEW s \in Seq(Values), NEW t \in Seq(Values),
         NEW u \in Seq(Values), NEW w \in Seq(Values),
         NEW x, x = s \o t, x = u \o w
  PROVE  Same(s, t, u, w)
<1> DEFINE a == s \o t
           b == u \o w
<1>0. Len(s) \in Nat /\ Len(t) \in Nat /\ Len(u) \in Nat /\ Len(w) \in Nat
  BY LenProperties
<1>1. /\ Len(a) = Len(s) + Len(t)
      /\ \A k \in 1..(Len(s) + Len(t)) : a[k] = IF k <= Len(s) THEN s[k] ELSE t[k - Len(s)]
  BY ConcatProperties
<1>2. /\ Len(b) = Len(u) + Len(w)
      /\ \A k \in 1..(Len(u) + Len(w)) : b[k] = IF k <= Len(u) THEN u[k] ELSE w[k - Len(u)]
  BY ConcatProperties
<1>3. a = b
  OBVIOUS
<1> HIDE DEF a, b
<1>4. Len(s) + Len(t) = Len(u) + Len(w)
  BY <1>1, <1>2, <1>3
<1>5. ASSUME NEW k \in 1..Len(s), k <= Len(u) PROVE s[k] = u[k]
  BY <1>0, <1>1, <1>2, <1>3, <1>5
<1>6. ASSUME NEW k \in 1..Len(u), Len(s) < k PROVE t[k - Len(s)] = u[k]
  <2>1. k \in 1..(Len(s) + Len(t)) /\ k \in 1..(Len(u) + Len(w))
    BY <1>0, <1>4, <1>6
  <2>2. a[k] = t[k - Len(s)]
    BY <1>0, <1>1, <1>6, <2>1
  <2>3. b[k] = u[k]
    BY <1>0, <1>2, <1>6, <2>1
  <2> QED BY <1>3, <2>2, <2>3
<1>7. ASSUME Len(s) = Len(u) PROVE s = u /\ t = w
  <2>1. \A k \in 1..Len(s) : s[k] = u[k]
    BY <1>0, <1>5, <1>7
  <2>2. Len(t) = Len(w)
    BY <1>0, <1>4, <1>7
  <2>3. ASSUME NEW k \in 1..Len(t) PROVE t[k] = w[k]
    <3>1. /\ k + Len(s) \in 1..(Len(s) + Len(t)) /\ ~(k + Len(s) <= Len(s))
          /\ (k + Len(s)) - Len(s) = k
      BY <1>0
    <3> QED BY <1>1, <1>2, <1>3, <1>4, <1>7, <3>1
  <2>4. s = u
    BY <1>7, <2>1, SeqEqual
  <2>5. t = w
    BY <2>2, <2>3, SeqEqual
  <2> QED BY <2>4, <2>5
<1> QED BY <1>4, <1>5, <1>6, <1>7 DEF Same

-----------------------------------------------------------------------------
(* What each step does, and the types. *)

LEMMA RoundTyped ==
  ASSUME TypeOK
  PROVE  round \in Rounds /\ round.op \in Values /\ round.file \in Values
         /\ round.args \in Seq(Values) /\ Len(round.args) \in Nat
         /\ round.at \in {"op", "file", "args"} /\ Len(calls) \in Nat /\ Len(made) \in Nat
<1>1. round \in Rounds
  BY DEF TypeOK, Rounds
<1>2. round.op \in Values /\ round.file \in Values /\ round.args \in Seq(Values)
      /\ round.at \in {"op", "file", "args"}
  BY <1>1 DEF Rounds
<1>3. Len(round.args) \in Nat /\ Len(calls) \in Nat /\ Len(made) \in Nat
  BY <1>2, LenProperties DEF TypeOK
<1> QED BY <1>1, <1>2, <1>3

LEMMA FreshTyped ==
  ASSUME round' = Fresh
  PROVE  round' \in Rounds /\ Len(round'.args) <= Len(Wanted(round'.op)) /\ Blank'
<1>1. Len(Fresh.args) <= Len(Wanted(Fresh.op))
  BY FreshIs, WantedIs
<1> QED BY <1>1, FreshIs DEF Blank

LEMMA OpRead ==
  ASSUME TypeOK, Blank, ReadOp
  PROVE  /\ TypeOK' /\ Blank'
         /\ round.at = "op" /\ round'.at = "file"
         /\ session = "first" =>
              /\ cin => round'.op # Nothing
              /\ UNCHANGED <<script, myin>>
         /\ session # "first" => session = "replay" /\ myin /\ FromScript(Word, round'.op)
         /\ UNCHANGED <<session, cin, record, calls, made, faithful>>
<1>0. round.at = "op" /\ session # "over" /\ session \in {"first", "replay", "over"}
      /\ UNCHANGED <<session, cin, record, calls, made, faithful>> /\ round.args = <<>>
  BY DEF ReadOp, TypeOK, Blank
<1>1. PICK v \in Values :
        /\ round' = [round EXCEPT !.at = "file", !.op = v]
        /\ session = "first" => FromKeyboard(Op \cup {Bad}, v)
        /\ session # "first" => myin /\ FromScript(Word, v)
  BY <1>0 DEF ReadOp
<1>2. /\ round' \in Rounds /\ round'.at = "file" /\ round'.op = v /\ round'.args = <<>>
  <2>1. PICK r \in Rounds : r = round /\ r.args = <<>>
    BY <1>0, RoundTyped
  <2>2. PICK q : q = round'
    OBVIOUS
  <2>3. q = [r EXCEPT !.at = "file", !.op = v]
    BY <1>1, <2>1, <2>2
  <2>4. q \in Rounds /\ q.at = "file" /\ q.op = v /\ q.args = <<>>
    <3>1. q \in Rounds /\ q.at = "file" /\ q.op = v /\ q.args = r.args
      BY <2>3 DEF Rounds
    <3> QED BY <2>1, <3>1
  <2> QED BY <2>1, <2>2, <2>4
<1>3. Blank'
  BY <1>2 DEF Blank
<1>4. session = "first" => (cin => v # Nothing) /\ UNCHANGED <<script, myin>>
  <2>1. ASSUME session = "first" PROVE FromKeyboard(Op \cup {Bad}, v)
    BY <1>1, <2>1
  <2>2. Nothing \notin Op /\ Nothing # Bad
    BY ShellAssumption, StringsDiffer
  <2>3. ASSUME session = "first", cin PROVE v # Nothing
    BY <2>1, <2>2, <2>3 DEF FromKeyboard
  <2>4. ASSUME session = "first" PROVE UNCHANGED <<script, myin>>
    BY <2>1, <2>4 DEF FromKeyboard
  <2> QED BY <2>3, <2>4
<1>5. script' \in Seq(Values) /\ myin' \in BOOLEAN
  BY <1>0, <1>1, <1>4, ScriptTyped DEF TypeOK
<1>6. Len(round'.args) <= Len(Wanted(round'.op))
  <2>1. Len(Wanted(v)) \in Nat
    BY WantedIs
  <2> QED BY <1>2, <2>1
<1>7. TypeOK'
  BY <1>0, <1>2, <1>5, <1>6 DEF TypeOK, Rounds
<1> QED BY <1>0, <1>1, <1>2, <1>3, <1>4, <1>7

LEMMA FileRead ==
  ASSUME TypeOK, Blank, ReadFile
  PROVE  /\ TypeOK' /\ Blank'
         /\ round.at = "file" /\ round'.at = "args" /\ round'.op = round.op
         /\ round'.file \in Values /\ round'.args = <<>> /\ round.args = <<>>
         /\ record' = Recorded(Recorded(record, round.op), round'.file)
         /\ session = "first" =>
              /\ cin => round'.file # Nothing
              /\ UNCHANGED <<script, myin>>
         /\ session # "first" /\ myin => FromScript(Word, round'.file)
         /\ UNCHANGED <<session, cin, calls, made, faithful>>
<1>0. round.at = "file" /\ session \in {"first", "replay", "over"}
      /\ UNCHANGED <<session, cin, calls, made, faithful>> /\ round.args = <<>>
  BY DEF ReadFile, TypeOK, Blank
<1>1. PICK v \in Values :
        /\ \/ session = "first" /\ FromKeyboard({File}, v)
           \/ session = "replay" /\ myin /\ FromScript(Word, v)
           \/ session = "replay" /\ ~myin /\ v = Nothing /\ UNCHANGED <<script, myin>>
        /\ round' = [round EXCEPT !.at = "args", !.file = v]
        /\ record' = Recorded(Recorded(record, round.op), v)
  BY DEF ReadFile
<1>2. /\ round' \in Rounds /\ round'.at = "args" /\ round'.op = round.op
      /\ round'.file = v /\ round'.args = <<>>
  <2>1. PICK r \in Rounds : r = round /\ r.args = <<>>
    BY <1>0, RoundTyped
  <2>2. PICK q : q = round'
    OBVIOUS
  <2>3. q = [r EXCEPT !.at = "args", !.file = v]
    BY <1>1, <2>1, <2>2
  <2>4. q \in Rounds /\ q.at = "args" /\ q.op = r.op /\ q.file = v /\ q.args = <<>>
    <3>1. q \in Rounds /\ q.at = "args" /\ q.op = r.op /\ q.file = v /\ q.args = r.args
      BY <2>3 DEF Rounds
    <3> QED BY <2>1, <3>1
  <2> QED BY <2>1, <2>2, <2>4
<1>3. Blank'
  BY <1>2 DEF Blank
<1>4. session = "first" => (cin => v # Nothing) /\ UNCHANGED <<script, myin>>
  BY <1>1, StringsDiffer, ShellAssumption DEF FromKeyboard
<1>5. script' \in Seq(Values) /\ myin' \in BOOLEAN
  BY <1>0, <1>1, <1>4, ScriptTyped DEF TypeOK
<1>6. record' \in Seq(Values \ {Nothing})
  BY <1>1, RoundTyped, RecordedTyped DEF TypeOK
<1>7. Len(round'.args) <= Len(Wanted(round'.op))
  <2>1. Len(Wanted(round.op)) \in Nat
    BY WantedIs
  <2> QED BY <1>2, <2>1
<1>8. TypeOK'
  BY <1>0, <1>2, <1>5, <1>6, <1>7 DEF TypeOK, Rounds
<1>9. session # "first" /\ myin => FromScript(Word, v)
  BY <1>1
<1> QED BY <1>0, <1>1, <1>2, <1>3, <1>4, <1>8, <1>9

Asked == Wanted(round.op)[Len(round.args) + 1]

(* The argument is taken, or the command given up. *)
Taken(v, failed) ==
  /\ ~(Asked.checked /\ failed)
  /\ cin' = ~failed
  /\ round'.at = "args" /\ round'.op = round.op /\ round'.file = round.file
  /\ round'.args = Then(round.args, v)
  /\ record' = IF Asked.kept THEN Recorded(record, v) ELSE record
  /\ UNCHANGED faithful

Given(v, failed) ==
  \/ Asked.script /\ myin /\ FromScript(Asked, v) /\ failed = ~cin
  \/ /\ ~(Asked.script /\ myin) /\ UNCHANGED <<script, myin>>
     /\ failed = (~cin \/ (Asked.number /\ v = Zero))
     /\ cin => v # Nothing /\ (Asked.number => v \in {Good, Zero})

LEMMA ArgumentRead ==
  ASSUME TypeOK, Blank, ReadArgument
  PROVE  /\ TypeOK' /\ Blank'
         /\ round.at = "args" /\ Len(round.args) < Len(Wanted(round.op)) /\ Asked \in ArgKind
         /\ UNCHANGED <<session, calls, made>>
         /\ \E v \in Values, failed \in BOOLEAN :
              /\ Given(v, failed)
              /\ Taken(v, failed) \/ (Asked.checked /\ failed /\ GiveUp)
<1>0. /\ round.at = "args" /\ Len(round.args) < Len(Wanted(round.op))
      /\ UNCHANGED <<session, calls, made>>
  BY DEF ReadArgument
<1>1. Asked \in ArgKind
  BY <1>0, RoundTyped, WantedIs DEF Asked
<1> DEFINE typed == IF Asked.number THEN {Good, Zero} ELSE {File, Good, Bad}
           Takes(v, failed) == IF Asked.checked /\ failed THEN GiveUp ELSE Keep(Asked, v, failed)
<1>2. PICK v \in Values :
        \/ Asked.script /\ myin /\ FromScript(Asked, v) /\ Takes(v, ~cin)
        \/ /\ ~(Asked.script /\ myin) /\ FromKeyboard(typed, v)
           /\ Takes(v, ~cin \/ (Asked.number /\ v = Zero))
  BY DEF ReadArgument, Asked
<1>3. PICK failed \in BOOLEAN :
        /\ \/ Asked.script /\ myin /\ FromScript(Asked, v) /\ failed = ~cin
           \/ /\ ~(Asked.script /\ myin) /\ FromKeyboard(typed, v)
              /\ failed = (~cin \/ (Asked.number /\ v = Zero))
        /\ Takes(v, failed)
  <2> HIDE DEF Takes, typed
  <2>1. CASE Asked.script /\ myin /\ FromScript(Asked, v) /\ Takes(v, ~cin)
    <3>1. PICK f \in BOOLEAN : f = ~cin
      BY Zenon
    <3> QED BY <2>1, <3>1, Zenon
  <2>2. CASE /\ ~(Asked.script /\ myin) /\ FromKeyboard(typed, v)
             /\ Takes(v, ~cin \/ (Asked.number /\ v = Zero))
    <3> WITNESS (~cin \/ (Asked.number /\ v = Zero)) \in BOOLEAN
    <3> QED BY <2>2
  <2> QED BY <1>2, <2>1, <2>2
<1>4. Given(v, failed)
  <2>1. typed \subseteq Values /\ Nothing \notin typed /\ (Asked.number => typed = {Good, Zero})
    BY StringsDiffer, ShellAssumption
  <2> HIDE DEF typed
  <2>2. FromKeyboard(typed, v) =>
          /\ UNCHANGED <<script, myin>>
          /\ cin => v # Nothing /\ (Asked.number => v \in {Good, Zero})
    BY <2>1 DEF FromKeyboard
  <2> QED BY <1>3, <2>2 DEF Given
<1>5. script' \in Seq(Values) /\ myin' \in BOOLEAN
  BY <1>4, ScriptTyped DEF Given, TypeOK
<1>6. CASE Asked.checked /\ failed
  <2>1. GiveUp
    BY <1>3, <1>6
  <2>2. round' = Fresh /\ cin' = TRUE /\ UNCHANGED record
        /\ faithful' = IF session = "first" /\ faithful = -1 THEN Len(calls) ELSE faithful
    BY <2>1 DEF GiveUp, Loses
  <2>3. faithful' \in Int
    BY <2>2, RoundTyped DEF TypeOK
  <2>4. /\ round' \in Rounds /\ Len(round'.args) <= Len(Wanted(round'.op)) /\ Blank'
    BY <2>2, FreshTyped
  <2>5. TypeOK'
    BY <1>0, <1>5, <2>2, <2>3, <2>4 DEF TypeOK, Rounds
  <2> QED BY <1>0, <1>1, <1>4, <1>6, <2>1, <2>4, <2>5
<1>7. CASE ~(Asked.checked /\ failed)
  <2>1. Keep(Asked, v, failed)
    BY <1>3, <1>7
  <2>2. /\ round' \in Rounds /\ round'.at = "args" /\ round'.op = round.op
        /\ round'.file = round.file /\ round'.args = Then(round.args, v)
    BY <1>0, <2>1, RoundTyped, RoundAdds DEF Keep
  <2>3. /\ cin' = ~failed /\ UNCHANGED faithful
        /\ record' = IF Asked.kept THEN Recorded(record, v) ELSE record
    BY <2>1 DEF Keep
  <2>4. Taken(v, failed)
    BY <1>7, <2>2, <2>3 DEF Taken
  <2>5. Blank'
    BY <2>2 DEF Blank
  <2>6. Len(Then(round.args, v)) = Len(round.args) + 1
    BY RoundTyped, AppendProperties DEF Then
  <2>7. Len(round'.args) <= Len(Wanted(round'.op))
    <3>1. Len(Wanted(round.op)) \in Nat
      BY WantedIs
    <3> QED BY <1>0, <2>2, <2>6, <3>1, RoundTyped
  <2>8. record' \in Seq(Values \ {Nothing})
    BY <2>3, RecordedTyped DEF TypeOK
  <2>9. TypeOK'
    BY <1>0, <1>5, <2>2, <2>3, <2>7, <2>8 DEF TypeOK, Rounds
  <2> QED BY <1>0, <1>1, <1>4, <2>4, <2>5, <2>9
<1> QED BY <1>6, <1>7

TheCall == [op |-> round.op, file |-> round.file, args |-> round.args]

LEMMA CallMade ==
  ASSUME TypeOK, Blank, Call
  PROVE  /\ TypeOK' /\ Blank'
         /\ round.at = "args" /\ Len(round.args) = Len(Wanted(round.op))
         /\ round'.at = "op"
         /\ round.op \in Op => TheCall \in Calls
         /\ calls' = IF round.op \in Op THEN Then(calls, TheCall) ELSE calls
         /\ faithful' = IF ~FullyKept(round.op) /\ session = "first" /\ faithful = -1
                        THEN Len(calls) ELSE faithful
         /\ UNCHANGED <<session, script, myin, cin, record, made>>
<1>0. /\ round.at = "args" /\ Len(round.args) = Len(Wanted(round.op)) /\ round' = Fresh
      /\ UNCHANGED <<session, script, myin, cin, record, made>>
  BY DEF Call
<1>1. calls' = IF round.op \in Op THEN Then(calls, TheCall) ELSE calls
  BY DEF Call, Then, TheCall
<1>2. faithful' = IF ~FullyKept(round.op) /\ session = "first" /\ faithful = -1
                  THEN Len(calls) ELSE faithful
  BY DEF Call, Loses
<1>3. round.op \in Op => TheCall \in Calls
  BY RoundTyped DEF TheCall, Calls
<1>4. calls' \in Seq(Calls)
  BY <1>1, <1>3, AppendProperties DEF TypeOK, Then
<1>5. faithful' \in Int
  BY <1>2, RoundTyped DEF TypeOK
<1>6. round' \in Rounds /\ Len(round'.args) <= Len(Wanted(round'.op)) /\ Blank' /\ round'.at = "op"
  BY <1>0, FreshTyped, FreshIs
<1>7. TypeOK'
  BY <1>0, <1>4, <1>5, <1>6 DEF TypeOK, Rounds
<1> QED BY <1>0, <1>1, <1>2, <1>3, <1>6, <1>7

LEMMA Exited ==
  ASSUME TypeOK, Blank, Exit
  PROVE  /\ TypeOK' /\ Blank'
         /\ session = "first" /\ session' = "replay" /\ round.at = "op" /\ UNCHANGED round
         /\ script' = record /\ myin' = TRUE /\ cin' = TRUE
         /\ calls' = <<>> /\ made' = calls
         /\ faithful' = Kept
<1>0. /\ session = "first" /\ session' = "replay" /\ round.at = "op" /\ UNCHANGED round
      /\ script' = record /\ myin' = TRUE /\ cin' = TRUE
      /\ calls' = <<>> /\ made' = calls /\ record' = <<>>
      /\ faithful' = Kept
  BY DEF Exit, Loses, Kept
<1>1. Blank'
  BY <1>0 DEF Blank
<1>2. record \in Seq(Values) /\ <<>> \in Seq(Calls) /\ <<>> \in Seq(Values \ {Nothing})
  BY EmptySeq, SeqMonotonic DEF TypeOK
<1>3. faithful' \in Int
  BY <1>0, RoundTyped DEF TypeOK, Kept
<1>4. TypeOK'
  BY <1>0, <1>2, <1>3 DEF TypeOK
<1> QED BY <1>0, <1>1, <1>4

LEMMA ScriptEnded ==
  ASSUME TypeOK, Blank, ScriptEnds
  PROVE  /\ TypeOK' /\ Blank' /\ session = "replay" /\ session' = "over" /\ ~myin
         /\ UNCHANGED <<round, calls, made, faithful>>
BY DEF ScriptEnds, TypeOK, Blank

-----------------------------------------------------------------------------
(* The record of the first session *)

LEMMA RecordedPlays ==
  ASSUME NEW words, NEW cs, NEW z, Plays(words, cs, z), NEW v \in Values
  PROVE  \E z2 \in Seq(Values) :
           Plays(Recorded(words, v), cs, z2) /\ (v # Nothing => z2 = Then(z, v))
<1>1. CASE v = Nothing
  BY <1>1, PlaysTyped DEF Recorded
<1>2. CASE v # Nothing
  <2> DEFINE z2 == Then(z, v)
  <2>1. z \in Seq(Values)
    BY PlaysTyped
  <2>2. z2 \in Seq(Values)
    BY <2>1, AppendProperties DEF Then
  <2>3. Plays(Then(words, v), cs, z2)
    BY PlaysGrow
  <2>4. Recorded(words, v) = Then(words, v)
    BY <1>2 DEF Recorded, Then
  <2> HIDE DEF z2
  <2>5. z2 = Then(z, v)
    BY DEF z2
  <2> QED BY <2>2, <2>3, <2>4, <2>5
<1> QED BY <1>1, <1>2

LEMMA OpRecorded ==
  ASSUME TypeOK, Blank, Recorder, ReadOp
  PROVE  Recorder'
<1> SUFFICES ASSUME session = "first" PROVE Recorder'
  BY OpRead DEF Recorder
<1>1. /\ round.at = "op" /\ round'.at = "file" /\ (cin => round'.op # Nothing)
      /\ UNCHANGED <<session, myin, cin, record, calls, faithful>>
  BY OpRead
<1>2. ~myin /\ Kept \in 0..Len(calls)
  BY DEF Recorder
<1>3. PICK cs \in Seq(Calls), z \in Seq(Values) :
        /\ Plays(record, cs, z)
        /\ Len(cs) = Kept /\ \A k \in 1..Len(cs) : cs[k] = calls[k]
        /\ faithful = -1 => Open(z)
  BY DEF Recorder
<1>4. Kept' = Kept
  BY <1>1 DEF Kept
<1>5. faithful = -1 => Open(z)'
  BY <1>1, <1>3 DEF Open
<1> QED BY <1>1, <1>2, <1>3, <1>4, <1>5 DEF Recorder

LEMMA FileRecorded ==
  ASSUME TypeOK, Blank, Recorder, ReadFile
  PROVE  Recorder'
<1> SUFFICES ASSUME session = "first" PROVE Recorder'
  BY FileRead DEF Recorder
<1>1. /\ round.at = "file" /\ round'.at = "args" /\ round'.op = round.op
      /\ round'.args = <<>> /\ (cin => round'.file # Nothing)
      /\ record' = Recorded(Recorded(record, round.op), round'.file)
      /\ UNCHANGED <<session, myin, cin, calls, faithful>>
  BY FileRead
<1>2. ~myin /\ Kept \in 0..Len(calls)
  BY DEF Recorder
<1>3. PICK cs \in Seq(Calls), z \in Seq(Values) :
        /\ Plays(record, cs, z)
        /\ Len(cs) = Kept /\ \A k \in 1..Len(cs) : cs[k] = calls[k]
        /\ faithful = -1 => Open(z)
  BY DEF Recorder
<1>4. Kept' = Kept
  BY <1>1 DEF Kept
<1>5. PICK op \in Values : op = round.op
  BY RoundTyped
<1>6. PICK file \in Values : file = round'.file
  BY FileRead
<1>7. PICK z1 \in Seq(Values) :
        Plays(Recorded(record, op), cs, z1) /\ (op # Nothing => z1 = Then(z, op))
  BY <1>3, RecordedPlays
<1>8. PICK z2 \in Seq(Values) :
        /\ Plays(Recorded(Recorded(record, op), file), cs, z2)
        /\ file # Nothing => z2 = Then(z1, file)
  BY <1>7, RecordedPlays
<1>9. faithful = -1 => Open(z2)'
  <2>1. SUFFICES ASSUME faithful = -1 PROVE Open(z2)'
    OBVIOUS
  <2>2. z = <<>> /\ cin /\ op # Nothing /\ file # Nothing
    BY <1>1, <1>3, <1>5, <1>6, <2>1 DEF Open
  <2>3. z2 = Then(Then(<<>>, op), file)
    BY <1>7, <1>8, <2>2
  <2>4. Then(Then(<<>>, op), file) = <<op, file>> \o <<>>
    <3>1. Then(Then(<<>>, op), file) = <<op, file>>
      BY TwoWords
    <3>2. <<op, file>> \in Seq(Values)
      OBVIOUS
    <3> QED BY <3>1, <3>2, ConcatEmptySeq
  <2>5. Words(round') = <<op, file>> \o <<>>
    BY <1>1, <1>5, <1>6 DEF Words
  <2>6. \A k \in 1..Len(<<>>) : FALSE
    OBVIOUS
  <2> QED BY <1>1, <1>5, <1>6, <2>2, <2>3, <2>4, <2>5, <2>6 DEF Open
<1> QED BY <1>1, <1>2, <1>3, <1>4, <1>5, <1>6, <1>8, <1>9 DEF Recorder

(* The words of a command that an argument is added to. *)
LEMMA WordsGrow ==
  ASSUME NEW op \in Values, NEW file \in Values, NEW args \in Seq(Values), NEW v \in Values,
         NEW c, c.op = op, c.file = file, c.args = args,
         NEW d, d.op = op, d.file = file, d.args = Then(args, v)
  PROVE  Words(d) = Then(Words(c), v)
<1> DEFINE s == <<op, file>>
<1>1. Words(c) = s \o args /\ Words(d) = s \o Then(args, v)
  BY DEF Words
<1>2. s \in Seq(Values)
  OBVIOUS
<1> HIDE DEF s
<1>3. Then(s \o args, v) = s \o Then(args, v)
  BY <1>2, WordBehind
<1> QED BY <1>1, <1>3

LEMMA ArgumentRecorded ==
  ASSUME TypeOK, Blank, Recorder, ReadArgument
  PROVE  Recorder'
<1> SUFFICES ASSUME session = "first" PROVE Recorder'
  BY ArgumentRead DEF Recorder
<1>1. /\ round.at = "args" /\ Len(round.args) < Len(Wanted(round.op)) /\ Asked \in ArgKind
      /\ UNCHANGED <<session, calls>>
  BY ArgumentRead
<1>2. ~myin /\ Kept \in 0..Len(calls)
  BY DEF Recorder
<1>3. PICK v \in Values, failed \in BOOLEAN :
        /\ Given(v, failed)
        /\ Taken(v, failed) \/ (Asked.checked /\ failed /\ GiveUp)
  BY ArgumentRead
<1>4. /\ UNCHANGED <<script, myin>>
      /\ failed = (~cin \/ (Asked.number /\ v = Zero))
      /\ cin => v # Nothing /\ (Asked.number => v \in {Good, Zero})
  BY <1>2, <1>3 DEF Given
<1>5. PICK cs \in Seq(Calls), z \in Seq(Values) :
        /\ Plays(record, cs, z)
        /\ Len(cs) = Kept /\ \A k \in 1..Len(cs) : cs[k] = calls[k]
        /\ faithful = -1 => Open(z)
  BY DEF Recorder
<1>6. CASE Asked.checked /\ failed /\ GiveUp
  <2>1. record' = record /\ faithful' = IF faithful = -1 THEN Len(calls) ELSE faithful
    BY <1>6 DEF GiveUp, Loses
  <2>2. faithful' # -1 /\ Kept' = Kept
    BY <1>1, <2>1, RoundTyped DEF Kept
  <2> QED BY <1>1, <1>2, <1>4, <1>5, <2>1, <2>2 DEF Recorder
<1>7. CASE Taken(v, failed)
  <2>1. Kept' = Kept /\ faithful' = faithful
    BY <1>1, <1>7 DEF Kept, Taken
  <2>2. PICK z2 \in Seq(Values) :
          /\ Plays(record', cs, z2)
          /\ Asked.kept /\ v # Nothing => z2 = Then(z, v)
    <3>1. CASE Asked.kept
      <4>1. record' = Recorded(record, v)
        BY <1>7, <3>1 DEF Taken
      <4>2. PICK y \in Seq(Values) :
              Plays(Recorded(record, v), cs, y) /\ (v # Nothing => y = Then(z, v))
        BY <1>5, RecordedPlays
      <4> QED BY <4>1, <4>2
    <3>2. CASE ~Asked.kept
      BY <1>5, <1>7, <3>2 DEF Taken
    <3> QED BY <3>1, <3>2
  <2>3. faithful = -1 => Open(z2)'
    <3> SUFFICES ASSUME faithful = -1 PROVE Open(z2)'
      OBVIOUS
    <3>1. Open(z)
      BY <1>5
    <3>2. round'.at = "args" /\ round'.op = round.op /\ round'.file = round.file
          /\ round'.args = Then(round.args, v) /\ cin' = ~failed
      BY <1>7 DEF Taken
    <3>3. SUFFICES ASSUME FullyKept(round.op)
          PROVE  /\ cin' /\ z2 = Words(round') /\ round.op # Nothing /\ round.file # Nothing
                 /\ \A k \in 1..Len(round'.args) : Fits(Wanted(round.op)[k], round'.args[k])
      BY <3>2 DEF Open
    <3>4. /\ cin /\ z = Words(round) /\ round.op # Nothing /\ round.file # Nothing
          /\ \A k \in 1..Len(round.args) : Fits(Wanted(round.op)[k], round.args[k])
      BY <1>1, <3>1, <3>3 DEF Open
    <3>5. Len(round.args) + 1 \in 1..Len(Wanted(round.op))
      BY <1>1, RoundTyped, WantedIs
    <3>6. Asked.kept /\ (Asked.number => Asked.checked)
      BY <3>3, <3>5, WantedIs DEF Asked
    <3>7. v # Nothing /\ (Asked.number => v \in {Good, Zero}) /\ ~failed
      BY <1>4, <1>7, <3>4, <3>6 DEF Taken
    <3>8. Fits(Asked, v)
      BY <3>7 DEF Fits
    <3>9. z2 = Words(round')
      <4>1. Words(round') = Then(Words(round), v)
        BY <3>2, RoundTyped, WordsGrow
      <4> QED BY <2>2, <3>4, <3>6, <3>7, <4>1
    <3>10. ASSUME NEW k \in 1..Len(round'.args)
           PROVE  Fits(Wanted(round.op)[k], round'.args[k])
      <4>1. /\ Len(round'.args) = Len(round.args) + 1
            /\ round'.args[Len(round.args) + 1] = v
            /\ \A j \in 1..Len(round.args) : round'.args[j] = round.args[j]
        <5>1. PICK a \in Seq(Values) : a = round.args
          BY RoundTyped
        <5>2. /\ Len(Then(a, v)) = Len(a) + 1 /\ Then(a, v)[Len(a) + 1] = v
              /\ \A j \in 1..Len(a) : Then(a, v)[j] = a[j]
          BY ThenWord
        <5> QED BY <3>2, <5>1, <5>2
      <4>2. CASE k = Len(round.args) + 1
        BY <3>8, <4>1, <4>2 DEF Asked
      <4>3. CASE k # Len(round.args) + 1
        <5>1. k \in 1..Len(round.args)
          BY <4>1, <4>3, RoundTyped
        <5> QED BY <3>4, <4>1, <5>1
      <4> QED BY <4>2, <4>3
    <3> QED BY <3>2, <3>4, <3>7, <3>9, <3>10
  <2> QED BY <1>1, <1>2, <1>4, <1>5, <2>1, <2>2, <2>3 DEF Recorder
<1> QED BY <1>3, <1>6, <1>7

(* A command that is complete is one, in the record and to be played. *)
LEMMA CommandComplete ==
  ASSUME TypeOK, round.at = "args", FullyKept(round.op),
         Len(round.args) = Len(Wanted(round.op)),
         round.op # Nothing, round.file # Nothing,
         \A k \in 1..Len(round.args) : Fits(Wanted(round.op)[k], round.args[k])
  PROVE  TheCall \in Commands /\ Words(TheCall) = Words(round) /\ TheCall.op = round.op
<1>1. round.op \in Values /\ round.file \in Values /\ round.args \in Seq(Values)
  BY RoundTyped
<1>2. TheCall.op = round.op /\ TheCall.file = round.file /\ TheCall.args = round.args
  BY DEF TheCall
<1>3. TheCall \in [op: Values \ {Nothing}, file: Values \ {Nothing}, args: Seq(Values)]
  BY <1>1 DEF TheCall
<1> QED BY <1>2, <1>3 DEF Commands, Words

LEMMA CallRecorded ==
  ASSUME TypeOK, Blank, Recorder, Call
  PROVE  Recorder'
<1> SUFFICES ASSUME session = "first" PROVE Recorder'
  BY CallMade DEF Recorder
<1>1. /\ round.at = "args" /\ Len(round.args) = Len(Wanted(round.op)) /\ round'.at = "op"
      /\ round.op \in Op => TheCall \in Calls
      /\ calls' = IF round.op \in Op THEN Then(calls, TheCall) ELSE calls
      /\ faithful' = IF ~FullyKept(round.op) /\ faithful = -1 THEN Len(calls) ELSE faithful
      /\ UNCHANGED <<session, myin, cin, record>>
  BY CallMade
<1>2. ~myin /\ Kept \in 0..Len(calls)
  BY DEF Recorder
<1>3. PICK cs \in Seq(Calls), z \in Seq(Values) :
        /\ Plays(record, cs, z)
        /\ Len(cs) = Kept /\ \A k \in 1..Len(cs) : cs[k] = calls[k]
        /\ faithful = -1 => Open(z)
  BY DEF Recorder
<1>4. /\ Len(calls) \in Nat /\ Len(calls') \in Nat /\ Len(calls) <= Len(calls')
      /\ \A k \in 1..Len(calls) : calls'[k] = calls[k]
  <2>1. calls \in Seq(Calls) /\ Len(calls) \in Nat
    BY RoundTyped DEF TypeOK
  <2>2. CASE round.op \in Op
    <3>1. PICK a \in Seq(Calls), c \in Calls : a = calls /\ calls' = Then(a, c)
      BY <1>1, <2>1, <2>2
    <3>2. Len(Then(a, c)) = Len(a) + 1 /\ \A k \in 1..Len(a) : Then(a, c)[k] = a[k]
      BY ThenCall
    <3> QED BY <2>1, <3>1, <3>2
  <2>3. CASE round.op \notin Op
    BY <1>1, <2>1, <2>3
  <2> QED BY <2>2, <2>3
<1>5. CASE faithful' # -1
  <2>1. Kept' = Kept
    BY <1>1, <1>5 DEF Kept
  <2>2. \A k \in 1..Len(cs) : cs[k] = calls'[k]
    BY <1>2, <1>3, <1>4
  <2> QED BY <1>1, <1>2, <1>3, <1>4, <1>5, <2>1, <2>2 DEF Recorder
<1>6. CASE faithful' = -1
  <2>1. faithful = -1 /\ FullyKept(round.op)
    BY <1>1, <1>4, <1>6
  <2>2. /\ cin /\ z = Words(round) /\ round.op # Nothing /\ round.file # Nothing
        /\ \A k \in 1..Len(round.args) : Fits(Wanted(round.op)[k], round.args[k])
    BY <1>1, <1>3, <2>1 DEF Open
  <2>3. PICK c \in Commands : c = TheCall /\ Words(c) = z /\ c.op = round.op
    BY <1>1, <2>1, <2>2, CommandComplete
  <2>4. PICK ds : ds = IF c.op \in Op THEN Then(cs, c) ELSE cs
    OBVIOUS
  <2>5. Plays(record, ds, <<>>)
    BY <1>3, <2>3, <2>4, PlaysMore
  <2>6. ds \in Seq(Calls)
    BY <2>5, PlaysTyped
  <2>7. Len(cs) = Len(calls) /\ Kept' = Len(calls')
    BY <1>3, <1>6, <2>1 DEF Kept
  <2>8. Len(ds) = Len(calls') /\ \A k \in 1..Len(ds) : ds[k] = calls'[k]
    <3>1. CASE c.op \in Op
      <4>1. c \in Calls
        BY <3>1, CommandIs
      <4>2. /\ Len(ds) = Len(cs) + 1 /\ ds[Len(cs) + 1] = c
            /\ \A k \in 1..Len(cs) : ds[k] = cs[k]
        <5>1. /\ Len(Then(cs, c)) = Len(cs) + 1 /\ Then(cs, c)[Len(cs) + 1] = c
              /\ \A k \in 1..Len(cs) : Then(cs, c)[k] = cs[k]
          BY <4>1, ThenCall
        <5> QED BY <2>4, <3>1, <5>1
      <4>3. calls \in Seq(Calls) /\ calls' = Then(calls, c)
        BY <1>1, <2>3, <3>1 DEF TypeOK
      <4>4. /\ Len(calls') = Len(calls) + 1 /\ calls'[Len(calls) + 1] = c
            /\ \A k \in 1..Len(calls) : calls'[k] = calls[k]
        <5>1. PICK a \in Seq(Calls) : a = calls /\ calls' = Then(a, c)
          BY <4>3
        <5>2. /\ Len(Then(a, c)) = Len(a) + 1 /\ Then(a, c)[Len(a) + 1] = c
              /\ \A k \in 1..Len(a) : Then(a, c)[k] = a[k]
          BY <4>1, ThenCall
        <5> QED BY <5>1, <5>2
      <4> QED BY <1>3, <1>4, <2>7, <4>2, <4>4
    <3>2. CASE c.op \notin Op
      BY <1>1, <1>3, <2>3, <2>4, <2>7, <3>2
    <3> QED BY <3>1, <3>2
  <2>9. Open(<<>>)'
    BY <1>1, <2>2 DEF Open
  <2>10. <<>> \in Seq(Values)
    OBVIOUS
  <2>11. Kept' \in 0..Len(calls')
    BY <1>4, <2>7
  <2> QED BY <1>1, <1>2, <2>5, <2>6, <2>7, <2>8, <2>9, <2>10, <2>11 DEF Recorder
<1> QED BY <1>5, <1>6

-----------------------------------------------------------------------------
(* The script of the second session *)

LEMMA PlayerStarts ==
  ASSUME TypeOK, Blank, Recorder, Exit
  PROVE  Player'
<1>1. /\ session = "first" /\ session' = "replay" /\ round'.at = "op"
      /\ script' = record /\ myin' = TRUE /\ cin' = TRUE
      /\ calls' = <<>> /\ made' = calls /\ faithful' = Kept
  BY Exited
<1>2. Kept \in 0..Len(calls)
  BY <1>1 DEF Recorder
<1>3. PICK cs \in Seq(Calls), z \in Seq(Values) :
        /\ Plays(record, cs, z) /\ Len(cs) = Kept
        /\ \A k \in 1..Len(cs) : cs[k] = calls[k]
  BY <1>1 DEF Recorder
<1>4. Len(calls') = 0 /\ Len(cs) \in Nat
  BY <1>1, LenProperties
<1>5. Ahead' = record
  BY <1>1 DEF Ahead
<1>6. Running'
  <2>1. Len(calls') + Len(cs) = faithful'
    BY <1>1, <1>3, <1>4
  <2>2. \A k \in 1..Len(cs) : cs[k] = made'[Len(calls') + k]
    BY <1>1, <1>3, <1>4
  <2> QED BY <1>1, <1>3, <1>5, <2>1, <2>2 DEF Running
<1>7. \A k \in 1..Len(calls') : FALSE
  BY <1>4
<1> QED BY <1>1, <1>2, <1>6, <1>7 DEF Player

(* What a session that has calls to make is about to read. *)
LEMMA NextCommand ==
  ASSUME TypeOK, Running, ~(Len(calls) >= faithful)
  PROVE  \E c \in Commands, left \in Seq(Values), ds \in Seq(Calls), z \in Seq(Values) :
           /\ Ahead = Words(c) \o left
           /\ Plays(left, ds, z)
           /\ Len(calls) + (IF c.op \in Op THEN Len(ds) + 1 ELSE Len(ds)) = faithful
           /\ c.op \in Op => c = made[Len(calls) + 1]
           /\ \A k \in 1..Len(ds) :
                ds[k] = made[Len(calls) + (IF c.op \in Op THEN k + 1 ELSE k)]
<1>1. PICK cs \in Seq(Calls), z \in Seq(Values) :
        /\ Plays(Ahead, cs, z)
        /\ Len(calls) + Len(cs) = faithful
        /\ \A k \in 1..Len(cs) : cs[k] = made[Len(calls) + k]
  BY DEF Running
<1>2. cs # <<>>
  <2>1. Len(calls) # faithful /\ Len(calls) \in Nat /\ faithful \in Nat
    BY RoundTyped DEF TypeOK
  <2>2. Len(cs) # 0
    BY <1>1, <2>1, LenProperties
  <2> QED BY <2>2
<1>3. PICK words : words = Ahead
  OBVIOUS
<1>4. PICK c \in Commands, left \in Seq(Values), ds \in Seq(Calls) :
        /\ words = Words(c) \o left
        /\ cs = IF c.op \in Op THEN <<c>> \o ds ELSE ds
        /\ Plays(left, ds, z)
  <2>1. Plays(words, cs, z)
    BY <1>1, <1>3
  <2>2. Begins(words, cs, z)
    BY <1>2, <2>1, PlaysFirst
  <2> QED BY <2>2 DEF Begins
<1>5. Len(ds) \in Nat /\ Len(calls) \in Nat
  BY LenProperties, RoundTyped
<1>6. CASE c.op \in Op
  <2>1. c \in Calls /\ cs = <<c>> \o ds
    BY <1>4, <1>6, CommandIs
  <2>2. /\ Len(cs) = Len(ds) + 1 /\ cs[1] = c /\ \A k \in 1..Len(ds) : cs[k + 1] = ds[k]
    BY <2>1, AppendsOne
  <2>3. c = made[Len(calls) + 1]
    BY <1>1, <1>5, <2>2
  <2>4. ASSUME NEW k \in 1..Len(ds) PROVE ds[k] = made[Len(calls) + (k + 1)]
    <3>1. k + 1 \in 1..Len(cs)
      BY <1>5, <2>2
    <3>2. cs[k + 1] = made[Len(calls) + (k + 1)]
      BY <1>1, <3>1
    <3> QED BY <2>2, <3>2
  <2>5. Len(calls) + (Len(ds) + 1) = faithful
    BY <1>1, <2>2
  <2>6. /\ Len(calls) + (IF c.op \in Op THEN Len(ds) + 1 ELSE Len(ds)) = faithful
        /\ \A k \in 1..Len(ds) :
             ds[k] = made[Len(calls) + (IF c.op \in Op THEN k + 1 ELSE k)]
    BY <1>6, <2>4, <2>5
  <2>7. Ahead = Words(c) \o left /\ Plays(left, ds, z)
    BY <1>3, <1>4
  <2> QED BY <2>3, <2>6, <2>7, Zenon
<1>7. CASE c.op \notin Op
  <2>1. cs = ds
    BY <1>4, <1>7
  <2> QED BY <1>1, <1>3, <1>4, <1>7, <2>1
<1> QED BY <1>6, <1>7

LEMMA AheadTyped ==
  ASSUME TypeOK
  PROVE  Ahead \in Seq(Values)
<1>1. script \in Seq(Values) /\ <<round.op>> \in Seq(Values) /\ Words(round) \in Seq(Values)
  <2>1. PICK op \in Values, file \in Values, args \in Seq(Values), r \in Rounds :
          r = round /\ r.op = op /\ r.file = file /\ r.args = args
    BY RoundTyped
  <2>2. Words(r) \in Seq(Values)
    BY <2>1, WordsAre
  <2> QED BY <2>1, <2>2, RoundTyped DEF TypeOK
<1>2. \A s, t \in Seq(Values) : s \o t \in Seq(Values)
  BY ConcatProperties
<1> QED BY <1>1, <1>2 DEF Ahead

(* A player whose calls and streams stand still goes on with what is ahead. *)
LEMMA PlayerGoesOn ==
  ASSUME TypeOK, Player, session # "first",
         UNCHANGED <<session, calls, made, faithful>>,
         ~(Len(calls) >= faithful) => myin' /\ cin' /\ Ahead' = Ahead
  PROVE  Player'
<1>1. CASE Len(calls) >= faithful
  BY <1>1 DEF Player
<1>2. CASE ~(Len(calls) >= faithful)
  <2>1. Running /\ myin' /\ cin' /\ Ahead' = Ahead
    BY <1>2 DEF Player
  <2>2. PICK ahead : ahead = Ahead /\ ahead = Ahead'
    BY <2>1
  <2>3. PICK cs \in Seq(Calls), z \in Seq(Values) :
          /\ Plays(ahead, cs, z)
          /\ Len(calls) + Len(cs) = faithful
          /\ \A k \in 1..Len(cs) : cs[k] = made[Len(calls) + k]
    BY <2>1, <2>2 DEF Running
  <2>4. session = "replay"
    BY <2>1 DEF Running
  <2>5. Running'
    BY <2>1, <2>2, <2>3, <2>4 DEF Running
  <2> QED BY <2>5 DEF Player
<1> QED BY <1>1, <1>2

LEMMA OpPlayed ==
  ASSUME TypeOK, Blank, Player, ReadOp
  PROVE  Player'
<1> SUFFICES ASSUME session # "first" PROVE Player'
  BY OpRead DEF Player
<1>1. /\ round.at = "op" /\ round'.at = "file" /\ FromScript(Word, round'.op)
      /\ UNCHANGED <<session, cin, calls, made, faithful>>
  BY OpRead
<1>2. ASSUME ~(Len(calls) >= faithful) PROVE myin' /\ cin' /\ Ahead' = Ahead
  <2>1. Running /\ myin /\ cin
    BY <1>2 DEF Player, Running
  <2>2. PICK s \in Seq(Values) : s = script
    BY DEF TypeOK
  <2>3. PICK c \in Commands, left \in Seq(Values) : s = Words(c) \o left
    BY <1>1, <1>2, <2>1, <2>2, NextCommand DEF Ahead
  <2>4. s # <<>>
    <3>1. Len(s) = Len(Words(c)) + Len(left) /\ Len(left) \in Nat /\ Len(Words(c)) >= 2
          /\ Len(Words(c)) \in Nat
      <4>1. Words(c) \in Seq(Values) /\ Len(Words(c)) = Len(c.args) + 2 /\ Len(c.args) \in Nat
        BY CommandIs
      <4>2. Len(Words(c) \o left) = Len(Words(c)) + Len(left)
        BY <4>1, ConcatProperties
      <4>3. Len(left) \in Nat
        BY LenProperties
      <4> QED BY <2>3, <4>1, <4>2, <4>3
    <3>2. Len(s) # 0
      BY <3>1
    <3> QED BY <3>2
  <2>5. round'.op = Head(s) /\ script' = Tail(s) /\ myin' = myin
    <3>1. ~Word.number
      BY DEF Word, Number
    <3>2. Parses(Word, Head(script))
      BY <3>1 DEF Parses
    <3> QED BY <1>1, <2>2, <2>4, <3>2 DEF FromScript
  <2>6. <<Head(s)>> \o Tail(s) = s
    BY <2>4, HeadBack
  <2>7. Ahead' = <<Head(s)>> \o Tail(s)
    BY <1>1, <2>5 DEF Ahead
  <2> QED BY <1>1, <2>1, <2>2, <2>5, <2>6, <2>7 DEF Ahead
<1> QED BY <1>1, <1>2, PlayerGoesOn

LEMMA FilePlayed ==
  ASSUME TypeOK, Blank, Player, ReadFile
  PROVE  Player'
<1> SUFFICES ASSUME session # "first" PROVE Player'
  BY FileRead DEF Player
<1>1. /\ round.at = "file" /\ round'.at = "args" /\ round'.op = round.op /\ round'.args = <<>>
      /\ round'.file \in Values
      /\ myin => FromScript(Word, round'.file)
      /\ UNCHANGED <<session, cin, calls, made, faithful>>
  BY FileRead
<1>2. ASSUME ~(Len(calls) >= faithful) PROVE myin' /\ cin' /\ Ahead' = Ahead
  <2>1. Running /\ myin /\ cin
    BY <1>2 DEF Player, Running
  <2>2. PICK s \in Seq(Values), op \in Values : s = script /\ op = round.op
    BY RoundTyped DEF TypeOK
  <2>3. PICK c \in Commands, left \in Seq(Values) : <<op>> \o s = Words(c) \o left
    BY <1>1, <1>2, <2>1, <2>2, NextCommand DEF Ahead
  <2>4. s # <<>>
    <3>1. Words(c) \in Seq(Values) /\ Len(Words(c)) = Len(c.args) + 2 /\ Len(c.args) \in Nat
      BY CommandIs
    <3>2. <<op>> \in Seq(Values) /\ Len(<<op>>) = 1
      OBVIOUS
    <3>3. PICK p \in Seq(Values), w \in Seq(Values), x \in {<<op>> \o s} :
            p = <<op>> /\ w = Words(c) /\ x = p \o s /\ x = w \o left
      BY <2>3, <3>1, <3>2
    <3>4. Same(p, s, w, left)
      BY <3>3, SameWords
    <3>5. Len(s) \in Nat /\ Len(left) \in Nat
      BY LenProperties
    <3>6. Len(s) # 0
      BY <3>1, <3>2, <3>3, <3>4, <3>5 DEF Same
    <3> QED BY <3>6
  <2>5. round'.file = Head(s) /\ script' = Tail(s) /\ myin' = myin
    <3>1. ~Word.number
      BY DEF Word, Number
    <3>2. Parses(Word, Head(script))
      BY <3>1 DEF Parses
    <3>3. FromScript(Word, round'.file)
      BY <1>1, <2>1
    <3> QED BY <2>2, <2>4, <3>2, <3>3 DEF FromScript
  <2>6. PICK h \in Values, t \in Seq(Values) : h = Head(s) /\ t = Tail(s)
    BY <2>4, HeadBack
  <2>7. <<op, h>> \o t = <<op>> \o s
    <3>1. <<op>> \in Seq(Values)
      OBVIOUS
    <3>2. Then(<<op>>, Head(s)) \o Tail(s) = <<op>> \o s
      BY <2>4, <3>1, Shift
    <3>3. Then(<<>>, op) = <<op>>
      BY DEF Then
    <3>4. Then(Then(<<>>, op), h) = <<op, h>>
      BY TwoWords
    <3> QED BY <2>6, <3>2, <3>3, <3>4
  <2>8. Words(round') = <<op, h>>
    <3>1. Words(round') = <<op, h>> \o <<>>
      BY <1>1, <2>2, <2>5, <2>6 DEF Words
    <3>2. <<op, h>> \in Seq(Values)
      OBVIOUS
    <3> QED BY <3>1, <3>2, ConcatEmptySeq
  <2>9. Ahead' = <<op, h>> \o t
    BY <1>1, <2>5, <2>6, <2>8 DEF Ahead
  <2> QED BY <1>1, <2>1, <2>2, <2>5, <2>7, <2>9 DEF Ahead
<1> QED BY <1>1, <1>2, PlayerGoesOn

(* What the round has of the command that is next. *)
Begun(p, op, args, s, c, left) ==
  /\ c.op = op /\ Len(c.args) = Len(Wanted(op))
  /\ Len(args) < Len(Wanted(op)) => s # <<>> /\ Head(s) = c.args[Len(args) + 1]
  /\ Len(args) = Len(Wanted(op)) => p = Words(c) /\ s = left

LEMMA RoundAhead ==
  ASSUME NEW p \in Seq(Values), NEW op \in Values, NEW args \in Seq(Values),
         Len(p) = Len(args) + 2, p[1] = op,
         NEW s \in Seq(Values), NEW c \in Commands, NEW left \in Seq(Values),
         NEW x, x = p \o s, x = Words(c) \o left, Len(args) <= Len(Wanted(op))
  PROVE  Begun(p, op, args, s, c, left)
<1>0. Len(args) \in Nat /\ Len(s) \in Nat /\ Len(left) \in Nat /\ Len(Wanted(op)) \in Nat
  BY LenProperties, WantedIs
<1>1. /\ Words(c) \in Seq(Values) /\ Len(Words(c)) = Len(c.args) + 2 /\ Len(c.args) \in Nat
      /\ Words(c)[1] = c.op /\ Len(c.args) = Len(Wanted(c.op))
      /\ \A k \in 1..Len(c.args) : Words(c)[k + 2] = c.args[k]
  BY CommandIs
<1>2. PICK w \in Seq(Values) : w = Words(c)
  BY <1>1
<1>3. x = p \o s /\ x = w \o left
  BY <1>2
<1>4. /\ Len(p) + Len(s) = Len(w) + Len(left)
      /\ \A k \in 1..Len(p) : k <= Len(w) => p[k] = w[k]
      /\ \A k \in 1..Len(w) : Len(p) < k => s[k - Len(p)] = w[k]
      /\ Len(p) = Len(w) => p = w /\ s = left
  <2>1. Same(p, s, w, left)
    BY <1>3, SameWords
  <2> QED BY <2>1 DEF Same
<1>5. c.op = op
  BY <1>0, <1>1, <1>2, <1>4
<1>6. ASSUME Len(args) < Len(Wanted(op)) PROVE s # <<>> /\ Head(s) = c.args[Len(args) + 1]
  <2>1. Len(p) < Len(w) /\ Len(w) = Len(Wanted(op)) + 2
    BY <1>0, <1>1, <1>2, <1>5, <1>6
  <2>2. s # <<>>
    <3>1. Len(s) # 0
      BY <1>0, <1>4, <2>1
    <3> QED BY <3>1
  <2>3. /\ Len(args) + 3 \in 1..Len(w) /\ Len(p) < Len(args) + 3
        /\ (Len(args) + 3) - Len(p) = 1
        /\ Len(args) + 1 \in 1..Len(c.args) /\ (Len(args) + 1) + 2 = Len(args) + 3
    BY <1>0, <1>1, <1>5, <1>6, <2>1
  <2>4. s[1] = w[Len(args) + 3]
    BY <1>4, <2>3
  <2>5. w[Len(args) + 3] = c.args[Len(args) + 1]
    BY <1>1, <1>2, <2>3
  <2>6. Head(s) = s[1]
    BY <2>2, HeadBack
  <2> QED BY <2>2, <2>4, <2>5, <2>6
<1>7. ASSUME Len(args) = Len(Wanted(op)) PROVE p = Words(c) /\ s = left
  BY <1>1, <1>2, <1>4, <1>5, <1>7
<1> QED BY <1>1, <1>5, <1>6, <1>7 DEF Begun

(* The words of the round, as constants that those lemmas can be used of. *)
LEMMA RoundWords ==
  ASSUME TypeOK
  PROVE  \E p \in Seq(Values), op \in Values, file \in Values, args \in Seq(Values) :
           /\ p = Words(round) /\ op = round.op /\ file = round.file /\ args = round.args
           /\ Len(p) = Len(args) + 2 /\ p[1] = op /\ p[2] = file
           /\ \A k \in 1..Len(args) : p[k + 2] = args[k]
           /\ Len(args) <= Len(Wanted(op))
<1>1. PICK op \in Values, file \in Values, args \in Seq(Values), r \in Rounds :
        r = round /\ r.op = op /\ r.file = file /\ r.args = args
  BY RoundTyped
<1>2. /\ Words(r) \in Seq(Values) /\ Len(Words(r)) = Len(args) + 2
      /\ Words(r)[1] = op /\ Words(r)[2] = file
      /\ \A k \in 1..Len(args) : Words(r)[k + 2] = args[k]
  BY <1>1, WordsAre
<1>3. Len(args) <= Len(Wanted(op))
  BY <1>1 DEF TypeOK
<1>4. PICK p \in Seq(Values) : p = Words(r)
  BY <1>2
<1>5. p = Words(round) /\ op = round.op /\ file = round.file /\ args = round.args
  BY <1>1, <1>4
<1> QED BY <1>2, <1>3, <1>4, <1>5

LEMMA ArgumentPlayed ==
  ASSUME TypeOK, Blank, Player, ReadArgument
  PROVE  Player'
<1> SUFFICES ASSUME session # "first" PROVE Player'
  BY ArgumentRead DEF Player
<1>1. /\ round.at = "args" /\ Len(round.args) < Len(Wanted(round.op)) /\ Asked \in ArgKind
      /\ UNCHANGED <<session, calls, made>>
  BY ArgumentRead
<1>2. PICK v \in Values, failed \in BOOLEAN :
        /\ Given(v, failed)
        /\ Taken(v, failed) \/ (Asked.checked /\ failed /\ GiveUp)
  BY ArgumentRead
<1>3. faithful' = faithful
  BY <1>2 DEF Taken, GiveUp, Loses
<1>4. ASSUME ~(Len(calls) >= faithful) PROVE myin' /\ cin' /\ Ahead' = Ahead
  <2>1. Running /\ myin /\ cin
    BY <1>4 DEF Player, Running
  <2>2. PICK p \in Seq(Values), op \in Values, file \in Values, args \in Seq(Values) :
          /\ p = Words(round) /\ op = round.op /\ file = round.file /\ args = round.args
          /\ Len(p) = Len(args) + 2 /\ p[1] = op /\ p[2] = file
          /\ \A k \in 1..Len(args) : p[k + 2] = args[k]
          /\ Len(args) <= Len(Wanted(op))
    BY RoundWords
  <2>3. PICK s \in Seq(Values) : s = script
    BY DEF TypeOK
  <2>4. Ahead = p \o s
    BY <1>1, <2>2, <2>3 DEF Ahead
  <2>5. PICK c \in Commands, left \in Seq(Values) : p \o s = Words(c) \o left
    BY <1>4, <2>1, <2>4, NextCommand
  <2>6. /\ c.op = op /\ Len(c.args) = Len(Wanted(op))
        /\ s # <<>> /\ Head(s) = c.args[Len(args) + 1]
    <3>1. Len(args) < Len(Wanted(op))
      BY <1>1, <2>2
    <3>2. PICK x : x = p \o s /\ x = Words(c) \o left
      BY <2>5
    <3>3. Begun(p, op, args, s, c, left)
      BY <2>2, <3>2, RoundAhead
    <3> QED BY <3>1, <3>3 DEF Begun
  <2>7. Len(args) + 1 \in 1..Len(c.args)
    <3>1. Len(args) \in Nat /\ Len(Wanted(op)) \in Nat
      BY LenProperties, WantedIs
    <3>2. Len(args) < Len(Wanted(op)) /\ Len(c.args) = Len(Wanted(op))
      BY <1>1, <2>2, <2>6
    <3> QED BY <3>1, <3>2
  <2>8. FullyKept(c.op) /\ Fits(Wanted(c.op)[Len(args) + 1], c.args[Len(args) + 1])
    <3>1. FullyKept(c.op) /\ \A k \in 1..Len(c.args) : Fits(Wanted(c.op)[k], c.args[k])
      BY CommandIs
    <3> QED BY <2>7, <3>1
  <2>9. Asked = Wanted(op)[Len(args) + 1]
    BY <2>2 DEF Asked
  <2>10. Asked.script /\ Fits(Asked, Head(s))
    <3>1. Len(args) + 1 \in 1..Len(Wanted(op)) /\ FullyKept(op)
      BY <2>6, <2>7, <2>8
    <3>2. Wanted(op)[Len(args) + 1].script
      BY <3>1, WantedIs
    <3> QED BY <2>6, <2>8, <2>9, <3>2
  <2>11. FromScript(Asked, v) /\ ~failed
    BY <1>2, <2>1, <2>10 DEF Given
  <2>12. v = Head(s) /\ script' = Tail(s) /\ myin' = myin
    <3>1. Parses(Asked, Head(script))
      BY <2>3, <2>10 DEF Parses, Fits
    <3> QED BY <2>3, <2>6, <2>11, <3>1 DEF FromScript
  <2>13. Taken(v, failed)
    BY <1>2, <2>11
  <2>14. /\ cin' /\ round'.at = "args" /\ round'.op = round.op /\ round'.file = round.file
         /\ round'.args = Then(round.args, v)
    BY <2>11, <2>13 DEF Taken
  <2>15. Words(round') = Then(p, v)
    <3>1. PICK r, d : r = round /\ d = round' /\ r.op = op /\ r.file = file /\ r.args = args
                      /\ d.op = op /\ d.file = file /\ d.args = Then(args, v)
      BY <2>2, <2>14
    <3>2. Words(d) = Then(Words(r), v)
      BY <3>1, WordsGrow
    <3> QED BY <2>2, <3>1, <3>2
  <2>16. Then(p, Head(s)) \o Tail(s) = p \o s
    BY <2>6, Shift
  <2>17. Ahead' = Then(p, v) \o Tail(s)
    BY <2>12, <2>14, <2>15 DEF Ahead
  <2> QED BY <2>1, <2>4, <2>12, <2>14, <2>16, <2>17
<1> QED BY <1>1, <1>3, <1>4, PlayerGoesOn

LEMMA CallPlayed ==
  ASSUME TypeOK, Blank, Player, Call
  PROVE  Player'
<1> SUFFICES ASSUME session # "first" PROVE Player'
  BY CallMade DEF Player
<1>1. /\ round.at = "args" /\ Len(round.args) = Len(Wanted(round.op)) /\ round'.at = "op"
      /\ round.op \in Op => TheCall \in Calls
      /\ calls' = IF round.op \in Op THEN Then(calls, TheCall) ELSE calls
      /\ faithful' = faithful
      /\ UNCHANGED <<session, script, myin, cin, made>>
  BY CallMade
<1>2. PICK had \in Seq(Calls), has \in Seq(Calls), call \in {TheCall} :
        /\ had = calls /\ has = calls' /\ call = TheCall
        /\ has = IF round.op \in Op THEN Then(had, call) ELSE had
        /\ round.op \in Op => call \in Calls
  BY <1>1, CallMade DEF TypeOK
<1>3. /\ Len(had) \in Nat
      /\ Len(has) = IF round.op \in Op THEN Len(had) + 1 ELSE Len(had)
      /\ \A k \in 1..Len(had) : has[k] = had[k]
      /\ round.op \in Op => has[Len(had) + 1] = call
  <2>1. Len(had) \in Nat
    BY LenProperties
  <2>2. CASE round.op \in Op
    <3>1. /\ Len(Then(had, call)) = Len(had) + 1 /\ Then(had, call)[Len(had) + 1] = call
          /\ \A k \in 1..Len(had) : Then(had, call)[k] = had[k]
      BY <1>2, <2>2, ThenCall
    <3> QED BY <1>2, <2>1, <2>2, <3>1
  <2>3. CASE round.op \notin Op
    BY <1>2, <2>1, <2>3
  <2> QED BY <2>2, <2>3
<1>4. CASE Len(calls) >= faithful
  <2>1. \A k \in 1..Len(has) : k <= faithful => k \in 1..Len(had)
    BY <1>2, <1>3, <1>4, RoundTyped DEF TypeOK
  <2>2. \A k \in 1..Len(has) : k <= faithful => has[k] = made[k]
    BY <1>2, <1>3, <2>1 DEF Player
  <2>3. Len(has) >= faithful
    BY <1>2, <1>3, <1>4 DEF TypeOK
  <2> QED BY <1>1, <1>2, <2>2, <2>3 DEF Player
<1>5. CASE ~(Len(calls) >= faithful)
  <2>1. Running /\ session = "replay" /\ myin /\ cin
    BY <1>5 DEF Player, Running
  <2>2. PICK p \in Seq(Values), op \in Values, file \in Values, args \in Seq(Values) :
          /\ p = Words(round) /\ op = round.op /\ file = round.file /\ args = round.args
          /\ Len(p) = Len(args) + 2 /\ p[1] = op /\ p[2] = file
          /\ \A k \in 1..Len(args) : p[k + 2] = args[k]
          /\ Len(args) <= Len(Wanted(op))
    BY RoundWords
  <2>3. PICK s \in Seq(Values) : s = script
    BY DEF TypeOK
  <2>4. Ahead = p \o s
    BY <1>1, <2>2, <2>3 DEF Ahead
  <2>5. PICK c \in Commands, left \in Seq(Values), ds \in Seq(Calls), z \in Seq(Values) :
          /\ p \o s = Words(c) \o left
          /\ Plays(left, ds, z)
          /\ Len(calls) + (IF c.op \in Op THEN Len(ds) + 1 ELSE Len(ds)) = faithful
          /\ c.op \in Op => c = made[Len(calls) + 1]
          /\ \A k \in 1..Len(ds) :
               ds[k] = made[Len(calls) + (IF c.op \in Op THEN k + 1 ELSE k)]
    BY <1>5, <2>1, <2>4, NextCommand
  <2>6. c.op = op /\ Len(c.args) = Len(Wanted(op)) /\ p = Words(c) /\ s = left
    <3>1. Len(args) = Len(Wanted(op))
      BY <1>1, <2>2
    <3>2. PICK x : x = p \o s /\ x = Words(c) \o left
      BY <2>5
    <3>3. Begun(p, op, args, s, c, left)
      BY <2>2, <3>2, RoundAhead
    <3> QED BY <3>1, <3>3 DEF Begun
  <2>7. call = c
    <3>1. /\ c.args \in Seq(Values) /\ Words(c)[2] = c.file
          /\ \A k \in 1..Len(c.args) : Words(c)[k + 2] = c.args[k]
          /\ c = [op |-> c.op, file |-> c.file, args |-> c.args]
      BY CommandIs
    <3>2. PICK a \in Seq(Values) : a = c.args
      BY <3>1
    <3>3. Len(a) = Len(args) /\ \A k \in 1..Len(a) : a[k] = args[k]
      BY <1>1, <2>2, <2>6, <3>1, <3>2
    <3>4. a = args
      BY <3>3, SeqEqual
    <3>5. c.file = file
      BY <2>2, <2>6, <3>1
    <3>6. call = [op |-> op, file |-> file, args |-> args]
      BY <1>2, <2>2 DEF TheCall
    <3> QED BY <2>6, <3>1, <3>2, <3>4, <3>5, <3>6
  <2>8. Ahead' = left
    BY <1>1, <2>3, <2>6 DEF Ahead
  <2>9. /\ Len(ds) \in Nat /\ Len(has) + Len(ds) = faithful
        /\ \A k \in 1..Len(ds) : ds[k] = made[Len(has) + k]
    <3>1. Len(ds) \in Nat
      BY LenProperties
    <3>2. CASE op \in Op
      <4>1. /\ Len(has) = Len(had) + 1 /\ Len(had) + (Len(ds) + 1) = faithful
            /\ \A k \in 1..Len(ds) : ds[k] = made[Len(had) + (k + 1)]
        BY <1>2, <1>3, <2>2, <2>5, <2>6, <3>2
      <4>2. \A k \in 1..Len(ds) : Len(had) + (k + 1) = Len(has) + k
        BY <1>3, <4>1
      <4>3. \A k \in 1..Len(ds) : ds[k] = made[Len(has) + k]
        BY <4>1, <4>2
      <4> QED BY <1>3, <3>1, <4>1, <4>3
    <3>3. CASE op \notin Op
      BY <1>2, <1>3, <2>2, <2>5, <2>6, <3>1, <3>3
    <3> QED BY <3>2, <3>3
  <2>10. Running'
    BY <1>1, <1>2, <2>1, <2>5, <2>8, <2>9 DEF Running
  <2>11. ASSUME NEW k \in 1..Len(has), k <= faithful PROVE has[k] = made[k]
    <3>1. CASE k \in 1..Len(had)
      BY <1>2, <1>3, <2>11, <3>1 DEF Player
    <3>2. CASE k \notin 1..Len(had)
      <4>1. op \in Op /\ k = Len(had) + 1
        BY <1>3, <2>2, <3>2
      <4> QED BY <1>2, <1>3, <2>2, <2>5, <2>6, <2>7, <4>1
    <3> QED BY <3>1, <3>2
  <2> QED BY <1>1, <1>2, <2>10, <2>11 DEF Player
<1> QED BY <1>4, <1>5

-----------------------------------------------------------------------------
LEMMA ShellInit ==
  ASSUME Init
  PROVE  SInv
<1>1. <<>> \in Seq(Values) /\ <<>> \in Seq(Calls) /\ <<>> \in Seq(Values \ {Nothing}) /\ Len(<<>>) = 0
  OBVIOUS
<1>2. Fresh \in Rounds /\ Len(Fresh.args) <= Len(Wanted(Fresh.op)) /\ Fresh.at = "op" /\ Fresh.args = <<>>
  BY FreshIs, WantedIs
<1>3. TypeOK /\ Blank
  <2>1. round = Fresh /\ script = <<>> /\ record = <<>> /\ calls = <<>> /\ made = <<>>
        /\ session = "first" /\ myin = FALSE /\ cin = TRUE /\ faithful = -1
    BY DEF Init
  <2>2. /\ round \in [at: {"op", "file", "args"}, op: Values, file: Values, args: Seq(Values)]
        /\ Len(round.args) <= Len(Wanted(round.op)) /\ round.args = <<>>
    BY <1>2, <2>1 DEF Rounds
  <2>3. script \in Seq(Values) /\ record \in Seq(Values \ {Nothing})
        /\ calls \in Seq(Calls) /\ made \in Seq(Calls)
    BY <1>1, <2>1
  <2>4. session \in {"first", "replay", "over"}
    BY <2>1
  <2>5. myin \in BOOLEAN /\ cin \in BOOLEAN
    BY <2>1
  <2>6. faithful \in Int
    BY <2>1
  <2> QED BY <2>2, <2>3, <2>4, <2>5, <2>6 DEF TypeOK, Blank
<1>4. Plays(<<>>, <<>>, <<>>)
  BY <1>1, PlaysNothing
<1>5. Kept = 0 /\ Len(calls) = 0
  BY <1>1 DEF Init, Kept
<1>6. Open(<<>>)
  BY <1>2 DEF Init, Open
<1>7. \A k \in 1..Len(<<>>) : FALSE
  OBVIOUS
<1>8. record = <<>> /\ ~myin /\ session = "first"
  BY DEF Init
<1>9. Recorder
  <2>1. PICK e : e = <<>>
    OBVIOUS
  <2>2. e \in Seq(Calls) /\ e \in Seq(Values) /\ Plays(record, e, e) /\ Len(e) = Kept
        /\ (\A k \in 1..Len(e) : FALSE) /\ Open(e)
    BY <1>1, <1>4, <1>5, <1>6, <1>8, <2>1
  <2>3. Kept \in 0..Len(calls)
    BY <1>5
  <2> QED BY <1>8, <2>2, <2>3 DEF Recorder
<1>10. Player
  BY <1>8 DEF Player
<1> QED BY <1>3, <1>9, <1>10 DEF SInv

(* One step per action: the types with the round, the record of the first  *)
(* session and the script of the second one.                               *)
LEMMA ShellStep ==
  ASSUME SInv, [Next]_vars
  PROVE  SInv'
<1>0. TypeOK /\ Blank /\ Recorder /\ Player
  BY DEF SInv
<1>1. CASE ReadOp
  BY <1>0, <1>1, OpRead, OpRecorded, OpPlayed DEF SInv
<1>2. CASE ReadFile
  BY <1>0, <1>2, FileRead, FileRecorded, FilePlayed DEF SInv
<1>3. CASE ReadArgument
  BY <1>0, <1>3, ArgumentRead, ArgumentRecorded, ArgumentPlayed DEF SInv
<1>4. CASE Call
  BY <1>0, <1>4, CallMade, CallRecorded, CallPlayed DEF SInv
<1>5. CASE Exit
  <2>1. TypeOK' /\ Blank' /\ session' = "replay"
    BY <1>0, <1>5, Exited
  <2>2. Recorder'
    BY <2>1 DEF Recorder
  <2> QED BY <1>0, <1>5, <2>1, <2>2, PlayerStarts DEF SInv
<1>6. CASE ScriptEnds
  <2>1. /\ TypeOK' /\ Blank' /\ session = "replay" /\ session' = "over" /\ ~myin
        /\ UNCHANGED <<round, calls, made, faithful>>
    BY <1>0, <1>6, ScriptEnded
  <2>2. Recorder'
    BY <2>1 DEF Recorder
  <2>3. Len(calls) >= faithful
    BY <1>0, <2>1 DEF Player, Running
  <2>4. Player'
    BY <1>0, <2>1, <2>3 DEF Player
  <2> QED BY <2>1, <2>2, <2>4 DEF SInv
<1>7. CASE UNCHANGED vars
  BY <1>0, <1>7 DEF SInv, vars, TypeOK, Blank, Recorder, Player, Kept, Open, Ahead, Running
<1> QED BY <1>1, <1>2, <1>3, <1>4, <1>5, <1>6, <1>7 DEF Next, Step, Rest

(* Streams, record and calls have their types, the record holds what a     *)
(* later session needs to make the calls again, and a script that is       *)
(* played has given what it should: my_stubs.cc, main.                     *)
THEOREM ShellInvariance == Spec => []SInv
<1>1. Init => SInv
  BY ShellInit
<1>2. SInv /\ [Next]_vars => SInv'
  BY ShellStep
<1> QED BY <1>1, <1>2, PTL DEF Spec

(* The streams, the record and the calls of any sessions have their types: *)
(* no empty word is ever recorded, and no command reads more arguments     *)
(* than it has.                                                            *)
THEOREM TypeCorrect == Spec => []TypeOK
<1>1. SInv => TypeOK
  BY DEF SInv
<1> QED BY <1>1, ShellInvariance, PTL

(* However long the dialogue, a session that is played back makes the      *)
(* calls it was recorded with, one by one and with their arguments, up to  *)
(* the first of which the record has not all, or that was given up.        *)
THEOREM ReplayRepeatsHolds == Spec => []ReplayRepeats
<1>1. SInv => ReplayRepeats
  <2> SUFFICES ASSUME SInv, session \in {"replay", "over"} PROVE ReplayRepeats
    BY DEF ReplayRepeats
  <2>1. Player
    BY DEF SInv
  <2>2. session # "first"
    OBVIOUS
  <2>3. \A k \in 1..Len(calls) : k <= faithful => calls[k] = made[k]
    BY <2>1, <2>2 DEF Player
  <2>4. session = "over" => Len(calls) >= faithful
    BY <2>1, <2>2 DEF Player, Running
  <2>5. DOMAIN calls = 1..Len(calls)
    BY LenProperties DEF SInv, TypeOK
  <2> QED BY <2>3, <2>4, <2>5 DEF ReplayRepeats
<1> QED BY <1>1, ShellInvariance, PTL
=============================================================================
