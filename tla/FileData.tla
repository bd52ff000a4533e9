------------------------------- MODULE FileData -------------------------------
(***************************************************************************)
(* The data of one File of src/ProjectWOFuse/src/my_stubs.cc, and the      *)
(* calls that make, write, resize and read it.  A caller has a handle of   *)
(* the file as long as it is there, and no call uses a handle of another.  *)
(*                                                                         *)
(* A buffer to be written is a C string: it holds no NUL, and the size the *)
(* caller passes is its length, as the shell and my_symlink pass it.       *)
(***************************************************************************)
EXTENDS Integers, Sequences, SequencesExt, Mode

CONSTANTS
  Char,     \* the bytes a buffer can hold
  NUL,      \* the byte that is none of them
  MaxLen,   \* bound: the longest data
  MaxBuf,   \* bound: the longest buffer written
  Word      \* a size_t wraps at Word

ASSUME FileDataAssumption ==
  /\ NUL \notin Char
  /\ MaxLen \in Nat /\ MaxBuf \in Nat
  /\ Word \in Nat /\ Word > 2 * (MaxLen + MaxBuf)

VARIABLES
  type,     \* the type bits of st_mode; "absent" before the file is made
  data,     \* File.data
  st_size   \* metadata.st_size

vars == <<type, data, st_size>>

Byte == Char \cup {NUL}
Buffers == SeqOf(Char, MaxBuf)
Offsets == -1..(MaxLen + 1)

Init == type = "absent" /\ data = <<>> /\ st_size = 0

Fails == UNCHANGED vars
-----------------------------------------------------------------------------
(* my_creat ors S_IFREG into the mode, my_mkdir S_IFDIR. *)
Make(kind, mode) ==
  /\ type = "absent" /\ type' = WithBits(kind, mode)
  /\ UNCHANGED <<data, st_size>>

(* Any type bits the caller passes, whatever data the file has. *)
Chmod(mode) ==
  /\ type # "absent"
  /\ type' = Chmoded(type, mode)
  /\ UNCHANGED <<data, st_size>>

(* An offset is compared with the length as an unsigned number, so that a  *)
(* negative one is past the end too.                                       *)
WriteStart(d, offset) == IF offset \in 0..Len(d) THEN offset ELSE Len(d)

(* Mutant: the data is put in front of the byte at the offset. *)
WrittenInserts(d, buf, at) == SubSeq(d, 1, at) \o buf \o SubSeq(d, at + 1, Len(d))

(* The data grows by the length of the buffer wherever the write starts,   *)
(* with NULs at the end, and is then overwritten from there.               *)
Written(d, buf, at) ==
  [k \in 1..(Len(d) + Len(buf)) |->
     IF k \in (at + 1)..(at + Len(buf)) THEN buf[k - at]
     ELSE IF k <= Len(d) THEN d[k] ELSE NUL]

Pwrite(buf, offset) ==
  \/ type \notin {"absent", "reg"} /\ Fails
  \/ /\ type = "reg"
     /\ Len(data) + Len(buf) <= MaxLen
     /\ data' = Written(data, buf, WriteStart(data, offset))
     /\ st_size' = Len(buf)
     /\ UNCHANGED type

(* A new regular file, written from 0, whose type is then changed. *)
Symlink(target) ==
  /\ type = "absent" /\ type' = "lnk"
  /\ Len(target) <= MaxLen
  /\ data' = Written(<<>>, target, 0)
  /\ st_size' = Len(target)

Resized(d, n) == [k \in 1..n |-> IF k <= Len(d) THEN d[k] ELSE NUL]

(* Mutant: the stored size is left as it was. *)
FtruncateKeepsSize(n) ==
  /\ type \notin {"absent", "dir"} /\ n \in 0..MaxLen
  /\ data' = Resized(data, n)
  /\ UNCHANGED <<type, st_size>>

(* Mutant: a directory is resized too. *)
FtruncateAny(n) ==
  /\ type # "absent" /\ n \in 0..MaxLen
  /\ data' = Resized(data, n)
  /\ st_size' = n
  /\ UNCHANGED type

(* Mutant: a negative length is not refused. *)
FtruncateNegative(n) ==
  /\ type \notin {"absent", "dir"} /\ n <= MaxLen
  /\ data' = Resized(data, n)
  /\ st_size' = n
  /\ UNCHANGED type

(* Any file that is no directory, a link and one without type included.    *)
(* my_truncate makes the same checks before it calls my_ftruncate.         *)
Ftruncate(n) ==
  \/ type # "absent" /\ (n < 0 \/ type = "dir") /\ Fails
  \/ /\ type \notin {"absent", "dir"} /\ n \in 0..MaxLen
     /\ data' = Resized(data, n)
     /\ st_size' = n
     /\ UNCHANGED type
-----------------------------------------------------------------------------
(* Reading changes nothing: what my_pread returns, and what it puts in the *)
(* buffer, by strcpy, which stops at a NUL.                                *)

CString(s) ==
  LET nuls == {k \in DOMAIN s : s[k] = NUL}
  IN IF nuls = {} THEN s ELSE SubSeq(s, 1, Min(nuls) - 1)

Refused == [ret |-> -1, buf |-> <<>>]

(* Mutant: the rest of the file is one byte short. *)
ReadFromShort(d, size, offset) ==
  IF Len(d) < (offset + size - 1) % Word
  THEN [ret |-> Len(d) - offset - 1, buf |-> CString(SubSeq(d, offset + 1, Len(d) - 1))]
  ELSE [ret |-> size, buf |-> CString(SubSeq(d, offset + 1, Min({offset + size, Len(d)})))]

(* offset is in 0..Len(d).  offset + size - 1 is a size_t: 0 + 0 - 1 wraps. *)
ReadFrom(d, size, offset) ==
  IF Len(d) < (offset + size - 1) % Word
  THEN [ret |-> Len(d) - offset, buf |-> CString(SubSeq(d, offset + 1, Len(d)))]
  ELSE [ret |-> size, buf |-> CString(SubSeq(d, offset + 1, Min({offset + size, Len(d)})))]

(* A negative offset makes substr throw, and the program ends: offset is a *)
(* natural number here.                                                    *)
Pread(size, offset) ==
  IF type = "dir" \/ offset > Len(data) THEN Refused ELSE ReadFrom(data, size, offset)

Readlink(size) ==
  IF type # "lnk" THEN Refused ELSE [Pread(size, 0) EXCEPT !.ret = Min({@, 0})]
-----------------------------------------------------------------------------
Next ==
  \/ \E mode \in Type : \/ \E kind \in {"reg", "dir"} : Make(kind, mode)
                        \/ Chmod(mode)
  \/ \E buf \in Buffers : Symlink(buf) \/ \E offset \in Offsets : Pwrite(buf, offset)
  \/ \E n \in Offsets : Ftruncate(n)

Spec == Init /\ [][Next]_vars
-----------------------------------------------------------------------------
TypeOK ==
  /\ type \in Type \cup {"absent"}
  /\ data \in Seq(Byte)
  /\ st_size \in Nat

(* No call writes or resizes the data of a directory, nor does one that    *)
(* makes a directory of a file by its mode bits: what the file had before  *)
(* is still there when the bits change again.                              *)
DirectoryKeepsData ==
  [][type = "dir" \/ type' = "dir" => UNCHANGED <<data, st_size>>]_vars

(* st_size is set to the length of the last write, wherever it went, and   *)
(* may so be too small, never too large: a reader that trusts it does not  *)
(* run past the data, in whatever order writes and truncations come.       *)
SizeWithinData == st_size <= Len(data)

(* A write changes no byte outside of the range the caller asks for, and   *)
(* with an offset that is not within the data none of the old bytes at     *)
(* all.  With one that is, a read of that place gives the buffer in full,  *)
(* and what is added at the end beside the buffer is NUL.  (Where the      *)
(* bytes of a write past the end go is not said: glibc's would leave NULs  *)
(* up to the offset, this one puts them at the end of the data.)           *)
WriteIsLocal ==
  [][\A buf \in Buffers, offset \in Offsets :
       type = "reg" /\ Pwrite(buf, offset) =>
         /\ LET asked == IF offset \in 0..Len(data)
                        THEN (offset + 1)..(offset + Len(buf)) ELSE {}
            IN \A k \in DOMAIN data \ asked : data'[k] = data[k]
         /\ offset \in 0..Len(data) =>
              /\ \A k \in DOMAIN data' \ DOMAIN data :
                   k > offset + Len(buf) => data'[k] = NUL
              /\ buf # <<>> =>
                   ReadFrom(data', Len(buf), offset) = [ret |-> Len(buf), buf |-> buf]]_vars

(* What a loop of reads of that size gathers, each from where the count of *)
(* the last one leads, until one is refused or returns 0.  No loop is      *)
(* longer than the data and two more.                                      *)
ReadLoop(size) ==
  LET gathered[n \in 0..(MaxLen + 2)] ==
        IF n = 0 THEN [at |-> 0, all |-> <<>>]
        ELSE LET before == gathered[n - 1]
                 r == Pread(size, before.at)
             IN IF r.ret <= 0 THEN before
                ELSE [at |-> before.at + r.ret, all |-> before.all \o r.buf]
  IN gathered[MaxLen + 2]

(* The count my_pread returns at the end of the data may be one more than  *)
(* it has copied.  A loop of reads gathers the data all the same, no byte  *)
(* left out or read twice, where the data is text; and one my_readlink     *)
(* gives the whole target of a link if the buffer has room for it.         *)
ReadLoopComplete ==
  type # "dir" /\ data \in Seq(Char) =>
    \A size \in 1..(MaxLen + 1) :
      /\ ReadLoop(size).all = data
      /\ type = "lnk" /\ Len(data) <= size => Readlink(size).buf = data

=============================================================================
