------------------------------ MODULE Attributes ------------------------------
(***************************************************************************)
(* The calls of src/ProjectWOFuse/src/my_stubs.cc that read and set what   *)
(* is known of a file beside its data: mode, owner, times and extended     *)
(* attributes.  Names, data and the directories on the way of a path stay  *)
(* as they are here; what changes is which file a path leads to, because   *)
(* my_chmod takes the type of a link from a file or gives it to one.  The  *)
(* calls that read are operators.                                          *)
(***************************************************************************)
EXTENDS Integers, Sequences, SequencesExt, Mode

CONSTANTS
  Path,
  MaxIno,        \* the files are 1..MaxIno
  FileAt,        \* the file find_real_ino yields for each path, 0 for none
  LinkTo,        \* the path a file's data holds, should it be a link
  FirstType,     \* what each file is made as
  Modes,         \* the type bits of the modes passed to my_chmod
  Perm,          \* the permissions of the user that my_access compares
  Owner, Times,
  NameLen,       \* the names of attributes, in order: their lengths
  ValueLen       \* the lengths of values

File == 1..MaxIno
Attr == 1..Len(NameLen)

ASSUME AttributesAssumption ==
  /\ MaxIno \in Nat
  /\ FileAt \in [Path -> File \cup {0}]
  /\ LinkTo \in [File -> Path]
  /\ FirstType \in [File -> Type] /\ Modes \subseteq Type
  /\ Owner # {} /\ Times # {}
  /\ NameLen \in Seq(Nat \ {0}) /\ ValueLen \subseteq Nat

VARIABLES
  meta,      \* the struct stat of each file, and of the number 0
  xattr,     \* the attributes of each file, and of the number 0
  phantom    \* has operator[] inserted a File of number 0 yet?

vars == <<meta, xattr, phantom>>

Ino == File \cup {0}
FirstOwner == CHOOSE o \in Owner : TRUE
FirstTimes == CHOOSE s \in Times : TRUE
NoAttributes == [n \in {} |-> 0]
Made(t) == [type |-> t, bits |-> {}, owner |-> FirstOwner, times |-> FirstTimes]

(* A zeroed File: the owner and the times of number 0 are not looked at. *)
Init ==
  /\ meta = [i \in Ino |-> Made(IF i = 0 THEN "none" ELSE FirstType[i])]
  /\ xattr = [i \in Ino |-> NoAttributes]
  /\ phantom = FALSE

-----------------------------------------------------------------------------
(* find_ino follows one link; find_real_ino, which is FileAt, none. *)
Find(p) ==
  IF meta[FileAt[p]].type = "lnk" THEN FileAt[LinkTo[FileAt[p]]] ELSE FileAt[p]

(* find_ino looks at the type of what find_real_ino yields by operator[].  *)
PhantomAfterFind(p) == phantom \/ FileAt[p] = 0

(* my_access, my_statvfs and all others that only look ask find_ino first. *)
Ask(p) == phantom' = PhantomAfterFind(p) /\ UNCHANGED <<meta, xattr>>

(* my_access: the bits of the mask have to be the ones of the file.  The   *)
(* check for a missing file is my_fstat's, after find_ino.                 *)
Grants(p, mask) ==
  /\ Find(p) # 0 \/ PhantomAfterFind(p)
  /\ meta[Find(p)].bits = mask

(* my_statvfs: f_files, or -1. *)
StatvfsFiles(p) ==
  IF Find(p) = 0 THEN -1 ELSE MaxIno + (IF phantom THEN 1 ELSE 0)

-----------------------------------------------------------------------------
(* Calls that set metadata *)

(* Mutant: the permissions are set before the number is tested. *)
ChmodEarly(p, mode, bits) ==
  LET fh == Find(p)
  IN /\ meta' = [meta EXCEPT ![fh].type = IF fh = 0 THEN @ ELSE Chmoded(@, mode),
                            ![fh].bits = bits]
     /\ phantom' = (PhantomAfterFind(p) \/ fh = 0)
     /\ UNCHANGED xattr

(* The file is looked at by operator[] before its number is tested.  The   *)
(* bits of the mode take the place of all the file had, its type included. *)
Chmod(p, mode, bits) ==
  LET fh == Find(p)
  IN /\ meta' = IF fh = 0 THEN meta
                ELSE [meta EXCEPT ![fh].type = Chmoded(@, mode), ![fh].bits = bits]
     /\ phantom' = (PhantomAfterFind(p) \/ fh = 0)
     /\ UNCHANGED xattr

(* Mutant: a link is not followed. *)
ChownReal(p, owner) ==
  /\ meta' = IF FileAt[p] = 0 THEN meta ELSE [meta EXCEPT ![FileAt[p]].owner = owner]
  /\ phantom' = PhantomAfterFind(p)
  /\ UNCHANGED xattr

Chown(p, owner) ==
  /\ meta' = IF Find(p) = 0 THEN meta ELSE [meta EXCEPT ![Find(p)].owner = owner]
  /\ phantom' = PhantomAfterFind(p)
  /\ UNCHANGED xattr

Utime(p, times) ==
  /\ meta' = IF Find(p) = 0 THEN meta ELSE [meta EXCEPT ![Find(p)].times = times]
  /\ phantom' = PhantomAfterFind(p)
  /\ UNCHANGED xattr

-----------------------------------------------------------------------------
(* Extended attributes *)

Has(i, n) == n \in DOMAIN xattr[i]
With(x, n, len) == [m \in DOMAIN x \cup {n} |-> IF m = n THEN len ELSE x[m]]
Without(x, n) == [m \in DOMAIN x \ {n} |-> x[m]]

(* Mutant: a missing file is not refused. *)
LsetxattrUnchecked(p, n, len) ==
  /\ ~Has(FileAt[p], n)
  /\ xattr' = [xattr EXCEPT ![FileAt[p]] = With(@, n, len)]
  /\ phantom' = PhantomAfterFind(p)
  /\ UNCHANGED meta

(* On the file itself, be it a link; insert keeps a value that is there. *)
Lsetxattr(p, n, len) ==
  /\ xattr' = IF FileAt[p] = 0 \/ Has(FileAt[p], n) THEN xattr
              ELSE [xattr EXCEPT ![FileAt[p]] = With(@, n, len)]
  /\ UNCHANGED <<meta, phantom>>

(* The length of the value: the caller's buffer is not written. *)
Lgetxattr(p, n) ==
  IF FileAt[p] = 0 \/ ~Has(FileAt[p], n) THEN -1 ELSE xattr[FileAt[p]][n]

(* Mutant: a name that does not fit is passed over. *)
ListNamePasses(x, size, s, n) ==
  IF n \in DOMAIN x /\ s.pos + NameLen[n] + 1 < size
  THEN [s EXCEPT !.listed = @ \cup {n}, !.pos = @ + NameLen[n] + 1]
  ELSE s

(* One name of the loop of my_llistxattr, with its NUL. *)
ListName(x, size, s, n) ==
  IF s.broken \/ n \notin DOMAIN x THEN s
  ELSE IF s.pos + NameLen[n] + 1 < size
  THEN [s EXCEPT !.listed = @ \cup {n}, !.pos = @ + NameLen[n] + 1]
  ELSE [s EXCEPT !.broken = TRUE]

Listed(x, size) ==
  LET after[n \in 0..Len(NameLen)] ==
        IF n = 0 THEN [listed |-> {}, pos |-> 0, broken |-> FALSE]
        ELSE ListName(x, size, after[n - 1], n)
  IN after[Len(NameLen)]

(* The bytes filled and the names in them. *)
Llistxattr(p, size) ==
  IF FileAt[p] = 0 THEN [pos |-> -1, listed |-> {}]
  ELSE LET s == Listed(xattr[FileAt[p]], size)
       IN [pos |-> s.pos, listed |-> s.listed]

(* Unlike the others it follows a link. *)
Lremovexattr(p, n) ==
  /\ xattr' = IF Find(p) = 0 THEN xattr ELSE [xattr EXCEPT ![Find(p)] = Without(@, n)]
  /\ phantom' = PhantomAfterFind(p)
  /\ UNCHANGED meta

-----------------------------------------------------------------------------
Next == \E p \in Path :
  \/ Ask(p)
  \/ \E mode \in Modes, bits \in SUBSET Perm : Chmod(p, mode, bits)
  \/ \E owner \in Owner : Chown(p, owner)
  \/ \E times \in Times : Utime(p, times)
  \/ \E n \in Attr : \/ \E len \in ValueLen : Lsetxattr(p, n, len)
                     \/ Lremovexattr(p, n)

Spec == Init /\ [][Next]_vars
-----------------------------------------------------------------------------
(* Files have metadata and attributes; the File that operator[] inserts    *)
(* for the number 0 stays a zeroed one without any.                        *)
TypeOK ==
  /\ meta \in [Ino -> [type: Type, bits: SUBSET Perm, owner: Owner, times: Times]]
  /\ xattr \in [Ino -> UNION {[names -> ValueLen] : names \in SUBSET Attr}]
  /\ phantom \in BOOLEAN
  /\ xattr[0] = NoAttributes

(* A path that leads to no file gives no permission and has no attribute,  *)
(* before and after a File of number 0 has come into being: the File that  *)
(* my_fstat then finds for it is never given a mode by a failing call.     *)
(* (The empty mask, a test for existence, it does grant from then on.)     *)
MissingGrantsNoPermission ==
  \A p \in Path : Find(p) = 0 =>
    /\ \A mask \in SUBSET Perm : Grants(p, mask) => mask = {}
    /\ StatvfsFiles(p) = -1
    /\ FileAt[p] = 0 => \A n \in Attr : Lgetxattr(p, n) = -1

(* What my_llistxattr puts into a buffer of any size is the names in their *)
(* order from the first to some last one, the bytes it returns are these   *)
(* names' with their NULs and no more than there is room for, and a name   *)
(* is left out only if the list through it would fill the buffer.          *)
BytesTo(names) ==
  LET sum[k \in 0..Len(NameLen)] ==
        IF k = 0 THEN 0 ELSE sum[k - 1] + (IF k \in names THEN NameLen[k] + 1 ELSE 0)
  IN sum

ListIsPrefix ==
  \A p \in Path : FileAt[p] # 0 =>
    LET has == DOMAIN xattr[FileAt[p]]
        bytes == BytesTo(has)
    IN \A size \in 0..(bytes[Len(NameLen)] + 1) :
         LET got == Llistxattr(p, size)
         IN /\ \E last \in 0..Len(NameLen) :
                 got.listed = {n \in has : n <= last} /\ got.pos = bytes[last]
            /\ got.pos <= size
            /\ \A n \in has \ got.listed : bytes[n] >= size

(* chmod, chown and utime act on what a link leads to: the mode, owner and *)
(* times of a link that no link leads to are what they were.               *)
LinkOutOfReach ==
  [][\A i \in File :
       /\ meta[i].type = "lnk"
       /\ \A j \in File : meta[j].type = "lnk" => FileAt[LinkTo[j]] # i
       => meta'[i] = meta[i]]_vars

(* "Removes an attribute named name from path": after a my_lremovexattr    *)
(* that has removed one, my_lgetxattr by the same path does not find it.   *)
RemovesTheAttribute ==
  [][\A p \in Path, n \in Attr :
       Lremovexattr(p, n) /\ xattr' # xattr => Lgetxattr(p, n)' = -1]_vars
=============================================================================
