-------------------------------- MODULE Ilist --------------------------------
(***************************************************************************)
(* The inode table of src/ProjectWOFuse/src/my_stubs.cc, class Ilist and    *)
(* class File, and the helpers every call of the file system is built      *)
(* from: the edits of a directory, the link counts, path resolution, and   *)
(* the making of an inode (my_mknod).  They are operators on the table,    *)
(* written nd, so that a call can use several of them one after another.   *)
(*                                                                         *)
(* A path is the sequence of its segments, the empty one in front of a     *)
(* leading "/" left out: "/" is <<"">>, "/a" and "a" are <<a>>, "/a/" is   *)
(* <<a, "">>.  (The code resolves "a" from the root too: cwd is unused.)   *)
(***************************************************************************)
EXTENDS Integers, Sequences, SequencesExt, Mode

CONSTANTS
  Name,          \* the names a path can be built from, apart from "", "." and ".."
  MaxIno,        \* bound: the last inode number the table can issue
  FirstSurvives  \* does the block my_readdir frees keep its first d_ino?

ASSUME NameAssumption == Name \cap {"", ".", ".."} = {}

ASSUME IlistAssumption ==
  /\ MaxIno \in Nat /\ MaxIno >= 2
  /\ FirstSurvives \in BOOLEAN

ROOT == 2               \* find_real_ino starts every walk at 2
Ino == 0..MaxIno        \* 0 stands for "no such file"
Stray == 1              \* a number next() never issues

Segment == Name \cup {"", ".", ".."}
Path == Seq(Segment) \ {<<>>}

(* nlink is an unsigned 64-bit word: -1 is 2^64 - 1, what 0 wraps to. *)
Dentry == [name: Segment, ino: Ino]
File == [type:     Type,
         nlink:    Int,
         dentries: Seq(Dentry),
         target:   Path \cup {<<>>}]

(* What ilist.entry[i] is for a number that is not in the map: operator[]  *)
(* puts a zeroed File there, so that reading one and not having one are    *)
(* the same here.                                                          *)
Blank == [type |-> "none", nlink |-> 0, dentries |-> <<>>, target |-> <<>>]

-----------------------------------------------------------------------------
(* Directories and link counts *)

ParentPath(p) == Front(p)
TailName(p) == Last(p)

Named(nd, d, n) == {k \in DOMAIN nd[d].dentries : nd[d].dentries[k].name = n}
Holding(nd, d, i) == {k \in DOMAIN nd[d].dentries : nd[d].dentries[k].ino = i}

(* Mutant: a new dentry goes in front of the others. *)
PushFront(nd, d, n, i) ==
  IF d = 0 THEN nd
  ELSE [nd EXCEPT ![d].dentries = <<[name |-> n, ino |-> i]>> \o @]

(* A write to the File of number 0 is left out: no walk leads to it, every *)
(* call that would read it stops at its type, and it never gets one.       *)
Push(nd, d, n, i) ==
  IF d = 0 THEN nd
  ELSE [nd EXCEPT ![d].dentries = Append(@, [name |-> n, ino |-> i])]

RemoveDentry(nd, d, hits) ==
  IF hits = {} THEN nd
  ELSE [nd EXCEPT ![d].dentries = RemoveAt(@, Min(hits))]

RemoveName(nd, d, n) == RemoveDentry(nd, d, Named(nd, d, n))
RemoveIno(nd, d, i) == RemoveDentry(nd, d, Holding(nd, d, i))

(* Mutant: the new link is not counted. *)
AddLinkUncounted(nd, i) == nd

AddLink(nd, i) == IF i = 0 THEN nd ELSE [nd EXCEPT ![i].nlink = @ + 1]

(* Mutant: the inode goes with any of its links. *)
DropLinkAlways(nd, i) == [nd EXCEPT ![i] = Blank]

(* The inode goes when its count comes to 0, and only then. *)
DropLink(nd, i) ==
  IF nd[i].nlink = 1 THEN [nd EXCEPT ![i] = Blank]
  ELSE [nd EXCEPT ![i].nlink = @ - 1]

-----------------------------------------------------------------------------
(* Path resolution *)

(* The first dentry of that name, or 0.  The pointer that comes back is    *)
(* into a vector my_readdir has destroyed: the allocator writes over the   *)
(* first bytes of a block it frees, which hold the first dentry's d_ino.   *)
Lookup(nd, n, d) ==
  LET hits == Named(nd, d, n)
  IN IF hits = {} THEN 0
     ELSE IF Min(hits) = 1 /\ ~FirstSurvives THEN Stray
     ELSE nd[d].dentries[Min(hits)].ino

Step(nd, d, n) ==
  IF d \in Ino /\ nd[d].type = "dir" THEN Lookup(nd, n, d) ELSE 0

(* Null segments are skipped; "/" is the root.  The last step does not      *)
(* check that there is a file of the number it yields.                     *)
FindReal(nd, p) ==
  LET fh[k \in 0..Len(p)] == IF k = 0 THEN ROOT
                             ELSE IF p[k] = "" THEN fh[k - 1]
                             ELSE Step(nd, fh[k - 1], p[k])
  IN fh[Len(p)]

(* Follows a link at the end of the path, once. *)
Find(nd, p) ==
  LET i == FindReal(nd, p)
  IN IF nd[i].type = "lnk" THEN FindReal(nd, nd[i].target) ELSE i

-----------------------------------------------------------------------------
(* my_mknod makes the inode first, then checks the path: where the parent  *)
(* is missing or the name taken the new inode stays, without a dentry.     *)

NewInode(t) == [type |-> t, nlink |-> 1, dentries |-> <<>>, target |-> <<>>]
WithInode(nd, i, t) == [nd EXCEPT ![i] = NewInode(t)]

Creatable(nd, p) == Find(nd, ParentPath(p)) # 0 /\ Find(nd, p) = 0

(* Mutant: ".." leads to the new directory itself. *)
WithDentriesSelf(nd, i, p) ==
  LET linked == Push(nd, Find(nd, ParentPath(p)), TailName(p), i)
  IN IF nd[i].type = "dir"
     THEN Push(Push(linked, i, ".", i), i, "..", i)
     ELSE linked

(* Mutant: the name is the whole path. *)
WithDentriesPath(nd, i, p) ==
  LET up == Find(nd, ParentPath(p))
      linked == Push(nd, up, p, i)
  IN IF nd[i].type = "dir"
     THEN Push(Push(linked, i, ".", i), i, "..", up)
     ELSE linked

(* nd already holds the inode i.  The parent need not be a directory. *)
WithDentries(nd, i, p) ==
  LET up == Find(nd, ParentPath(p))
      linked == Push(nd, up, TailName(p), i)
  IN IF nd[i].type = "dir"
     THEN Push(Push(linked, i, ".", i), i, "..", up)
     ELSE linked

Mknod(nd, i, p, t) ==
  LET made == WithInode(nd, i, t)
  IN IF Creatable(made, p) THEN WithDentries(made, i, p) ELSE made

(* initialize(): the first my_mknod makes the root, with no dentry for it. *)
InitialTable ==
  LET made == WithInode([i \in Ino |-> Blank], ROOT, "dir")
  IN Push(Push(made, ROOT, ".", ROOT), ROOT, "..", ROOT)
=============================================================================
