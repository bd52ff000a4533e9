---------------------------- MODULE CarefulCaller ----------------------------
(***************************************************************************)
(* NameSpace driven by a caller that keeps to a contract, and what the     *)
(* code then guarantees.  A May operator is the contract of one call: part *)
(* of it is what the kernel checks before it calls a FUSE file system (the *)
(* parent is a directory, a name to be made is free, a file to be removed  *)
(* is there, paths hold no links), the rest is what my_stubs.cc needs and  *)
(* does not check: no unlink, rename or rmdir of a symbolic link, no       *)
(* rename onto a name in use or of a directory into another one, no rmdir  *)
(* of an open directory, no chmod of anything but a directory, and nothing *)
(* but permission bits in a mode.                                          *)
(***************************************************************************)
EXTENDS NameSpace

(* A mode may hold permission bits alone. *)
ASSUME CarefulAssumption == "none" \in NewModes \cap Modes

TypeAt(p) == entry[FindReal(entry, p)].type
Plain(p) == TailName(p) \in Name

MayMake(p) == /\ Plain(p)
              /\ TypeAt(ParentPath(p)) = "dir"
              /\ FindReal(entry, p) = 0
MayUnlink(p) == Plain(p) /\ TypeAt(p) = "reg"
MayRmdir(p) ==
  LET d == FindReal(entry, p)
  IN /\ Plain(p)
     /\ entry[d].type = "dir" /\ Len(entry[d].dentries) = 2
     /\ held[d] = 0
MayLink(p, q) == Plain(p) /\ TypeAt(p) = "reg" /\ MayMake(q)
MayRename(p, q) ==
  /\ Plain(p) /\ MayMake(q)
  /\ \/ TypeAt(p) = "reg"
     \/ TypeAt(p) = "dir" /\ ParentPath(p) = ParentPath(q)
MayOpen(p) == entry[Find(entry, p)].type # "none"
MayChmod(p) == entry[Find(entry, p)].type = "dir"

CarefulMkdir(p) == MayMake(p) /\ Mkdir(p, "none")
CarefulCreat(p) == MayMake(p) /\ Creat(p, "none")
CarefulSymlink(p, q) == MayMake(q) /\ Symlink(p, q)
CarefulUnlink(p) == MayUnlink(p) /\ Unlink(p)
CarefulRmdir(p) == MayRmdir(p) /\ Rmdir(p)
CarefulLink(p, q) == MayLink(p, q) /\ Link(p, q)
CarefulRename(p, q) == MayRename(p, q) /\ Rename(p, q)
CarefulOpen(p) == MayOpen(p) /\ Open(p)
CarefulChmod(p) == MayChmod(p) /\ Chmod(p, "none")

CarefulNext ==
  \/ \E p \in Paths : \/ CarefulMkdir(p) \/ CarefulCreat(p) \/ CarefulUnlink(p)
                      \/ CarefulRmdir(p) \/ CarefulOpen(p) \/ CarefulChmod(p)
  \/ \E p, q \in Paths : \/ CarefulLink(p, q) \/ CarefulSymlink(p, q)
                         \/ CarefulRename(p, q)
  \/ \E fh \in Ino \ {0} : Close(fh)

CarefulSpec == Init /\ [][CarefulNext]_vars
-----------------------------------------------------------------------------
NamesIn(nd) ==
  UNION {{<<i, k>> : k \in {j \in DOMAIN nd[i].dentries :
                             nd[i].dentries[j].name \notin {".", ".."}}} : i \in Ino}
Live(i) == entry[i].type # "none"
NamesOf(i) == {x \in NamesIn(entry) : entry[x[1]].dentries[x[2]].ino = i}

(* st_nlink is the names of a file and its open handles, and one for the   *)
(* root: so that the erase at 0 comes exactly when the last one goes, and  *)
(* no inode is left behind that nothing reaches.                           *)
LinkCountExact ==
  \A i \in Ino : Live(i) =>
    entry[i].nlink = Cardinality(NamesOf(i)) + held[i] + (IF i = ROOT THEN 1 ELSE 0)

(* Every name leads to a file that is there, no directory has a name       *)
(* twice, and only directories have any.                                   *)
NamesResolve ==
  \A x, y \in NamesIn(entry) :
    LET dx == entry[x[1]].dentries[x[2]]
        dy == entry[y[1]].dentries[y[2]]
    IN /\ Live(dx.ino) /\ entry[x[1]].type = "dir"
       /\ x[1] = y[1] /\ dx.name = dy.name => x = y

(* The directories are a tree: "." and ".." are the first two dentries and *)
(* lead to the directory and to the one that names it, a directory other   *)
(* than the root has one name, and the way up ends at the root, so that    *)
(* the recursion of visit() ends and the d_ino a lookup reads from freed   *)
(* memory is never the first of the block.                                 *)
TreeShape ==
  \A d \in Ino : entry[d].type = "dir" =>
    LET up == [i \in Ino |-> IF entry[i].type = "dir" THEN entry[i].dentries[2].ino ELSE 0]
        climb[n \in 0..MaxIno] == IF n = 0 THEN d ELSE up[climb[n - 1]]
    IN /\ entry[d].dentries[1] = [name |-> ".", ino |-> d]
       /\ entry[d].dentries[2].name = ".."
       /\ IF d = ROOT THEN up[d] = ROOT
          ELSE \E k \in DOMAIN entry[up[d]].dentries : NamesOf(d) = {<<up[d], k>>}
       /\ climb[MaxIno] = ROOT

(* A call the contract allows is never refused, and the paths then lead    *)
(* where the call says, without following a link.  A path may go through   *)
(* the file it leads to, as "/a/../a" does: once that has its new name the *)
(* old way to it is gone, and the new path leads nowhere.                  *)
Through(p) ==
  \E k \in 1..(Len(p) - 1) : FindReal(entry, SubSeq(p, 1, k)) = FindReal(entry, p)
CallsAct ==
  [][/\ \A p \in Paths :
          /\ CarefulMkdir(p) \/ CarefulCreat(p) => FindReal(entry', p) = count
          /\ CarefulUnlink(p) \/ CarefulRmdir(p) => FindReal(entry', p) = 0
     /\ \A p \in Paths, q \in {r \in Paths : MayMake(r)} :
          /\ CarefulSymlink(p, q) => Find(entry', q) = FindReal(entry', p)
          /\ CarefulLink(p, q) => FindReal(entry', q) = FindReal(entry, p)
          /\ CarefulRename(p, q) =>
               /\ FindReal(entry', q) = IF Through(p) THEN 0 ELSE FindReal(entry, p)
               /\ FindReal(entry', p) = 0]_vars

(* The inode table implements the tree of objects: every call is the one   *)
(* step of FileTree it should be.                                          *)
Tree == INSTANCE FileTree WITH
  Obj <- Ino, Root <- ROOT,
  kind <- [i \in Ino |-> entry[i].type],
  names <- {[dir |-> x[1], name |-> entry[x[1]].dentries[x[2]].name,
             obj |-> entry[x[1]].dentries[x[2]].ino] : x \in NamesIn(entry)},
  open <- held

ImplementsTree == Tree!TreeSpec
=============================================================================
