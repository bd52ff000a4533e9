------------------------------- MODULE FileTree -------------------------------
(***************************************************************************)
(* What a file system promises its caller: directories name objects, an    *)
(* object lives as long as it is named or open and is reclaimed exactly    *)
(* when it is neither.  No inode table, no link count, no dentries here.   *)
(***************************************************************************)
EXTENDS Integers

CONSTANTS Name, Obj, Root

VARIABLES kind,   \* kind[o]: what the object is, "none" where there is none
          names,  \* the names of the tree
          open    \* open[o]: the handles on it

tree == <<kind, names, open>>

Kind == {"dir", "reg", "lnk"}
NameOf == [dir: Obj, name: Name, obj: Obj]

Free(d, n) == kind[d] = "dir" /\ \A x \in names : ~(x.dir = d /\ x.name = n)

(* Of what is left, the object o stays only if it is named or open. *)
Reclaim(o, left, handles) ==
  kind' = IF o = Root \/ handles[o] > 0 \/ \E x \in left : x.obj = o
          THEN kind ELSE [kind EXCEPT ![o] = "none"]

TreeInit == /\ kind = [o \in Obj |-> IF o = Root THEN "dir" ELSE "none"]
            /\ names = {}
            /\ open = [o \in Obj |-> 0]

MakeObj(d, n, o, k) ==
  /\ Free(d, n) /\ kind[o] = "none"
  /\ kind' = [kind EXCEPT ![o] = k]
  /\ names' = names \cup {[dir |-> d, name |-> n, obj |-> o]}
  /\ UNCHANGED open

AddName(d, n, o) ==
  /\ Free(d, n) /\ kind[o] = "reg"
  /\ names' = names \cup {[dir |-> d, name |-> n, obj |-> o]}
  /\ UNCHANGED <<kind, open>>

(* A directory must be empty to lose its name. *)
DropName(x) ==
  /\ \A y \in names : y.dir # x.obj
  /\ names' = names \ {x}
  /\ Reclaim(x.obj, names', open)
  /\ UNCHANGED open

(* A directory keeps its parent: no move makes it its own ancestor. *)
MoveName(x, d, n) ==
  /\ Free(d, n)
  /\ kind[x.obj] = "dir" => d = x.dir
  /\ names' = (names \ {x}) \cup {[dir |-> d, name |-> n, obj |-> x.obj]}
  /\ UNCHANGED <<kind, open>>

OpenObj(o) == /\ kind[o] # "none"
              /\ open' = [open EXCEPT ![o] = @ + 1]
              /\ UNCHANGED <<kind, names>>

CloseObj(o) == /\ open[o] > 0
               /\ open' = [open EXCEPT ![o] = @ - 1]
               /\ Reclaim(o, names, open')
               /\ UNCHANGED names

TreeNext ==
  \/ \E d, o \in Obj, n \in Name : \/ \E k \in Kind : MakeObj(d, n, o, k)
                                   \/ AddName(d, n, o)
  \/ \E x \in names : \/ DropName(x)
                      \/ \E d \in Obj, n \in Name : MoveName(x, d, n)
  \/ \E o \in Obj : OpenObj(o) \/ CloseObj(o)

TreeSpec == TreeInit /\ [][TreeNext]_tree
=============================================================================
