------------------------------ MODULE NameSpace ------------------------------
(***************************************************************************)
(* The calls of src/ProjectWOFuse/src/my_stubs.cc that change the tree:    *)
(* one action per my_ function, with any path of Paths as an argument, the *)
(* ones that make no sense included, and with any type bits in a mode.     *)
(* entry is ilist.entry, count the counter inside Ilist::next().  held is  *)
(* the caller's side: how many times it has opened an inode and not closed *)
(* it yet; it closes nothing else.  One call runs at a time.               *)
(*                                                                         *)
(* The data of regular files is FileData's.  Here a file holds a text only *)
(* where my_symlink has written one, and target keeps it whatever becomes  *)
(* of the type.                                                            *)
(***************************************************************************)
EXTENDS Ilist

CONSTANTS
  Paths,        \* the paths the caller uses
  NewModes,     \* the type bits of the modes it makes files with
  Modes,        \* the type bits of the modes it passes to my_chmod
  MaxNames,     \* bound: the dentries of all files, "", "." and ".." apart
  MaxLinks,     \* bound: the count of one file
  MaxHeld       \* bound: the handles the caller holds of one file

ASSUME NameSpaceAssumption ==
  /\ Paths \subseteq Path /\ NewModes \subseteq Type /\ Modes \subseteq Type
  /\ MaxNames \in Nat /\ MaxLinks \in Nat /\ MaxHeld \in Nat

VARIABLES entry, count, held

vars == <<entry, count, held>>

(* Bounds of the model, not of the code: a step that passes one is not taken. *)
Plainly(nd, i) == {k \in DOMAIN nd[i].dentries : nd[i].dentries[k].name \in Name}
WithinBounds(nd, h) ==
  /\ \A i \in Ino : /\ nd[i].nlink \in -1..MaxLinks /\ h[i] <= MaxHeld
                   /\ Len(nd[i].dentries) <= MaxNames + 2
  /\ FoldSet(LAMBDA i, n : n + Cardinality(Plainly(nd, i)), 0, Ino) <= MaxNames

Bounded == WithinBounds(entry', held')

(* A call that returns an error before it has changed anything. *)
Fails == UNCHANGED vars

Init == /\ entry = InitialTable
        /\ count = ROOT + 1
        /\ held = [i \in Ino |-> 0]

-----------------------------------------------------------------------------
(* Calls that make an inode *)

(* Mutant: a failed call takes its number back and leaves the inode. *)
MakeTakesBack(p, t) ==
  /\ count <= MaxIno
  /\ entry' = Mknod(entry, count, p, t)
  /\ count' = IF Creatable(entry, p) THEN count + 1 ELSE count
  /\ UNCHANGED held /\ Bounded

(* Mutant: the number is the lowest that is not in the map. *)
MakeLowest(p, t) ==
  LET i == Min({j \in ROOT..count : j \in Ino => entry[j] = Blank})
  IN /\ count <= MaxIno
     /\ entry' = Mknod(entry, i, p, t)
     /\ count' = count + 1
     /\ UNCHANGED held /\ Bounded

Make(p, t) ==
  /\ count <= MaxIno
  /\ entry' = Mknod(entry, count, p, t)
  /\ count' = count + 1
  /\ UNCHANGED held /\ Bounded

(* S_IFDIR and S_IFREG are ored into the mode the caller passes. *)
Mkdir(p, mode) == Make(p, WithBits("dir", mode))

Creat(p, mode) ==
  \/ TailName(p) \in {".", ".."} /\ Fails
  \/ TailName(p) \notin {".", ".."} /\ Make(p, WithBits("reg", mode))

(* A regular file is made, and what the path then finds is written and     *)
(* turned into a link: that is the new one, or none (an older dentry of    *)
(* that name hides it, or the parent is a link to a directory), or Stray.  *)
(* Only a regular file is written; S_IFLNK is ored into the mode it has.   *)
WithLink(nd, p, q) ==
  LET made == Mknod(nd, count, q, "reg")
      fh == Find(made, q)
      text == IF made[fh].type = "reg" THEN p ELSE made[fh].target
  IN IF fh = 0 THEN made
     ELSE [made EXCEPT ![fh].type = Chmoded(@, WithBits(@, "lnk")), ![fh].target = text]

(* Bound of the model: my_symlink does not write over a text, which only   *)
(* the file of a stray number could have.                                  *)
Unwritten(q) ==
  LET fh == Find(Mknod(entry, count, q, "reg"), q)
  IN entry[fh].type = "reg" => entry[fh].target = <<>>

Symlink(p, q) ==
  \/ (TailName(q) \in {".", ".."} \/ Find(entry, q) # 0) /\ Fails
  \/ /\ TailName(q) \notin {".", ".."} /\ Find(entry, q) = 0
     /\ count <= MaxIno /\ Unwritten(q)
     /\ entry' = WithLink(entry, p, q)
     /\ count' = count + 1
     /\ UNCHANGED held /\ Bounded

-----------------------------------------------------------------------------
(* Calls that add, drop or move a name *)

Link(p, q) ==
  LET fh == Find(entry, p)
      up == Find(entry, ParentPath(q))
      good == fh # 0 /\ entry[fh].type = "reg" /\ Creatable(entry, q)
  IN \/ ~good /\ Fails
     \/ /\ good
        /\ entry' = Push(AddLink(entry, fh), up, TailName(q), fh)
        /\ UNCHANGED <<count, held>> /\ Bounded

(* The name goes from the parent, the count from the file the path leads   *)
(* to: another file where the name is a link's.  No check for a directory. *)
Unlink(p) ==
  LET fh == Find(entry, p)
      up == Find(entry, ParentPath(p))
      good == fh # 0 /\ TailName(p) \notin {".", ".."}
  IN \/ ~good /\ Fails
     \/ /\ good
        /\ entry' = DropLink(RemoveName(entry, up, TailName(p)), fh)
        /\ UNCHANGED <<count, held>> /\ Bounded

(* Mutant: the count of the copy goes down, and the inode stays. *)
WithoutDirKept(nd, up, fh) == RemoveIno(nd, up, fh)

(* The count is tested on a copy of the File: it does not go down. *)
WithoutDir(nd, up, fh) ==
  LET cut == RemoveIno(nd, up, fh)
  IN IF nd[fh].nlink = 1 THEN [cut EXCEPT ![fh] = Blank] ELSE cut

Rmdir(p) ==
  LET fh == Find(entry, p)
      up == Find(entry, ParentPath(p))
      good == entry[fh].type = "dir" /\ Len(entry[fh].dentries) <= 2
  IN \/ ~good /\ Fails
     \/ /\ good
        /\ entry' = WithoutDir(entry, up, fh)
        /\ UNCHANGED <<count, held>> /\ Bounded

(* Mutant: the old name stays. *)
MovedTwice(nd, p, q) ==
  Push(nd, Find(nd, ParentPath(q)), TailName(q), Find(nd, p))

(* A name in the way goes, with no change of its file's count. *)
Moved(nd, p, q) ==
  LET from == Find(nd, ParentPath(p))
      to == Find(nd, ParentPath(q))
      cleared == IF Step(nd, to, TailName(q)) = 0 THEN nd
                 ELSE RemoveName(nd, to, TailName(q))
  IN Push(RemoveName(cleared, from, TailName(p)), to, TailName(q), Find(nd, p))

Rename(p, q) ==
  \/ TailName(p) \in {".", ".."} /\ Fails
  \/ /\ TailName(p) \notin {".", ".."}
     /\ entry' = Moved(entry, p, q)
     /\ UNCHANGED <<count, held>> /\ Bounded

-----------------------------------------------------------------------------
(* Handles and modes *)

(* An open file counts as a link.  A missing file "opens" too: fh >= 0. *)
Open(p) ==
  LET fh == Find(entry, p)
  IN /\ entry' = AddLink(entry, fh)
     /\ held' = IF fh = 0 THEN held ELSE [held EXCEPT ![fh] = @ + 1]
     /\ UNCHANGED count /\ Bounded

Close(fh) ==
  \/ fh = 0 /\ Fails
  \/ /\ held[fh] > 0
     /\ entry' = DropLink(entry, fh)
     /\ held' = [held EXCEPT ![fh] = @ - 1]
     /\ UNCHANGED count /\ Bounded

(* Any file the path leads to gets the type bits of the mode, be it made   *)
(* as another type or, behind a dangling name, not there at all.           *)
Chmod(p, mode) ==
  LET fh == Find(entry, p)
  IN \/ fh = 0 /\ Fails
     \/ /\ fh # 0
        /\ entry' = [entry EXCEPT ![fh].type = Chmoded(@, mode)]
        /\ UNCHANGED <<count, held>> /\ Bounded

-----------------------------------------------------------------------------
Next ==
  \/ \E p \in Paths : \/ \E mode \in NewModes : Mkdir(p, mode) \/ Creat(p, mode)
                      \/ Unlink(p) \/ Rmdir(p) \/ Open(p)
                      \/ \E mode \in Modes : Chmod(p, mode)
  \/ \E p, q \in Paths : \/ Link(p, q) \/ Symlink(p, q) \/ Rename(p, q)
  \/ \E fh \in Ino : Close(fh)

Spec == Init /\ [][Next]_vars
-----------------------------------------------------------------------------
(* The table is a table of files, whatever the caller asks for. *)
TypeOK ==
  /\ entry \in [Ino -> File]
  /\ count \in (ROOT + 1)..(MaxIno + 1)
  /\ held \in [Ino -> Nat]

(* A number that has not been issued yet is no file, and no dentry holds   *)
(* it: the file next() numbers can be reached through no name but its own, *)
(* even where failed creations, rename of a missing file and unlink of a   *)
(* link's target leave dentries that lead nowhere.                         *)
NoForwardReference ==
  \A i \in Ino :
    /\ i >= count => entry[i] = Blank
    /\ \A k \in DOMAIN entry[i].dentries : entry[i].dentries[k].ino < count

(* A number stands for one file.  Of a number issued before a call, the    *)
(* type and the text are afterwards what they were; or the inode is gone,  *)
(* with its last link and with all it had; or the call was a chmod by a    *)
(* path that leads there, which changes the type and nothing else in the   *)
(* table.  So a stale handle or dentry never comes to mean a file made     *)
(* later, and no call but chmod gives a type to a number that has none.    *)
NumberIsOneFile ==
  [][FirstSurvives => \A i \in 0..(count - 1) :
       \/ entry'[i].type = entry[i].type /\ entry'[i].target = entry[i].target
       \/ entry[i].nlink = 1 /\ entry'[i] = Blank
       \/ /\ \E p \in Paths : Find(entry, p) = i
          /\ \E t \in Type : entry' = [entry EXCEPT ![i].type = t]]_vars
=============================================================================
