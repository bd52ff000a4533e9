------------------------------ MODULE Documented ------------------------------
(***************************************************************************)
(* What the comments of my_stubs.cc say of its calls and the code does not *)
(* do.  Each is checked by a run of its own, and refuted there.            *)
(***************************************************************************)
EXTENDS NameSpace

(* my_rmdir, "Removes a directory from the file system": the path of a     *)
(* directory removed leads nowhere afterwards.  No symbolic link is about. *)
RmdirRemovesTheName ==
  [][\A p \in Paths :
       /\ entry[FindReal(entry, p)].type = "dir" /\ \A i \in Ino : entry[i].type # "lnk"
       /\ Rmdir(p) /\ entry' # entry
       => FindReal(entry', p) = 0]_vars

(* my_unlink, "Removes the dirent for the fille / Reduces the nlink of a   *)
(* file by 1, and remove the inode if necessary": no path leads to a       *)
(* regular file that unlink has removed.                                   *)
UnlinkLeavesNoDanglingName ==
  [][\A p \in Paths : Unlink(p) =>
       \A i \in Ino : entry[i].type = "reg" /\ entry'[i].type = "none" =>
         \A q \in Paths : FindReal(entry', q) # i]_vars
=============================================================================
