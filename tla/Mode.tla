--------------------------------- MODULE Mode ---------------------------------
(***************************************************************************)
(* The type bits of a mode_t, S_IFMT, as src/ProjectWOFuse/src/my_stubs.cc *)
(* uses them: it tests them by S_ISDIR, S_ISREG and S_ISLNK, and ors them  *)
(* into modes.  "none" is no bit at all, "chr" the bit that a link's has   *)
(* beside a regular file's; "other" stands for all that is left (fifo,     *)
(* socket, block device and what is no type): or cannot lead out of it.    *)
(***************************************************************************)

Type == {"none", "dir", "reg", "lnk", "chr", "other"}

(* S_IFLNK is S_IFREG | S_IFCHR. *)
WithBits(t, u) ==
  IF u \in {"none", t} THEN t
  ELSE IF t = "none" THEN u
  ELSE IF {t, u} \subseteq {"reg", "chr", "lnk"} THEN "lnk" ELSE "other"

(* my_chmod stores the mode as it is given; that of a directory has        *)
(* S_IFDIR ored in.                                                        *)
Chmoded(t, mode) == IF t = "dir" THEN WithBits(mode, "dir") ELSE mode
=============================================================================
