-------------------------------- MODULE Lister --------------------------------
(***************************************************************************)
(* The listing calls of src/ProjectWOFuse/src/my_stubs.cc, ls and lslr of  *)
(* the shell, on the trees a careful caller makes.  They change nothing    *)
(* and are operators on the table: a listing is the sequence of its lines, *)
(* a line the directory listed, a name in it, and the file reported.       *)
(***************************************************************************)
EXTENDS CarefulCaller

Below(p, n) == Append(p, n)

(* my_lstat: the number in st_ino, or 0. *)
Lstat(nd, p) ==
  LET i == FindReal(nd, p) IN IF i \in Ino /\ nd[i] # Blank THEN i ELSE 0

Line(d, n, i) == [dir |-> d, name |-> n, file |-> i]

-----------------------------------------------------------------------------
(* ls *)

(* Mutant: the check of the file is left to the link itself. *)
DescribeReal(nd, d, p) ==
  IF Lstat(nd, p) = 0 THEN <<>> ELSE <<Line(d, Last(p), Lstat(nd, p))>>

(* describe_file prints nothing of a file it cannot find, be it at the end *)
(* of a link.                                                              *)
Describe(nd, d, p) ==
  IF Lstat(nd, p) = 0 \/ Find(nd, p) = 0 THEN <<>>
  ELSE <<Line(d, Last(p), Lstat(nd, p))>>

Ls(nd, p) ==
  LET i == FindReal(nd, p)
  IN IF i = 0 THEN <<>>
     ELSE IF nd[i].type # "dir" THEN Describe(nd, i, p)
     ELSE FlattenSeq([k \in DOMAIN nd[i].dentries |->
                        Describe(nd, i, Below(p, nd[i].dentries[k].name))])

-----------------------------------------------------------------------------
(* lslr *)

(* The dentries of a directory that visit lists: their places. *)
Listable(nd, d) ==
  {k \in DOMAIN nd[d].dentries : nd[d].dentries[k].name \notin {".", ".."}}

(* Mutant: the first subdirectory is the only one that is visited. *)
FirstSubdirectory(nd, d) ==
  {k \in Listable(nd, d) : \A j \in 1..k :
     (j \in Listable(nd, d) /\ nd[nd[d].dentries[j].ino].type = "dir") <=> j = k}

(* hardSubdirectory: read from the file a dentry holds, not from its path. *)
Subdirectories(nd, d) ==
  {k \in Listable(nd, d) : nd[nd[d].dentries[k].ino].type = "dir"}

(* One visit: the names of the directory first, each with the file its     *)
(* path leads to; one path that leads nowhere ends the visit.  Then each   *)
(* subdirectory in turn, below[q] being what the visit of q shows.  The    *)
(* lines are in the order of the dentries here; the code sorts them.  An   *)
(* owner and a group unknown to the host, of which getpwuid and getgrgid   *)
(* give null, end the program, and are left out.                           *)
VisitDir(nd, p, below) ==
  LET d == Find(nd, p)
      path(k) == Below(p, nd[d].dentries[k].name)
      file(k) == Lstat(nd, path(k))
      lost == {k \in Listable(nd, d) : file(k) = 0}
      shown == {k \in Listable(nd, d) : \A j \in lost : k < j}
      visited == {k \in Subdirectories(nd, d) : lost = {}}
  IN IF nd[d].type # "dir" THEN <<>>
     ELSE FlattenSeq([k \in DOMAIN nd[d].dentries |->
            IF k \in shown THEN <<Line(d, nd[d].dentries[k].name, file(k))>> ELSE <<>>])
          \o FlattenSeq([k \in DOMAIN nd[d].dentries |->
            IF k \in visited THEN below[path(k)] ELSE <<>>])

(* The recursion may go MaxIno directories deep, a bound of the model: a   *)
(* visit that has not come to its end by then, as on a tree with a loop,   *)
(* shows a line that is no name's.                                         *)
Unending == Line(0, "", 0)

Visit(nd, p) ==
  LET visit[n \in 0..MaxIno] ==
        [q \in Path |-> IF n = 0 THEN <<Unending>> ELSE VisitDir(nd, q, visit[n - 1])]
  IN visit[MaxIno][p]

-----------------------------------------------------------------------------
(* lslr of the root reports every name in the tree once, with the file of  *)
(* the name: the paths visit builds lead where the dentries it read them   *)
(* from do, every directory is reached, and the recursion ends.            *)
VisitReportsAll ==
  LET lines == Visit(entry, <<"">>)
  IN /\ Len(lines) = Cardinality(NamesIn(entry))
     /\ ToSet(lines) =
          {Line(x[1], entry[x[1]].dentries[x[2]].name, entry[x[1]].dentries[x[2]].ino) :
             x \in NamesIn(entry)}

(* ls of a directory shows of its names what lslr shows, but for links     *)
(* whose target is not there.                                              *)
Dangling(line) ==
  entry[line.file].type = "lnk" /\ FindReal(entry, entry[line.file].target) = 0
ListersAgree ==
  \A p \in Paths : TypeAt(p) = "dir" =>
    LET d == FindReal(entry, p)
    IN {line \in ToSet(Ls(entry, p)) : line.name \notin {".", ".."}} =
       {line \in ToSet(Visit(entry, p)) : line.dir = d /\ ~Dangling(line)}
=============================================================================
