------------------------------ MODULE DirStream ------------------------------
(***************************************************************************)
(* A directory stream of src/ProjectWOFuse/src/my_stubs.cc that is kept    *)
(* open while other calls change the directory.  The stream is a number    *)
(* and an index; my_readdir takes the dentry at the index, and returns     *)
(* null where the index equals the number of dentries.  The other calls    *)
(* are those of a caller that keeps the contract of CarefulCaller; opening *)
(* a stream does not count as a handle, so that even rmdir of the          *)
(* directory is among them.                                                *)
(*                                                                         *)
(* seen, since and passed are not in the program: they remember what the   *)
(* stream has gone through, to say what a scan is worth.                   *)
(***************************************************************************)
EXTENDS CarefulCaller

CONSTANT MaxPassed   \* bound: the removals behind the index of one scan

ASSUME DirStreamAssumption == MaxPassed \in Nat

VARIABLES
  stream,   \* the MY_DIR, and whether my_readdir has returned null
  seen,     \* the dentries returned that are still in the directory
  since,    \* the dentries that have been in the directory since the start
  passed    \* how many dentries the index had passed have been removed

streamVars == <<stream, seen, since, passed>>
allVars == <<vars, streamVars>>

Closed == [fh |-> 0, index |-> 0, ended |-> FALSE]
Entries(nd) == nd[stream.fh].dentries

StreamInit == Init /\ stream = Closed /\ seen = {} /\ since = {} /\ passed = 0

(* A null pointer where the path is no directory's. *)
Opendir(p) ==
  LET fh == Find(entry, p)
  IN /\ stream = Closed /\ entry[fh].type = "dir"
     /\ stream' = [Closed EXCEPT !.fh = fh]
     /\ since' = ToSet(entry[fh].dentries)
     /\ UNCHANGED <<vars, seen, passed>>

Closedir ==
  /\ stream # Closed
  /\ stream' = Closed /\ seen' = {} /\ since' = {} /\ passed' = 0
  /\ UNCHANGED vars

(* Mutant: the index is incremented before it is used. *)
ReaddirPre ==
  /\ stream # Closed /\ ~stream.ended /\ stream.index <= MaxNames + 2
  /\ stream' = [stream EXCEPT !.index = @ + 1,
                              !.ended = @ \/ stream.index + 1 = Len(Entries(entry))]
  /\ seen' = IF stream.index + 1 < Len(Entries(entry))
             THEN seen \cup {Entries(entry)[stream.index + 2]} ELSE seen
  /\ UNCHANGED <<vars, since, passed>>

(* Mutant: the end is taken to be one dentry further on. *)
ReaddirLate ==
  /\ stream # Closed /\ ~stream.ended /\ stream.index <= MaxNames + 2
  /\ stream' = [stream EXCEPT !.index = @ + 1,
                              !.ended = stream.index = Len(Entries(entry)) + 1]
  /\ seen' = IF stream.index < Len(Entries(entry))
             THEN seen \cup {Entries(entry)[stream.index + 1]} ELSE seen
  /\ UNCHANGED <<vars, since, passed>>

(* Once it has returned null a caller does not call it again.  Where the   *)
(* index is past the end the pointer that comes back is into whatever is   *)
(* behind the vector, and is not null.                                     *)
Readdir ==
  /\ stream # Closed /\ ~stream.ended /\ stream.index <= MaxNames + 2
  /\ stream' = [stream EXCEPT !.index = @ + 1,
                              !.ended = stream.index = Len(Entries(entry))]
  /\ seen' = IF stream.index < Len(Entries(entry))
             THEN seen \cup {Entries(entry)[stream.index + 1]} ELSE seen
  /\ UNCHANGED <<vars, since, passed>>

(* Another call.  The stream does not notice.  (No directory has more than *)
(* MaxNames + 2 dentries: the guard on the index of Readdir is a bound of  *)
(* the model for a scan that has missed the end.)                          *)
Meanwhile ==
  /\ CarefulNext
  /\ UNCHANGED stream
  /\ seen' = seen \cap ToSet(Entries(entry'))
  /\ since' = since \cap ToSet(Entries(entry'))
  /\ passed' = IF stream.ended THEN passed
               ELSE passed + Cardinality({k \in DOMAIN Entries(entry) :
                      k <= stream.index /\ Entries(entry)[k] \notin ToSet(Entries(entry'))})
  /\ passed' <= MaxPassed

StreamNext ==
  \/ \E p \in Paths : Opendir(p)
  \/ Readdir \/ Closedir \/ Meanwhile

StreamSpec == StreamInit /\ [][StreamNext]_allVars
-----------------------------------------------------------------------------
(* A scan never returns an entry twice, whatever names are made, removed   *)
(* or moved meanwhile, unless the name has been removed and made again.    *)
NoEntryTwice ==
  [][Readdir /\ stream.index < Len(Entries(entry)) =>
       Entries(entry)[stream.index + 1] \notin seen]_allVars

(* When a scan ends it has returned every entry that was there all the     *)
(* time, but for one at most for each entry removed behind the index: with *)
(* no such removal the scan is complete.                                   *)
MissesNoMoreThanPassed ==
  stream.ended => Cardinality(since \ seen) <= passed

(* The index gets ahead of the end only after an entry behind it has been *)
(* removed: a directory that only grows is read to its end.                *)
PastEndOnlyByRemoval ==
  ~stream.ended /\ passed = 0 => stream.index <= Len(Entries(entry))

(* "I intend that the prototypes and behaviors of these functions be       *)
(* identical to those of their glibc counterparts": a scan of a directory  *)
(* that is there ends, and so the index is never past the last entry.      *)
ReadsNoFurtherThanTheEnd ==
  [][Readdir /\ entry[stream.fh].type = "dir" =>
       stream.index <= Len(Entries(entry))]_allVars
=============================================================================
