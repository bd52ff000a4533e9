------------------------------ MODULE MountedFS ------------------------------
(***************************************************************************)
(* What a mounted file system promises its callers: a request changes the  *)
(* tree in one step at most, between being made and being answered, or is  *)
(* refused and changes nothing (but for SettleFails and ReleaseFails); and *)
(* a handle stays on the object that its name had when the request took    *)
(* effect until it is released, whatever becomes of the name.  Descriptors *)
(* do not occur.                                                           *)
(***************************************************************************)
EXTENDS FiniteSets, Naturals

CONSTANTS Thread, Name, Handle,
          Regular, Directory, Other,   \* the files, the directories, the rest
          None

Object == Regular \cup Directory \cup Other

VARIABLES
  names,    \* the object of each name, or None
  opened,   \* the object each handle is open on, or None
  reply     \* what each thread has achieved and not answered yet

mountedVars == <<names, opened, reply>>

NoReply == [done |-> FALSE, handle |-> None, object |-> None]
Achieved(h, o) == [done |-> TRUE, handle |-> h, object |-> o]

(* Any tree may be mounted; a directory has one name in it.                *)
MountedInit ==
  /\ names \in [Name -> Object \cup {None}]
  /\ \A n, m \in Name : names[n] \in Directory /\ names[n] = names[m] => n = m
  /\ opened = [h \in Handle |-> None]
  /\ reply = [t \in Thread |-> NoReply]

(* An object is fresh when no name and no handle, present or to be, is on  *)
(* it.                                                                     *)
Fresh(o) ==
  /\ \A n \in Name : names[n] # o
  /\ \A h \in Handle : opened[h] # o
  /\ \A t \in Thread : reply[t].object # o

Achieves(t, h, o) == reply[t] = NoReply /\ reply' = [reply EXCEPT ![t] = Achieved(h, o)]
Put(n, o) == names' = [names EXCEPT ![n] = o] /\ UNCHANGED opened

(* A request that looks at the tree, or at what a handle is open on.       *)
Look(t) == Achieves(t, None, None) /\ UNCHANGED <<names, opened>>

(* A regular file is open while it is made.                                *)
MakeFile(t) == \E n \in Name, o \in Regular :
  names[n] = None /\ Fresh(o) /\ Put(n, o) /\ Achieves(t, None, o)

Make(t) == \E n \in Name, o \in Directory \cup Other :
  names[n] = None /\ Fresh(o) /\ Put(n, o) /\ Achieves(t, None, None)

Remove(t) == \E n \in Name :
  names[n] # None /\ Put(n, None) /\ Achieves(t, None, None)

(* Two names of one object stay as they are.                               *)
Renamed(n, m) ==
  IF names[n] = names[m] THEN names
  ELSE [names EXCEPT ![m] = names[n], ![n] = None]

Rename(t) == \E n, m \in Name :
  /\ names[n] # None
  /\ names[m] # None => (names[m] \in Directory <=> names[n] \in Directory)
  /\ names' = Renamed(n, m) /\ UNCHANGED opened /\ Achieves(t, None, None)

Link(t) == \E n, m \in Name :
  /\ names[n] \in Regular \cup Other /\ names[m] = None
  /\ Put(m, names[n]) /\ Achieves(t, None, None)

Open(t) == \E n \in Name, h \in Handle :
  /\ names[n] # None /\ opened[h] = None /\ \A u \in Thread : reply[u].handle # h
  /\ Achieves(t, h, names[n]) /\ UNCHANGED <<names, opened>>

Release(t) == \E h \in Handle :
  /\ opened[h] # None /\ opened' = [opened EXCEPT ![h] = None]
  /\ Achieves(t, None, None) /\ UNCHANGED names

(* A release that is refused has released the handle all the same.         *)
ReleaseFails(t) == \E h \in Handle :
  /\ opened[h] # None /\ opened' = [opened EXCEPT ![h] = None]
  /\ reply[t] = NoReply /\ UNCHANGED <<names, reply>>

(* The file that is open while it is made.                                 *)
Making(t) == reply[t].handle = None /\ reply[t].object # None

Settle(t) ==
  /\ Making(t) /\ reply' = [reply EXCEPT ![t] = Achieved(None, None)]
  /\ UNCHANGED <<names, opened>>

(* The one request that may change the names and still be refused.         *)
SettleFails(t) ==
  /\ Making(t) /\ reply' = [reply EXCEPT ![t] = NoReply]
  /\ UNCHANGED <<names, opened>>

Answer(t) ==
  /\ reply[t].done /\ ~Making(t)
  /\ reply' = [reply EXCEPT ![t] = NoReply] /\ UNCHANGED names
  /\ opened' = [h \in Handle |-> IF h = reply[t].handle THEN reply[t].object ELSE opened[h]]

MountedNext == \E t \in Thread :
  \/ Look(t) \/ MakeFile(t) \/ Make(t) \/ Remove(t) \/ Rename(t) \/ Link(t)
  \/ Open(t) \/ Release(t) \/ ReleaseFails(t) \/ Settle(t) \/ SettleFails(t)
  \/ Answer(t)

MountedSpec == MountedInit /\ [][MountedNext]_mountedVars
=============================================================================
