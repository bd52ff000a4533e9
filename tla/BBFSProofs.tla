----------------------------- MODULE BBFSProofs -----------------------------
(***************************************************************************)
(* Proofs about BBFS, for every number of threads, names, handles and      *)
(* descriptors, and whatever logging leaves in errno.                      *)
(***************************************************************************)
EXTENDS BBFS, TLAPS

-----------------------------------------------------------------------------
(* The inductive invariant. *)

(* The requests that are to give a handle, and those on an open one.       *)
Opening == {"open", "create"}
OnHandle == {"handle", "fsync", "readdir"}

(* Those that are not answered by the host call's errno.                   *)
Vague == {"truncate", "fsync", "create", "readdir", "release", "releasedir"}

(* The stages of a request, and what each has to remember.                 *)
ThreadOK(r) ==
  /\ r.pc = "idle" => r = Idle
  /\ r.pc = "close" <=> r.fd # -1
  /\ r.pc = "close" <=> r.op = "mknod"
  /\ r.pc \in {"fgetattr", "release"} => r.op = "create"
  /\ r.op \in Opening \cup OnHandle <=> r.h # None
  /\ r.op = "none" <=> r.pc = "idle"
  /\ r.op = "create" => r.host # OK /\ (r.pc = "answer" => r.ret # OK)
  /\ r.pc = "release" => r.ret # OK
  /\ r.pc = "answer" /\ r.op \notin {"readdir", "releasedir"} => (r.ret = OK <=> r.host = OK)
  /\ r.pc = "answer" /\ r.op \notin Vague => r.ret = r.host

(* Where the handle of a request stands in the table hs.                   *)
HandleOf(r, hs) ==
  r.h # None =>
    /\ r.op \in OnHandle => hs[r.h].state = "open"
    /\ r.op \in Opening => hs[r.h].state = "opening"
    /\ r.op = "open" => (hs[r.h].fh # -1 <=> r.ret = OK)
    /\ r.op = "create" => hs[r.h].fh = -1

ThreadsOK ==
  /\ \A t \in Thread : ThreadOK(th[t]) /\ HandleOf(th[t], handle)
  /\ \A t, u \in Thread : th[t].op \in Opening /\ th[u].h = th[t].h => u = t

HandlesOK ==
  /\ \A h \in Handle : handle[h].state = "free" => handle[h] = Shut
  /\ \A h \in Handle : handle[h].state = "open" => handle[h].fh # -1
  /\ \A h \in Handle : handle[h].fh # -1 =>
       handle[h].object # None /\ fds[handle[h].fh] = handle[h].object
  /\ \A g, h \in Handle : handle[g].fh = handle[h].fh /\ handle[h].fh # -1 => g = h

DescriptorsOK ==
  /\ \A t \in Thread : th[t].fd # -1 =>
       /\ fds[th[t].fd] # None
       /\ \A h \in Handle : handle[h].fh # th[t].fd
       /\ \A u \in Thread : th[u].fd = th[t].fd => u = t
  /\ \A f \in Fd : fds[f] # None =>
       \/ \E h \in Handle : handle[h].fh = f
       \/ \E t \in Thread : th[t].fd = f

TableOK == \E n \in Nat : inodes = 1..n

IInv == TypeOK /\ ThreadsOK /\ HandlesOK /\ DescriptorsOK /\ TableOK

-----------------------------------------------------------------------------
(* What a callback leaves in its thread. *)

Request == [pc: Pc, op: Op, h: Handle \cup {None}, fd: Fd \cup {-1},
            host: Errno \cup {OK}, ret: Errno \cup {OK}]

(* An answer that has no handle to give.                                   *)
PlainAnswer(r) ==
  /\ r \in Request /\ ThreadOK(r) /\ r.pc = "answer" /\ r.fd = -1
  /\ r.op \in {"path", "truncate", "release", "releasedir"} \cup OnHandle

LEMMA OKIsNoErrno ==
  OK \notin Errno
BY BBFSAssumption DEF Errno, OK

LEMMA AnswersGive ==
  ASSUME NEW t \in Thread, NEW op, NEW h, NEW res \in Errno \cup {OK},
         \/ op = "path" /\ h = None
         \/ op = "handle" /\ h \in Handle,
         Answers(t, op, h, res)
  PROVE  \E r : PlainAnswer(r) /\ r.h = h /\ r.host = res /\ th' = [th EXCEPT ![t] = r]
<1>1. PICK logged \in LogErrno \cup {res} :
        Replies(t, op, h, res, IF res = OK THEN OK ELSE BbError(res, logged))
  BY DEF Answers
<1> DEFINE r == [pc |-> "answer", op |-> op, h |-> h, fd |-> -1, host |-> res, ret |-> res]
<1>2. th' = [th EXCEPT ![t] = r]
  BY <1>1 DEF Replies, BbError
<1>3. PlainAnswer(r) /\ r.h = h /\ r.host = res
  BY BBFSAssumption, OKIsNoErrno
  DEF PlainAnswer, Request, Pc, Op, ThreadOK, Vague, Idle, Opening, OnHandle, OK
<1> QED BY <1>2, <1>3

LEMMA OpenAnswersGive ==
  ASSUME NEW t \in Thread, NEW h \in Handle, NEW res \in Errno \cup {OK},
         Answers(t, "open", h, res)
  PROVE  \E r : /\ r \in Request /\ ThreadOK(r) /\ r.pc = "answer" /\ r.op = "open"
                /\ r.fd = -1 /\ r.h = h /\ r.host = res /\ (r.ret = OK <=> res = OK)
                /\ th' = [th EXCEPT ![t] = r]
<1>1. PICK logged \in LogErrno \cup {res} :
        Replies(t, "open", h, res, IF res = OK THEN OK ELSE BbError(res, logged))
  BY DEF Answers
<1> DEFINE r == [pc |-> "answer", op |-> "open", h |-> h, fd |-> -1, host |-> res, ret |-> res]
<1>2. th' = [th EXCEPT ![t] = r]
  BY <1>1 DEF Replies, BbError
<1>3. r \in Request /\ ThreadOK(r)
  BY BBFSAssumption, OKIsNoErrno
  DEF Request, Pc, Op, ThreadOK, Vague, Idle, Opening, OnHandle, OK
<1> QED BY <1>2, <1>3

(* The callbacks that drop the value of bb_error.                          *)
LEMMA MinusOneGives ==
  ASSUME NEW t \in Thread, NEW op, NEW h, NEW res \in Errno \cup {OK},
         \/ op \in {"truncate", "release"} /\ h = None
         \/ op = "fsync" /\ h \in Handle,
         AnswersMinusOne(t, op, h, res)
  PROVE  \E r : PlainAnswer(r) /\ r.h = h /\ r.host = res /\ th' = [th EXCEPT ![t] = r]
<1> DEFINE r == [pc |-> "answer", op |-> op, h |-> h, fd |-> -1, host |-> res,
                 ret |-> IF res = OK THEN OK ELSE "EPERM"]
<1>1. th' = [th EXCEPT ![t] = r]
  BY DEF AnswersMinusOne, Replies
<1>2. PlainAnswer(r) /\ r.h = h /\ r.host = res
  BY BBFSAssumption, OKIsNoErrno
  DEF PlainAnswer, Request, Pc, Op, ThreadOK, Vague, Idle, Opening, OnHandle, OK, Errno
<1> QED BY <1>1, <1>2

-----------------------------------------------------------------------------
(* The steps, by what they do to descriptors and handles. *)

NamesTyped == names \in [Name -> Object \cup {None}]

(* A step that only starts a request, and may change names and streams.    *)
LEMMA QuietStep ==
  ASSUME IInv, NEW t \in Thread, NEW r, PlainAnswer(r),
         Free(t), th' = [th EXCEPT ![t] = r],
         r.h # None => handle[r.h].state = "open",
         NamesTyped', at' \in [Fd -> {"start", "passed"}],
         UNCHANGED <<fds, handle, inodes>>
  PROVE  IInv'
<1>0. /\ th \in [Thread -> Request] /\ th[t] = Idle /\ r \in Request /\ r.fd = -1
      /\ r.op \notin Opening /\ r.op # "mknod" /\ Idle.fd = -1 /\ Idle.h = None
      /\ Idle.op \notin Opening
  BY DEF IInv, TypeOK, Request, ThreadsOK, ThreadOK, Free, PlainAnswer, Opening, OnHandle, Idle
<1>1. TypeOK'
  BY <1>0 DEF IInv, TypeOK, NamesTyped, Request
<1>2. ThreadsOK'
  <2>1. ASSUME NEW u \in Thread PROVE ThreadOK(th'[u]) /\ HandleOf(th'[u], handle')
    BY <1>0, <2>1 DEF IInv, ThreadsOK, PlainAnswer, HandleOf, Opening
  <2>2. ASSUME NEW u \in Thread, NEW v \in Thread,
               th'[u].op \in Opening, th'[v].h = th'[u].h
        PROVE  v = u
    BY <1>0, <2>2 DEF IInv, ThreadsOK, ThreadOK, HandleOf
  <2> QED BY <2>1, <2>2 DEF ThreadsOK, ThreadOK
<1>3. HandlesOK'
  BY DEF IInv, HandlesOK
<1>4. DescriptorsOK'
  BY <1>0 DEF IInv, DescriptorsOK, Request
<1>5. TableOK'
  BY DEF IInv, TableOK
<1> QED BY <1>1, <1>2, <1>3, <1>4, <1>5 DEF IInv

(* A step that takes a free handle, with a descriptor if the open succeeds. *)
LEMMA OpeningStep ==
  ASSUME IInv, NEW t \in Thread, NEW h \in Handle, NEW r \in Request,
         NEW fd, NEW o,
         ThreadOK(r), r.op \in Opening, r.h = h, r.fd = -1, r.pc # "idle",
         r.op = "open" => (fd # -1 <=> r.ret = OK), r.op = "create" => fd = -1,
         Free(t), handle[h].state = "free", th' = [th EXCEPT ![t] = r],
         handle' = [handle EXCEPT ![h] = [state |-> "opening", fh |-> fd, object |-> o]],
         \/ fd = -1 /\ o = None /\ UNCHANGED fds
         \/ fd \in Fd /\ o \in Object /\ fds[fd] = None /\ fds' = [fds EXCEPT ![fd] = o],
         at' \in [Fd -> {"start", "passed"}], UNCHANGED names, TableOK'
  PROVE  IInv'
<1>0. /\ th \in [Thread -> Request] /\ th[t] = Idle /\ Idle.fd = -1 /\ Idle.h = None
      /\ Idle.op \notin Opening /\ h # None /\ -1 \notin Fd
  BY BBFSAssumption
  DEF IInv, TypeOK, Request, ThreadsOK, ThreadOK, Free, Opening, OnHandle, Idle, Fd
<1>01. /\ fds \in [Fd -> Object \cup {None}] /\ None \notin Object
       /\ handle \in [Handle -> [state: {"free", "opening", "open"}, fh: Fd \cup {-1},
                                 object: Object \cup {None}]]
  BY BBFSAssumption DEF IInv, TypeOK
<1>02. handle[h] = Shut /\ handle[h].fh = -1
  BY DEF IInv, HandlesOK, Shut
<1>1. TypeOK'
  <2>1. inodes' \in SUBSET Nat
    BY DEF TableOK
  <2> QED BY <2>1, <1>0, <1>01 DEF IInv, TypeOK, Request
<1>2. ThreadsOK'
  <2>0. ASSUME NEW u \in Thread PROVE th[u].h # h
    <3>1. ThreadOK(th[u]) /\ HandleOf(th[u], handle)
      BY DEF IInv, ThreadsOK
    <3> QED BY <3>1, <1>0 DEF HandleOf, ThreadOK, Opening, OnHandle
  <2>1. ASSUME NEW u \in Thread PROVE ThreadOK(th'[u]) /\ HandleOf(th'[u], handle')
    <3>1. CASE u = t
      BY <3>1, <1>0, <1>01 DEF HandleOf, ThreadOK, Opening, OnHandle
    <3>2. CASE u # t
      <4>1. th'[u] = th[u] /\ ThreadOK(th[u]) /\ HandleOf(th[u], handle)
        BY <3>2, <1>0 DEF IInv, ThreadsOK
      <4>2. th[u].h # None => handle'[th[u].h] = handle[th[u].h]
        BY <2>0, <1>0, <1>01 DEF Request
      <4> QED BY <4>1, <4>2 DEF HandleOf
    <3> QED BY <3>1, <3>2
  <2>2. ASSUME NEW u \in Thread, NEW v \in Thread,
               th'[u].op \in Opening, th'[v].h = th'[u].h
        PROVE  v = u
    BY <2>0, <2>2, <1>0 DEF IInv, ThreadsOK, ThreadOK, HandleOf
  <2> QED BY <2>1, <2>2 DEF ThreadsOK
<1>3. HandlesOK'
  <2>1. ASSUME NEW g \in Handle, handle'[g].fh # -1
        PROVE  handle'[g].object # None /\ fds'[handle'[g].fh] = handle'[g].object
    BY <2>1, <1>0, <1>01, <1>02 DEF IInv, HandlesOK
  <2>2. ASSUME NEW g \in Handle, NEW k \in Handle,
               handle'[g].fh = handle'[k].fh, handle'[k].fh # -1
        PROVE  g = k
    BY <2>2, <1>0, <1>01, <1>02 DEF IInv, HandlesOK
  <2>3. \A g \in Handle : handle'[g].state = "free" => handle'[g] = Shut
    BY <1>01 DEF IInv, HandlesOK
  <2>4. \A g \in Handle : handle'[g].state = "open" => handle'[g].fh # -1
    BY <1>01 DEF IInv, HandlesOK
  <2> QED BY <2>1, <2>2, <2>3, <2>4 DEF HandlesOK
<1>4. DescriptorsOK'
  <2>1. ASSUME NEW u \in Thread, th'[u].fd # -1
        PROVE  /\ fds'[th'[u].fd] # None
               /\ \A g \in Handle : handle'[g].fh # th'[u].fd
               /\ \A v \in Thread : th'[v].fd = th'[u].fd => v = u
    <3>1. u # t /\ th'[u] = th[u] /\ th[u].fd \in Fd /\ fds[th[u].fd] # None
      BY <2>1, <1>0 DEF IInv, DescriptorsOK, Request
    <3>2. fds'[th[u].fd] # None /\ fd # th[u].fd
      BY <3>1, <1>01, <1>0
    <3>3. \A g \in Handle : handle'[g].fh # th[u].fd
      BY <3>1, <3>2, <1>0, <1>01, <2>1 DEF IInv, DescriptorsOK
    <3>4. \A v \in Thread : th'[v].fd = th[u].fd => v = u
      BY <3>1, <1>0, <2>1 DEF IInv, DescriptorsOK
    <3> QED BY <3>1, <3>2, <3>3, <3>4
  <2>2. ASSUME NEW f \in Fd, fds'[f] # None
        PROVE  \/ \E g \in Handle : handle'[g].fh = f
               \/ \E u \in Thread : th'[u].fd = f
    <3>1. CASE f = fd
      BY <3>1, <1>01
    <3>2. CASE f # fd
      <4>1. fds[f] # None
        BY <3>2, <2>2, <1>01
      <4>2. CASE \E g \in Handle : handle[g].fh = f
        BY <4>2, <1>0, <1>01, <1>02
      <4>3. CASE \E u \in Thread : th[u].fd = f
        BY <4>3, <1>0
      <4> QED BY <4>1, <4>2, <4>3 DEF IInv, DescriptorsOK
    <3> QED BY <3>1, <3>2
  <2> QED BY <2>1, <2>2 DEF DescriptorsOK
<1> QED BY <1>1, <1>2, <1>3, <1>4 DEF IInv

(* What goes on with a request t without touching descriptors or handles.  *)
LEMMA ProgressStep ==
  ASSUME IInv, NEW t \in Thread, NEW r \in Request, ThreadOK(r),
         HandleOf(r, handle), r.fd = -1, th[t].fd = -1, r.h = th[t].h,
         r.op \in Opening => th[t].op \in Opening,
         th' = [th EXCEPT ![t] = r], UNCHANGED <<names, fds, at, handle, inodes>>
  PROVE  IInv'
<1>0. th \in [Thread -> Request]
  BY DEF IInv, TypeOK, Request
<1>1. TypeOK'
  BY <1>0 DEF IInv, TypeOK, Request
<1>2. ThreadsOK'
  BY <1>0 DEF IInv, ThreadsOK
<1>3. HandlesOK' /\ TableOK'
  BY DEF IInv, HandlesOK, TableOK
<1>4. DescriptorsOK'
  BY <1>0 DEF IInv, DescriptorsOK, Request
<1> QED BY <1>1, <1>2, <1>3, <1>4 DEF IInv

-----------------------------------------------------------------------------
(* The callbacks on a path. *)

LEMMA PathCallStep ==
  ASSUME IInv, NEW t \in Thread, NEW n \in Name, NEW res \in SUBSET (Errno \cup {OK}),
         PathCall(t, n, res)
  PROVE  IInv'
<1>1. PICK q \in Named(n, res) : Answers(t, "path", None, q)
  BY DEF PathCall
<1>2. q \in Errno \cup {OK}
  BY <1>1 DEF Named, Errno
<1>3. PICK r : PlainAnswer(r) /\ r.h = None /\ th' = [th EXCEPT ![t] = r]
  BY <1>1, <1>2, AnswersGive
<1>4. NamesTyped' /\ at' \in [Fd -> {"start", "passed"}]
  BY DEF IInv, TypeOK, PathCall, world, NamesTyped
<1> QED BY <1>3, <1>4, QuietStep DEF PathCall, world

LEMMA NameCallStep ==
  ASSUME IInv, NEW t \in Thread, NEW q \in Errno \cup {OK}, NameCall(t, q),
         q = OK => NamesTyped'
  PROVE  IInv'
<1>1. PICK r : PlainAnswer(r) /\ r.h = None /\ th' = [th EXCEPT ![t] = r]
  BY AnswersGive DEF NameCall
<1>2. NamesTyped' /\ at' \in [Fd -> {"start", "passed"}]
  BY DEF IInv, TypeOK, NameCall, NamesTyped
<1> QED BY <1>1, <1>2, QuietStep DEF NameCall

LEMMA PutTyped ==
  ASSUME IInv, NEW n, NEW o \in Object \cup {None}, Put(n, o)
  PROVE  NamesTyped'
BY DEF IInv, TypeOK, Put, NamesTyped

LEMMA MakesStep ==
  ASSUME IInv, NEW t \in Thread, NEW n \in Name, NEW kind \in SUBSET Object,
         Makes(t, n, kind)
  PROVE  IInv'
<1>1. CASE NameCall(t, "EEXIST")
  BY <1>1, NameCallStep, OKIsNoErrno DEF Errno
<1>2. CASE \E o \in kind : Put(n, o) /\ NameCall(t, OK)
  BY <1>2, PutTyped, NameCallStep
<1> QED BY <1>1, <1>2 DEF Makes

LEMMA UnlinkStep ==
  ASSUME IInv, NEW t \in Thread, BbUnlink(t) PROVE IInv'
BY PutTyped, NameCallStep, OKIsNoErrno DEF BbUnlink, Errno

LEMMA RmdirStep ==
  ASSUME IInv, NEW t \in Thread, BbRmdir(t) PROVE IInv'
BY PutTyped, NameCallStep, OKIsNoErrno DEF BbRmdir, Errno

LEMMA RenameStep ==
  ASSUME IInv, NEW t \in Thread, BbRename(t) PROVE IInv'
<1>1. PICK n \in Name, m \in Name :
        \/ \E q \in {"ENOENT", "EISDIR", "ENOTDIR"} : NameCall(t, q)
        \/ /\ names' = IF names[n] = names[m] THEN names
                       ELSE [names EXCEPT ![m] = names[n], ![n] = None]
           /\ NameCall(t, OK)
  BY DEF BbRename
<1>2. CASE \E q \in {"ENOENT", "EISDIR", "ENOTDIR"} : NameCall(t, q)
  BY <1>2, NameCallStep, OKIsNoErrno DEF Errno
<1>3. CASE /\ names' = IF names[n] = names[m] THEN names
                       ELSE [names EXCEPT ![m] = names[n], ![n] = None]
           /\ NameCall(t, OK)
  <2>1. NamesTyped'
    BY <1>3 DEF IInv, TypeOK, NamesTyped
  <2> QED BY <1>3, <2>1, NameCallStep
<1> QED BY <1>1, <1>2, <1>3

LEMMA LinkStep ==
  ASSUME IInv, NEW t \in Thread, BbLink(t) PROVE IInv'
<1>1. PICK n \in Name, m \in Name :
        \/ \E q \in {"ENOENT", "EEXIST", "EPERM"} : NameCall(t, q)
        \/ names[n] \in Object /\ Put(m, names[n]) /\ NameCall(t, OK)
  BY DEF BbLink, Object
<1>2. CASE \E q \in {"ENOENT", "EEXIST", "EPERM"} : NameCall(t, q)
  BY <1>2, NameCallStep, OKIsNoErrno DEF Errno
<1>3. CASE names[n] \in Object /\ Put(m, names[n]) /\ NameCall(t, OK)
  BY <1>3, PutTyped, NameCallStep
<1> QED BY <1>1, <1>2, <1>3

LEMMA TruncateStep ==
  ASSUME IInv, NEW t \in Thread, BbTruncate(t) PROVE IInv'
<1>1. PICK q \in Errno \cup {OK} : AnswersMinusOne(t, "truncate", None, q)
  BY DEF BbTruncate, Named, Errno
<1>2. PICK r : PlainAnswer(r) /\ r.h = None /\ th' = [th EXCEPT ![t] = r]
  BY <1>1, MinusOneGives
<1>3. NamesTyped' /\ at' \in [Fd -> {"start", "passed"}]
  BY DEF IInv, TypeOK, BbTruncate, world, NamesTyped
<1> QED BY <1>2, <1>3, QuietStep DEF BbTruncate, world

(* The callbacks that make a single call on a path or a name.              *)
LEMMA PathStep ==
  ASSUME IInv, NEW t \in Thread,
         \/ BbGetattr(t) \/ BbReadlink(t) \/ BbChmodChown(t) \/ BbUtime(t)
         \/ BbStatfs(t) \/ BbAccess(t) \/ BbXattr(t) \/ BbMkdir(t) \/ BbSymlink(t)
         \/ BbUnlink(t) \/ BbRmdir(t) \/ BbRename(t) \/ BbLink(t) \/ BbTruncate(t)
  PROVE  IInv'
<1>1. ASSUME NEW n \in Name, NEW res \in SUBSET {OK, "EINVAL", "EPERM", "EACCES", "ENODATA"},
             PathCall(t, n, res)
      PROVE  IInv'
  BY <1>1, PathCallStep DEF Errno
<1>2. BbGetattr(t) => IInv'
  BY <1>1 DEF BbGetattr
<1>3. BbReadlink(t) => IInv'
  BY <1>1 DEF BbReadlink
<1>4. BbChmodChown(t) => IInv'
  BY <1>1 DEF BbChmodChown
<1>5. BbUtime(t) \/ BbAccess(t) => IInv'
  BY <1>1 DEF BbUtime, BbAccess
<1>6. BbStatfs(t) => IInv'
  BY <1>1 DEF BbStatfs
<1>7. BbXattr(t) => IInv'
  BY <1>1 DEF BbXattr
<1>8. BbMkdir(t) \/ BbSymlink(t) => IInv'
  BY MakesStep DEF BbMkdir, BbSymlink, Object
<1> QED BY <1>2, <1>3, <1>4, <1>5, <1>6, <1>7, <1>8, UnlinkStep, RmdirStep, RenameStep,
           LinkStep, TruncateStep

-----------------------------------------------------------------------------
(* The callbacks that take and give up descriptors. *)

(* bb_mknod holds the lowest free descriptor until it closes it.           *)
LEMMA MknodOpenStep ==
  ASSUME IInv, NEW t \in Thread, NEW n \in Name, NEW f \in Fd, NEW o \in Regular,
         Free(t), Put(n, o), Takes(f, o), UNCHANGED <<handle, inodes>>,
         th' = [th EXCEPT ![t] = [Idle EXCEPT !.pc = "close", !.op = "mknod", !.fd = f]]
  PROVE  IInv'
<1> DEFINE r == [Idle EXCEPT !.pc = "close", !.op = "mknod", !.fd = f]
<1>0. /\ th \in [Thread -> Request] /\ th[t] = Idle /\ Idle.fd = -1 /\ -1 \notin Fd
      /\ fds[f] = None /\ fds' = [fds EXCEPT ![f] = o] /\ o \in Object /\ o # None
      /\ fds \in [Fd -> Object \cup {None}] /\ th' = [th EXCEPT ![t] = r]
  BY BBFSAssumption
  DEF IInv, TypeOK, Request, ThreadsOK, ThreadOK, Free, Idle, Fd, Takes, LowestFree, Object
<1>r. /\ r \in Request /\ ThreadOK(r) /\ r.h = None /\ r.op \notin Opening /\ r.fd = f
      /\ r.fd # -1
  BY <1>0 DEF Request, ThreadOK, Idle, Pc, Op, Opening, OnHandle, OK, Errno
<1>t. \A u \in Thread : th'[u] = IF u = t THEN r ELSE th[u]
  BY <1>0
<1> HIDE DEF r
<1>1. TypeOK'
  BY <1>0, <1>r, PutTyped DEF IInv, TypeOK, Request, NamesTyped, Takes
<1>2. ThreadsOK'
  <2>1. ASSUME NEW u \in Thread PROVE ThreadOK(th'[u]) /\ HandleOf(th'[u], handle')
    <3>1. CASE u = t
      BY <3>1, <1>r, <1>t DEF HandleOf
    <3>2. CASE u # t
      BY <3>2, <1>t DEF IInv, ThreadsOK
    <3> QED BY <3>1, <3>2
  <2>2. ASSUME NEW u \in Thread, NEW v \in Thread,
               th'[u].op \in Opening, th'[v].h = th'[u].h
        PROVE  v = u
    <3>1. u # t /\ th'[u] = th[u] /\ th[u].h # None
      BY <2>2, <1>r, <1>t DEF IInv, ThreadsOK, ThreadOK
    <3>2. v # t /\ th'[v] = th[v]
      BY <3>1, <2>2, <1>r, <1>t
    <3> QED BY <3>1, <3>2, <2>2 DEF IInv, ThreadsOK
  <2> QED BY <2>1, <2>2 DEF ThreadsOK
<1>3. HandlesOK' /\ TableOK' /\ \A h \in Handle : handle[h].fh # f
  BY <1>0, BBFSAssumption DEF IInv, TypeOK, HandlesOK, TableOK
<1>4. DescriptorsOK'
  <2>1. ASSUME NEW u \in Thread, th'[u].fd # -1
        PROVE  /\ fds'[th'[u].fd] # None
               /\ \A h \in Handle : handle'[h].fh # th'[u].fd
               /\ \A v \in Thread : th'[v].fd = th'[u].fd => v = u
    <3>1. \A v \in Thread : v # t => th[v].fd # f
      BY <1>0 DEF IInv, DescriptorsOK
    <3>2. CASE u = t
      BY <3>1, <3>2, <1>0, <1>3, <1>r, <1>t
    <3>3. CASE u # t
      <4>1. th'[u] = th[u] /\ th[u].fd \in Fd /\ th[u].fd # f
        BY <2>1, <3>1, <3>3, <1>0, <1>t DEF Request
      <4>2. fds'[th[u].fd] # None /\ \A h \in Handle : handle'[h].fh # th[u].fd
        BY <4>1, <2>1, <1>0 DEF IInv, DescriptorsOK
      <4>3. \A v \in Thread : th'[v].fd = th[u].fd => v = u
        BY <4>1, <2>1, <1>r, <1>t DEF IInv, DescriptorsOK
      <4> QED BY <4>1, <4>2, <4>3
    <3> QED BY <3>2, <3>3
  <2>2. ASSUME NEW g \in Fd, fds'[g] # None
        PROVE  \/ \E h \in Handle : handle'[h].fh = g
               \/ \E u \in Thread : th'[u].fd = g
    <3>1. CASE g = f
      BY <3>1, <1>r, <1>t
    <3>2. CASE g # f
      <4>1. fds[g] # None
        BY <3>2, <2>2, <1>0
      <4>2. \/ \E h \in Handle : handle[h].fh = g
            \/ \E u \in Thread : th[u].fd = g
        BY <4>1 DEF IInv, DescriptorsOK
      <4>3. \A u \in Thread : th[u].fd = g => u # t
        BY <1>0
      <4> QED BY <4>2, <4>3, <1>t
    <3> QED BY <3>1, <3>2
  <2> QED BY <2>1, <2>2 DEF DescriptorsOK
<1> QED BY <1>1, <1>2, <1>3, <1>4 DEF IInv

LEMMA MknodStep ==
  ASSUME IInv, NEW t \in Thread, BbMknod(t) PROVE IInv'
<1>1. PICK n \in Name :
        \/ Makes(t, n, Other)
        \/ NameCall(t, "EMFILE") \/ NameCall(t, "EEXIST")
        \/ \E f \in Fd, o \in Regular :
             /\ Free(t) /\ Put(n, o) /\ Takes(f, o) /\ UNCHANGED <<handle, inodes>>
             /\ th' = [th EXCEPT ![t] = [Idle EXCEPT !.pc = "close", !.op = "mknod", !.fd = f]]
  BY DEF BbMknod
<1>2. CASE Makes(t, n, Other)
  BY <1>2, MakesStep DEF Object
<1>3. CASE NameCall(t, "EMFILE") \/ NameCall(t, "EEXIST")
  BY <1>3, NameCallStep, OKIsNoErrno DEF Errno
<1> QED BY <1>1, <1>2, <1>3, MknodOpenStep

(* The descriptor of bb_mknod was its own, and nobody has it now.          *)
LEMMA MknodCloseStep ==
  ASSUME IInv, NEW t \in Thread, BbMknodClose(t) PROVE IInv'
<1>1. PICK q \in {OK, "EIO"} : Answers(t, "path", None, q)
  BY DEF BbMknodClose
<1>2. PICK r : PlainAnswer(r) /\ r.h = None /\ th' = [th EXCEPT ![t] = r]
  <2>1. q \in Errno \cup {OK}
    BY DEF Errno
  <2> QED BY <1>1, <2>1, AnswersGive
<1> DEFINE f == th[t].fd
<1>0. /\ th \in [Thread -> Request] /\ f \in Fd /\ -1 \notin Fd /\ th[t].h = None
      /\ r \in Request /\ r.fd = -1 /\ r.op \notin Opening /\ ThreadOK(r)
      /\ fds' = [g \in Fd |-> IF g = f THEN None ELSE fds[g]]
      /\ fds \in [Fd -> Object \cup {None}] /\ UNCHANGED <<names, at, handle, inodes>>
  BY <1>2 DEF IInv, TypeOK, Request, ThreadsOK, ThreadOK, BbMknodClose, Closes, Fd,
              PlainAnswer, Opening, OnHandle
<1>t. \A u \in Thread : th'[u] = IF u = t THEN r ELSE th[u]
  BY <1>0, <1>2
<1>3. TypeOK'
  BY <1>0, <1>2 DEF IInv, TypeOK, Request
<1>4. ThreadsOK'
  <2>1. \A u \in Thread : ThreadOK(th'[u]) /\ HandleOf(th'[u], handle')
    BY <1>0, <1>2, <1>t DEF IInv, ThreadsOK, HandleOf
  <2>2. ASSUME NEW u \in Thread, NEW v \in Thread,
               th'[u].op \in Opening, th'[v].h = th'[u].h
        PROVE  v = u
    BY <2>2, <1>0, <1>2, <1>t DEF IInv, ThreadsOK, ThreadOK
  <2> QED BY <2>1, <2>2 DEF ThreadsOK
<1>5. HandlesOK' /\ TableOK'
  <2>1. \A h \in Handle : handle[h].fh # f
    BY <1>0 DEF IInv, DescriptorsOK
  <2>2. \A h \in Handle : handle[h].fh # -1 => handle[h].fh \in Fd
    BY DEF IInv, TypeOK
  <2> QED BY <2>1, <2>2, <1>0 DEF IInv, HandlesOK, TableOK
<1>6. DescriptorsOK'
  <2>1. ASSUME NEW u \in Thread, th'[u].fd # -1
        PROVE  /\ fds'[th'[u].fd] # None
               /\ \A h \in Handle : handle'[h].fh # th'[u].fd
               /\ \A v \in Thread : th'[v].fd = th'[u].fd => v = u
    <3>1. u # t /\ th'[u] = th[u] /\ th[u].fd \in Fd
      BY <2>1, <1>0, <1>t DEF Request
    <3>2. th[u].fd # f
      BY <3>1, <2>1, <1>0 DEF IInv, DescriptorsOK
    <3>3. fds'[th[u].fd] # None /\ \A h \in Handle : handle'[h].fh # th[u].fd
      BY <3>1, <3>2, <2>1, <1>0 DEF IInv, DescriptorsOK
    <3>4. \A v \in Thread : th'[v].fd = th[u].fd => v = u
      BY <3>1, <2>1, <1>0, <1>t DEF IInv, DescriptorsOK
    <3> QED BY <3>1, <3>3, <3>4
  <2>2. ASSUME NEW g \in Fd, fds'[g] # None
        PROVE  \/ \E h \in Handle : handle'[h].fh = g
               \/ \E u \in Thread : th'[u].fd = g
    <3>1. g # f /\ fds[g] # None
      BY <2>2, <1>0
    <3>2. \/ \E h \in Handle : handle[h].fh = g
          \/ \E u \in Thread : th[u].fd = g
      BY <3>1 DEF IInv, DescriptorsOK
    <3> QED BY <3>1, <3>2, <1>0, <1>t
  <2> QED BY <2>1, <2>2 DEF DescriptorsOK
<1> QED BY <1>3, <1>4, <1>5, <1>6 DEF IInv

LEMMA OpenFailsStep ==
  ASSUME IInv, NEW t \in Thread, NEW h \in Handle, NEW q \in Errno,
         OpenFails(t, "open", h, q)
  PROVE  IInv'
<1>1. Opens(t, "open", h, -1, None, q) /\ UNCHANGED <<fds, at>> /\ q # OK
  BY OKIsNoErrno DEF OpenFails
<1>2. PICK r : /\ r \in Request /\ ThreadOK(r) /\ r.pc = "answer" /\ r.op = "open"
               /\ r.fd = -1 /\ r.h = h /\ (r.ret = OK <=> q = OK)
               /\ th' = [th EXCEPT ![t] = r]
  BY <1>1, OpenAnswersGive DEF Opens
<1>3. at' \in [Fd -> {"start", "passed"}] /\ TableOK'
  BY <1>1 DEF IInv, TypeOK, TableOK, Opens
<1> QED BY <1>1, <1>2, <1>3, OpeningStep DEF Opens, Opening

LEMMA OpenSucceedsStep ==
  ASSUME IInv, NEW t \in Thread, NEW h \in Handle, NEW n \in Name,
         names[n] \in Object, OpenSucceeds(t, "open", h, n)
  PROVE  IInv'
<1>1. PICK f \in Fd : Takes(f, names[n]) /\ Opens(t, "open", h, f, names[n], OK)
  BY DEF OpenSucceeds
<1>2. PICK r : /\ r \in Request /\ ThreadOK(r) /\ r.pc = "answer" /\ r.op = "open"
               /\ r.fd = -1 /\ r.h = h /\ (r.ret = OK <=> OK = OK)
               /\ th' = [th EXCEPT ![t] = r]
  BY <1>1, OpenAnswersGive DEF Opens
<1>3. at' \in [Fd -> {"start", "passed"}] /\ TableOK' /\ f # -1
  <2>1. at' \in [Fd -> {"start", "passed"}]
    BY <1>1 DEF IInv, TypeOK, Takes
  <2>2. TableOK'
    BY <1>1 DEF IInv, TableOK, Opens
  <2> QED BY <2>1, <2>2 DEF Fd
<1>4. fds[f] = None /\ fds' = [fds EXCEPT ![f] = names[n]]
  BY <1>1 DEF Takes, LowestFree
<1>5. /\ r \in Request /\ ThreadOK(r) /\ r.op \in Opening /\ r.h = h /\ r.fd = -1
      /\ r.pc # "idle" /\ r.op = "open" /\ r.ret = OK /\ th' = [th EXCEPT ![t] = r]
  BY <1>2 DEF Opening
<1>6. /\ Free(t) /\ handle[h].state = "free" /\ UNCHANGED names
      /\ handle' = [handle EXCEPT ![h] = [state |-> "opening", fh |-> f, object |-> names[n]]]
  BY <1>1 DEF Opens
<1> QED BY <1>3, <1>4, <1>5, <1>6, OpeningStep

LEMMA OpenStep ==
  ASSUME IInv, NEW t \in Thread, BbOpen(t) \/ BbOpendir(t) PROVE IInv'
<1>1. PICK n \in Name, h \in Handle :
        \/ \E q \in {"EMFILE", "ENOENT", "EISDIR", "EACCES", "ENOTDIR"} :
             OpenFails(t, "open", h, q)
        \/ names[n] \in Object /\ OpenSucceeds(t, "open", h, n)
  BY DEF BbOpen, BbOpendir, Object, IsDir
<1> QED BY <1>1, OpenFailsStep, OpenSucceedsStep DEF Errno

(* The table never has a root, so that no file is made.                    *)
LEMMA MyCreatFails ==
  ASSUME TableOK
  PROVE  /\ MyCreat(inodes).fd = -1
         /\ \E n \in Nat : MyCreat(inodes).table = 1..n
<1>1. PICK n \in Nat : inodes = 1..n
  BY DEF TableOK
<1>2. \E m \in inodes \cup {0} : \A i \in inodes : i <= m
  BY <1>1
<1>3. /\ MaxInode(inodes) \in (1..n) \cup {0}
      /\ \A i \in 1..n : i <= MaxInode(inodes)
  BY <1>1, <1>2 DEF MaxInode
<1>4. MaxInode(inodes) = n
  BY <1>3
<1>5. InodeInit(inodes) = n + 1 /\ (1..n) \cup {n + 1} = 1..(n + 1) /\ 0 \notin 1..(n + 1)
  BY <1>4 DEF InodeInit
<1> QED BY <1>1, <1>5 DEF MyCreat

LEMMA CreateStep ==
  ASSUME IInv, NEW t \in Thread, BbCreate(t) PROVE IInv'
<1>1. PICK h \in Handle, errno \in StaleErrno :
        /\ Free(t) /\ handle[h].state = "free"
        /\ inodes' = MyCreat(inodes).table
        /\ handle' = [handle EXCEPT ![h] =
             [state |-> "opening", fh |-> MyCreat(inodes).fd, object |-> None]]
        /\ UNCHANGED <<names, fds, at>>
        /\ th' = [th EXCEPT ![t] =
             [pc |-> IF (IF MyCreat(inodes).fd < 0 THEN errno ELSE OK) = OK
                     THEN "fgetattr" ELSE "answer",
              op |-> "create", h |-> h, fd |-> -1,
              host |-> IF MyCreat(inodes).fd < 0 THEN "ENOENT" ELSE OK,
              ret |-> IF MyCreat(inodes).fd < 0 THEN errno ELSE OK]]
  BY DEF BbCreate, BbError
<1>2. MyCreat(inodes).fd = -1 /\ TableOK'
  BY <1>1, MyCreatFails DEF IInv, TableOK
<1> DEFINE r == [pc |-> IF errno = OK THEN "fgetattr" ELSE "answer", op |-> "create",
                 h |-> h, fd |-> -1, host |-> "ENOENT", ret |-> errno]
<1>3. /\ th' = [th EXCEPT ![t] = r]
      /\ handle' = [handle EXCEPT ![h] = [state |-> "opening", fh |-> -1, object |-> None]]
  <2>1. MyCreat(inodes).fd < 0
    BY <1>2
  <2>2. th' = [th EXCEPT ![t] = r]
    BY <1>1, <2>1
  <2> QED BY <1>1, <1>2, <2>2
<1>4. /\ r \in Request /\ ThreadOK(r) /\ r.op = "create" /\ r.h = h /\ r.fd = -1
      /\ r.pc # "idle"
  BY BBFSAssumption, OKIsNoErrno
  DEF Request, Pc, Op, ThreadOK, Vague, Idle, Opening, OnHandle, OK, Errno
<1>5. at' \in [Fd -> {"start", "passed"}] /\ r.op \in Opening
  BY <1>1 DEF IInv, TypeOK, Opening
<1> HIDE DEF r
<1>6. /\ Free(t) /\ handle[h].state = "free" /\ UNCHANGED <<names, fds>> /\ TableOK'
      /\ r.op # "open"
  BY <1>1, <1>2, <1>4
<1>7. PICK fd, o : fd = -1 /\ o = None
  OBVIOUS
<1>8. handle' = [handle EXCEPT ![h] = [state |-> "opening", fh |-> fd, object |-> o]]
  BY <1>3, <1>7
<1> QED BY <1>3, <1>4, <1>5, <1>6, <1>7, <1>8, OpeningStep

LEMMA CreateFgetattrStep ==
  ASSUME IInv, NEW t \in Thread, CreateFgetattr(t) PROVE IInv'
<1>0. /\ th[t] \in Request /\ ThreadOK(th[t]) /\ HandleOf(th[t], handle)
      /\ th[t].pc = "fgetattr" /\ th[t].op = "create" /\ th[t].h \in Handle
      /\ th[t].fd = -1 /\ handle[th[t].h].fh = -1
  BY DEF IInv, TypeOK, Request, ThreadsOK, CreateFgetattr, ThreadOK, HandleOf, Opening
<1>1. ~Held(th[t].h)
  BY <1>0 DEF Held, Fd
<1> DEFINE r == [th[t] EXCEPT !.pc = "release", !.host = "EBADF", !.ret = "EBADF"]
<1>2. th' = [th EXCEPT ![t] = r]
  BY <1>1 DEF CreateFgetattr, BbError, IInv, TypeOK
<1>3. r \in Request /\ ThreadOK(r)
  BY <1>0, OKIsNoErrno DEF Request, Pc, Errno, ThreadOK, Idle
<1>4. HandleOf(r, handle) /\ r.fd = -1 /\ r.h = th[t].h /\ r.op = "create"
  BY <1>0 DEF HandleOf, Request
<1> HIDE DEF r
<1> QED BY <1>0, <1>2, <1>3, <1>4, ProgressStep DEF CreateFgetattr, world

LEMMA CreateReleaseStep ==
  ASSUME IInv, NEW t \in Thread, CreateRelease(t) PROVE IInv'
<1>0. /\ th[t] \in Request /\ ThreadOK(th[t]) /\ HandleOf(th[t], handle)
      /\ th[t].pc = "release" /\ th[t].op = "create" /\ th[t].h \in Handle
      /\ th[t].fd = -1 /\ handle[th[t].h].fh = -1
  BY DEF IInv, TypeOK, Request, ThreadsOK, CreateRelease, ThreadOK, HandleOf, Opening
<1>1. UNCHANGED <<names, fds, at, handle, inodes>>
  <2>1. fds' = [g \in Fd |-> IF g = -1 THEN None ELSE fds[g]]
    BY <1>0 DEF CreateRelease, Closes
  <2>2. fds' = fds
    BY <2>1 DEF IInv, TypeOK, Fd
  <2> QED BY <2>2 DEF CreateRelease, Closes
<1> DEFINE r == [th[t] EXCEPT !.pc = "answer"]
<1>2. th' = [th EXCEPT ![t] = r]
  BY DEF CreateRelease
<1>3. r \in Request /\ ThreadOK(r)
  BY <1>0, OKIsNoErrno DEF Request, Pc, ThreadOK, Vague, Idle
<1>4. HandleOf(r, handle) /\ r.fd = -1 /\ r.h = th[t].h /\ r.op = "create"
  BY <1>0 DEF HandleOf, Request
<1> HIDE DEF r
<1> QED BY <1>0, <1>1, <1>2, <1>3, <1>4, ProgressStep

-----------------------------------------------------------------------------
(* The callbacks on an open handle. *)

LEMMA HandleCallStep ==
  ASSUME IInv, NEW t \in Thread, NEW kind, NEW res \in SUBSET (Errno \cup {OK}),
         HandleCall(t, kind, res)
  PROVE  IInv'
<1>1. PICK h \in Handle :
        /\ Free(t) /\ handle[h].state = "open" /\ UNCHANGED world
        /\ \E q \in IF Held(h) THEN res ELSE {"EBADF"} : Answers(t, "handle", h, q)
  BY DEF HandleCall
<1>2. PICK q \in Errno \cup {OK} : Answers(t, "handle", h, q)
  BY <1>1 DEF Errno
<1>3. PICK r : PlainAnswer(r) /\ r.h = h /\ th' = [th EXCEPT ![t] = r]
  BY <1>2, AnswersGive
<1>4. NamesTyped' /\ at' \in [Fd -> {"start", "passed"}]
  BY <1>1 DEF IInv, TypeOK, world, NamesTyped
<1> QED BY <1>1, <1>3, <1>4, QuietStep DEF world

LEMMA FlushStep ==
  ASSUME IInv, NEW t \in Thread, BbFlush(t) \/ BbFsyncdir(t) PROVE IInv'
<1>1. PICK h \in Handle :
        Free(t) /\ handle[h].state = "open" /\ UNCHANGED world /\ Answers(t, "handle", h, OK)
  BY DEF BbFlush, BbFsyncdir
<1>3. PICK r : PlainAnswer(r) /\ r.h = h /\ th' = [th EXCEPT ![t] = r]
  BY <1>1, AnswersGive
<1>4. NamesTyped' /\ at' \in [Fd -> {"start", "passed"}]
  BY <1>1 DEF IInv, TypeOK, world, NamesTyped
<1> QED BY <1>1, <1>3, <1>4, QuietStep DEF world

LEMMA FsyncStep ==
  ASSUME IInv, NEW t \in Thread, BbFsync(t) PROVE IInv'
<1>1. PICK h \in Handle :
        /\ Free(t) /\ handle[h].state = "open" /\ UNCHANGED world
        /\ \E q \in Errno \cup {OK} : AnswersMinusOne(t, "fsync", h, q)
  BY DEF BbFsync, Errno
<1>3. PICK r : PlainAnswer(r) /\ r.h = h /\ th' = [th EXCEPT ![t] = r]
  BY <1>1, MinusOneGives
<1>4. NamesTyped' /\ at' \in [Fd -> {"start", "passed"}]
  BY <1>1 DEF IInv, TypeOK, world, NamesTyped
<1> QED BY <1>1, <1>3, <1>4, QuietStep DEF world

(* What a readdir answers, and what the host gave, are errnos or OK.       *)
LEMMA ReaddirGives ==
  ASSUME NEW t \in Thread, BbReaddir(t)
  PROVE  \E h \in Handle, q \in Errno \cup {OK}, e \in Errno \cup {OK} :
           /\ Free(t) /\ handle[h].state = "open" /\ UNCHANGED <<names, fds, handle, inodes>>
           /\ at' = [at EXCEPT ![handle[h].fh] = "passed"] \/ UNCHANGED at
           /\ Replies(t, "readdir", h, q, e)
<1> DEFINE Read(h) == \/ \E q \in {OK, "ENOMEM"} : Replies(t, "readdir", h, q, q)
                      \/ Replies(t, "readdir", h, "EIO", OK)
           Nothing(h) == \E errno \in StaleErrno : \E logged \in LogErrno \cup {errno} :
                           Replies(t, "readdir", h, OK, BbError(errno, logged))
           Failed(h) == Answers(t, "readdir", h, "EIO")
<1>1. PICK h \in Handle :
        /\ Free(t) /\ handle[h].state = "open" /\ UNCHANGED <<names, fds, handle, inodes>>
        /\ at' = [at EXCEPT ![handle[h].fh] = "passed"] \/ UNCHANGED at
        /\ Read(h) \/ Nothing(h) \/ Failed(h)
  BY DEF BbReaddir
<1>2. "ENOMEM" \in Errno /\ "EIO" \in Errno
  BY DEF Errno
<1>3. CASE Read(h)
  BY <1>1, <1>2, <1>3
<1>4. CASE Nothing(h)
  <2>1. PICK errno \in StaleErrno : Replies(t, "readdir", h, OK, errno)
    BY <1>4 DEF BbError
  <2>2. errno \in Errno \cup {OK}
    BY BBFSAssumption
  <2> QED BY <1>1, <2>1, <2>2
<1>5. CASE Failed(h)
  <2>1. Replies(t, "readdir", h, "EIO", IF "EIO" = OK THEN OK ELSE "EIO")
    BY <1>5 DEF Answers, BbError
  <2> QED BY <1>1, <1>2, <2>1 DEF OK
<1> HIDE DEF Read, Nothing, Failed
<1> QED BY <1>1, <1>3, <1>4, <1>5

(* A release answers, whatever close or closedir returned, without handle. *)
LEMMA ReleaseGives ==
  ASSUME NEW t \in Thread, BbRelease(t) \/ BbReleasedir(t)
  PROVE  \E h \in Handle :
           /\ Free(t) /\ handle[h].state = "open" /\ \A u \in Thread : th[u].h # h
           /\ Closes(handle[h].fh) /\ handle' = [handle EXCEPT ![h] = Shut]
           /\ UNCHANGED <<names, inodes>>
           /\ \E r : PlainAnswer(r) /\ r.h = None /\ th' = [th EXCEPT ![t] = r]
<1>0. PICK h \in Handle :
        \E kind \in {Regular, Directory}, q \in Closed(h) :
          /\ Releases(t, h, kind)
          /\ \/ AnswersMinusOne(t, "release", None, q)
             \/ Replies(t, "releasedir", None, q, OK)
  BY DEF BbRelease, BbReleasedir
<1>1. PICK kind \in {Regular, Directory}, q \in Closed(h) :
        /\ Releases(t, h, kind)
        /\ \/ AnswersMinusOne(t, "release", None, q)
           \/ Replies(t, "releasedir", None, q, OK)
  BY <1>0
<1>2. q \in Errno \cup {OK}
  BY DEF Closed, Errno
<1>3. CASE AnswersMinusOne(t, "release", None, q)
  <2>1. \E r : PlainAnswer(r) /\ r.h = None /\ th' = [th EXCEPT ![t] = r]
    BY <1>2, <1>3, MinusOneGives
  <2> QED BY <1>1, <2>1 DEF Releases
<1>4. CASE Replies(t, "releasedir", None, q, OK)
  <2> DEFINE r == [pc |-> "answer", op |-> "releasedir", h |-> None, fd |-> -1,
                   host |-> q, ret |-> OK]
  <2>1. th' = [th EXCEPT ![t] = r]
    BY <1>4 DEF Replies
  <2>2. PlainAnswer(r) /\ r.h = None
    BY <1>2, BBFSAssumption
    DEF PlainAnswer, Request, Pc, Op, ThreadOK, Vague, Idle, Opening, OnHandle
  <2> HIDE DEF r
  <2> QED BY <1>1, <2>1, <2>2 DEF Releases
<1> QED BY <1>1, <1>3, <1>4

LEMMA ReaddirStep ==
  ASSUME IInv, NEW t \in Thread, BbReaddir(t) PROVE IInv'
<1>1. PICK h \in Handle, q \in Errno \cup {OK}, e \in Errno \cup {OK} :
        /\ Free(t) /\ handle[h].state = "open" /\ UNCHANGED <<names, fds, handle, inodes>>
        /\ at' = [at EXCEPT ![handle[h].fh] = "passed"] \/ UNCHANGED at
        /\ Replies(t, "readdir", h, q, e)
  BY ReaddirGives DEF BbReaddir
<1> DEFINE r == [pc |-> "answer", op |-> "readdir", h |-> h, fd |-> -1, host |-> q, ret |-> e]
<1>2. th' = [th EXCEPT ![t] = r]
  BY <1>1 DEF Replies
<1>3. PlainAnswer(r) /\ r.h = h
  BY BBFSAssumption DEF PlainAnswer, Request, Pc, Op, ThreadOK, Vague, Idle, Opening, OnHandle
<1>4. NamesTyped' /\ at' \in [Fd -> {"start", "passed"}]
  BY <1>1 DEF IInv, TypeOK, NamesTyped
<1> HIDE DEF r
<1> QED BY <1>1, <1>2, <1>3, <1>4, QuietStep

(* Only the one handle had the descriptor, and no request is on it.        *)
LEMMA ReleaseStep ==
  ASSUME IInv, NEW t \in Thread, BbRelease(t) \/ BbReleasedir(t) PROVE IInv'
<1>1. PICK h \in Handle :
        /\ Free(t) /\ handle[h].state = "open" /\ \A u \in Thread : th[u].h # h
        /\ Closes(handle[h].fh) /\ handle' = [handle EXCEPT ![h] = Shut]
        /\ UNCHANGED <<names, inodes>>
        /\ \E r : PlainAnswer(r) /\ r.h = None /\ th' = [th EXCEPT ![t] = r]
  BY ReleaseGives
<1>2. PICK r : PlainAnswer(r) /\ r.h = None /\ th' = [th EXCEPT ![t] = r]
  BY <1>1
<1> DEFINE f == handle[h].fh
<1>0. /\ th \in [Thread -> Request] /\ th[t] = Idle /\ Idle.fd = -1 /\ Idle.h = None
      /\ r \in Request /\ r.fd = -1 /\ r.op \notin Opening /\ ThreadOK(r)
  BY <1>1, <1>2
  DEF IInv, TypeOK, Request, ThreadsOK, ThreadOK, Free, PlainAnswer, Opening, OnHandle, Idle
<1>01. /\ handle \in [Handle -> [state: {"free", "opening", "open"}, fh: Fd \cup {-1},
                                 object: Object \cup {None}]]
       /\ fds \in [Fd -> Object \cup {None}] /\ f \in Fd /\ -1 \notin Fd
       /\ Shut \in [state: {"free", "opening", "open"}, fh: Fd \cup {-1},
                    object: Object \cup {None}]
       /\ Shut.fh = -1 /\ Shut.state = "free"
  BY <1>1 DEF IInv, TypeOK, HandlesOK, Shut, Fd
<1>02. /\ fds' = [g \in Fd |-> IF g = f THEN None ELSE fds[g]] /\ UNCHANGED at
       /\ \A g \in Handle : handle'[g] = IF g = h THEN Shut ELSE handle[g]
  BY <1>1, <1>01 DEF Closes
<1>t. \A u \in Thread : th'[u] = IF u = t THEN r ELSE th[u]
  BY <1>0, <1>2
<1>n. \A g \in Handle : g # h => handle[g].fh # f
  BY <1>01 DEF IInv, HandlesOK
<1>3. TypeOK'
  BY <1>0, <1>01, <1>02, <1>1, <1>2 DEF IInv, TypeOK, Request
<1>4. ThreadsOK'
  <2>1. ASSUME NEW u \in Thread PROVE ThreadOK(th'[u]) /\ HandleOf(th'[u], handle')
    <3>1. CASE u = t
      BY <3>1, <1>0, <1>2, <1>t DEF HandleOf
    <3>2. CASE u # t
      <4>1. ThreadOK(th[u]) /\ HandleOf(th[u], handle) /\ th'[u] = th[u]
        BY <3>2, <1>t DEF IInv, ThreadsOK
      <4>2. th[u].h # None => handle'[th[u].h] = handle[th[u].h]
        BY <1>0, <1>1, <1>02 DEF Request
      <4> QED BY <4>1, <4>2 DEF HandleOf
    <3> QED BY <3>1, <3>2
  <2>2. ASSUME NEW u \in Thread, NEW v \in Thread,
               th'[u].op \in Opening, th'[v].h = th'[u].h
        PROVE  v = u
    <3>1. u # t /\ th'[u] = th[u] /\ th[u].h # None
      BY <2>2, <1>0, <1>t DEF IInv, ThreadsOK, ThreadOK
    <3>2. v # t /\ th'[v] = th[v]
      BY <3>1, <2>2, <1>2, <1>t
    <3> QED BY <3>1, <3>2, <2>2 DEF IInv, ThreadsOK
  <2> QED BY <2>1, <2>2 DEF ThreadsOK
<1>5. HandlesOK'
  <2>1. ASSUME NEW g \in Handle, handle'[g].fh # -1
        PROVE  /\ g # h /\ handle'[g] = handle[g]
               /\ handle'[g].object # None /\ fds'[handle'[g].fh] = handle'[g].object
    <3>1. g # h /\ handle'[g] = handle[g] /\ handle[g].fh \in Fd /\ handle[g].fh # f
      BY <2>1, <1>01, <1>02, <1>n
    <3>2. handle[g].object # None /\ fds[handle[g].fh] = handle[g].object
      BY <3>1, <2>1 DEF IInv, HandlesOK
    <3> QED BY <3>1, <3>2, <1>02
  <2>2. \A g, k \in Handle : handle'[g].fh = handle'[k].fh /\ handle'[k].fh # -1 => g = k
    BY <2>1 DEF IInv, HandlesOK
  <2>3. \A g \in Handle : handle'[g].state = "free" => handle'[g] = Shut
    BY <1>02 DEF IInv, HandlesOK
  <2>4. \A g \in Handle : handle'[g].state = "open" => handle'[g].fh # -1
    BY <1>01, <1>02 DEF IInv, HandlesOK
  <2> QED BY <2>1, <2>2, <2>3, <2>4 DEF HandlesOK
<1>6. DescriptorsOK'
  <2>1. ASSUME NEW u \in Thread, th'[u].fd # -1
        PROVE  /\ fds'[th'[u].fd] # None
               /\ \A g \in Handle : handle'[g].fh # th'[u].fd
               /\ \A v \in Thread : th'[v].fd = th'[u].fd => v = u
    <3>1. u # t /\ th'[u] = th[u] /\ th[u].fd \in Fd /\ th[u].fd # -1
      BY <2>1, <1>0, <1>t DEF Request
    <3>2. th[u].fd # f /\ fds[th[u].fd] # None
      BY <3>1 DEF IInv, DescriptorsOK
    <3>3. fds'[th[u].fd] # None
      BY <3>1, <3>2, <1>02
    <3>4. \A g \in Handle : handle'[g].fh # th[u].fd
      BY <3>1, <1>01, <1>02 DEF IInv, DescriptorsOK
    <3>5. \A v \in Thread : th'[v].fd = th[u].fd => v = u
      BY <3>1, <1>0, <1>t DEF IInv, DescriptorsOK
    <3> QED BY <3>1, <3>3, <3>4, <3>5
  <2>2. ASSUME NEW g \in Fd, fds'[g] # None
        PROVE  \/ \E k \in Handle : handle'[k].fh = g
               \/ \E u \in Thread : th'[u].fd = g
    <3>1. g # f /\ fds[g] # None
      BY <2>2, <1>02
    <3>2. \/ \E k \in Handle : handle[k].fh = g
          \/ \E u \in Thread : th[u].fd = g
      BY <3>1 DEF IInv, DescriptorsOK
    <3>3. CASE \E k \in Handle : handle[k].fh = g
      BY <3>3, <3>1, <1>02
    <3>4. CASE \E u \in Thread : th[u].fd = g
      BY <3>4, <1>0, <1>01, <1>t
    <3> QED BY <3>2, <3>3, <3>4
  <2> QED BY <2>1, <2>2 DEF DescriptorsOK
<1>7. TableOK'
  BY <1>1 DEF IInv, TableOK
<1> QED BY <1>3, <1>4, <1>5, <1>6, <1>7 DEF IInv

-----------------------------------------------------------------------------
(* An answer that gives a handle has a descriptor to it; one that does not *)
(* has none.                                                               *)
LEMMA AnswerStep ==
  ASSUME IInv, NEW t \in Thread, Answer(t) PROVE IInv'
<1>0. /\ th \in [Thread -> Request] /\ th[t].pc = "answer" /\ th[t].fd = -1
      /\ ThreadOK(th[t]) /\ HandleOf(th[t], handle) /\ th' = [th EXCEPT ![t] = Idle]
      /\ UNCHANGED <<names, fds, at, inodes>>
  BY DEF IInv, TypeOK, Request, ThreadsOK, ThreadOK, Answer
<1>i. /\ Idle \in Request /\ Idle.fd = -1 /\ Idle.h = None /\ Idle.op \notin Opening
      /\ ThreadOK(Idle)
  BY OKIsNoErrno DEF Idle, Request, Pc, Op, Opening, OnHandle, ThreadOK, OK
<1>t. \A u \in Thread : th'[u] = IF u = t THEN Idle ELSE th[u]
  BY <1>0
<1> DEFINE h == th[t].h
           HandleRecord == [state: {"free", "opening", "open"}, fh: Fd \cup {-1},
                            object: Object \cup {None}]
<1>h. handle \in [Handle -> HandleRecord]
  BY DEF IInv, TypeOK
<1>w. \/ th[t].op \notin Opening /\ handle' = handle
      \/ /\ th[t].op \in Opening /\ h \in Handle /\ th[t].ret = OK
         /\ handle[h].fh # -1 /\ handle' = [handle EXCEPT ![h].state = "open"]
      \/ /\ th[t].op \in Opening /\ h \in Handle /\ th[t].ret # OK
         /\ handle[h].fh = -1 /\ handle' = [handle EXCEPT ![h] = Shut]
  <2>1. CASE th[t].op \notin Opening
    BY <2>1 DEF Answer, Opening
  <2>2. CASE th[t].op \in Opening
    <3>1. h \in Handle /\ h # None
      BY <2>2, <1>0 DEF ThreadOK, Request
    <3>2. th[t].ret = OK => handle[h].fh # -1
      BY <2>2, <3>1, <1>0 DEF HandleOf, ThreadOK, Opening
    <3>3. th[t].ret # OK => handle[h].fh = -1
      BY <2>2, <3>1, <1>0 DEF HandleOf, Opening
    <3> QED BY <2>2, <3>1, <3>2, <3>3 DEF Answer, Opening
  <2> QED BY <2>1, <2>2
<1>g. /\ handle' \in [Handle -> HandleRecord]
      /\ \A g \in Handle : handle'[g].fh = handle[g].fh
      /\ \A g \in Handle : handle'[g].fh # -1 => handle'[g].object = handle[g].object
      /\ \A g \in Handle : handle'[g].state = "free" => handle'[g] = Shut
      /\ \A g \in Handle : handle'[g].state = "open" => handle'[g].fh # -1
      /\ \A g \in Handle : (th[t].op \in Opening => g # h) => handle'[g] = handle[g]
  <2>1. Shut \in HandleRecord /\ Shut.fh = -1 /\ Shut.state = "free"
    BY DEF Shut
  <2> QED BY <1>h, <1>w, <2>1 DEF IInv, HandlesOK
<1>1. TypeOK'
  BY <1>0, <1>i, <1>g DEF IInv, TypeOK, Request
<1>2. ThreadsOK'
  <2>1. ASSUME NEW u \in Thread PROVE ThreadOK(th'[u]) /\ HandleOf(th'[u], handle')
    <3>1. CASE u = t
      BY <3>1, <1>i, <1>t DEF HandleOf
    <3>2. CASE u # t
      <4>1. ThreadOK(th[u]) /\ HandleOf(th[u], handle) /\ th'[u] = th[u]
        BY <3>2, <1>t DEF IInv, ThreadsOK
      <4>2. th[t].op \in Opening => th[u].h # h
        BY <3>2 DEF IInv, ThreadsOK
      <4>3. th[u].h # None => handle'[th[u].h] = handle[th[u].h]
        BY <4>2, <1>0, <1>g DEF Request
      <4> QED BY <4>1, <4>3 DEF HandleOf
    <3> QED BY <3>1, <3>2
  <2>2. ASSUME NEW u \in Thread, NEW v \in Thread,
               th'[u].op \in Opening, th'[v].h = th'[u].h
        PROVE  v = u
    <3>1. u # t /\ th'[u] = th[u] /\ th[u].h # None
      BY <2>2, <1>i, <1>t DEF IInv, ThreadsOK, ThreadOK
    <3>2. v # t /\ th'[v] = th[v]
      BY <3>1, <2>2, <1>i, <1>t
    <3> QED BY <3>1, <3>2, <2>2 DEF IInv, ThreadsOK
  <2> QED BY <2>1, <2>2 DEF ThreadsOK
<1>3. HandlesOK'
  BY <1>0, <1>g DEF IInv, HandlesOK
<1>4. DescriptorsOK'
  <2>1. \A u \in Thread : th'[u].fd = th[u].fd
    BY <1>0, <1>i, <1>t
  <2> QED BY <2>1, <1>0, <1>g DEF IInv, DescriptorsOK
<1>5. TableOK'
  BY <1>0 DEF IInv, TableOK
<1> QED BY <1>1, <1>2, <1>3, <1>4, <1>5 DEF IInv

-----------------------------------------------------------------------------
(* The invariant of the program. *)

LEMMA InitHolds == Init => IInv
<1> SUFFICES ASSUME Init PROVE IInv
  OBVIOUS
<1>0. Idle \in Request /\ ThreadOK(Idle) /\ Idle.h = None /\ Idle.fd = -1 /\ Idle.op = "none"
  BY DEF Idle, Request, Pc, Op, Opening, OnHandle, ThreadOK, OK
<1>1. TypeOK
  BY <1>0 DEF Init, TypeOK, Request, Shut
<1>2. ThreadsOK
  BY <1>0 DEF Init, ThreadsOK, HandleOf, Opening
<1>3. HandlesOK
  BY DEF Init, HandlesOK, Shut
<1>4. DescriptorsOK
  BY <1>0 DEF Init, DescriptorsOK
<1>5. TableOK
  <2>1. inodes = 1..0
    BY DEF Init
  <2> QED BY <2>1 DEF TableOK
<1> QED BY <1>1, <1>2, <1>3, <1>4, <1>5 DEF IInv

LEMMA NextStep == IInv /\ [Next]_vars => IInv'
<1> SUFFICES ASSUME IInv, [Next]_vars PROVE IInv'
  OBVIOUS
<1>1. CASE UNCHANGED vars
  BY <1>1 DEF vars, world, IInv, TypeOK, ThreadsOK, HandlesOK, DescriptorsOK, TableOK
<1>2. ASSUME NEW t \in Thread, BbOper(t) PROVE IInv'
  <2>1. CASE BbReadWrite(t) \/ BbFtruncate(t) \/ BbFgetattr(t)
    <3>1. ASSUME NEW res \in SUBSET {OK, "EIO"}, HandleCall(t, Regular, res) PROVE IInv'
      BY <3>1, HandleCallStep DEF Errno
    <3> QED BY <2>1, <3>1 DEF BbReadWrite, BbFtruncate, BbFgetattr
  <2> QED BY <1>2, <2>1, PathStep, MknodStep, OpenStep, CreateStep, FlushStep, FsyncStep,
             ReaddirStep, ReleaseStep DEF BbOper
<1>3. ASSUME NEW t \in Thread, Continue(t) PROVE IInv'
  BY <1>3, MknodCloseStep, CreateFgetattrStep, CreateReleaseStep, AnswerStep DEF Continue
<1> QED BY <1>1, <1>2, <1>3 DEF Next

LEMMA InvariantHolds == Spec => []IInv
BY InitHolds, NextStep, PTL DEF Spec

(* The state keeps its type.                                               *)
THEOREM TypeCorrect == Spec => []TypeOK
<1>1. IInv => TypeOK
  BY DEF IInv
<1> QED BY <1>1, InvariantHolds, PTL

(* No descriptor is lost, whatever the order of the requests and their     *)
(* failures.                                                               *)
THEOREM DescriptorsOwnedHolds == Spec => []DescriptorsOwned
<1>1. IInv => DescriptorsOwned
  BY DEF IInv, DescriptorsOK, HandlesOK, DescriptorsOwned, Owns, Shut, Fd
<1> QED BY <1>1, InvariantHolds, PTL

(* An open handle keeps its object, for all that descriptors are reused.   *)
THEOREM HandleKeepsItsObjectHolds == Spec => []HandleKeepsItsObject
<1>1. ASSUME IInv PROVE HandleKeepsItsObject
  <2>1. ASSUME NEW h \in Handle, handle[h].state = "open"
        PROVE  /\ handle[h].fh \in Fd /\ handle[h].fh # -1 /\ handle[h].object # None
               /\ fds[handle[h].fh] = handle[h].object
    BY <1>1, <2>1 DEF IInv, TypeOK, HandlesOK
  <2>2. \A g, h \in Handle : handle[g].fh = handle[h].fh /\ handle[h].fh # -1 => g = h
    BY <1>1 DEF IInv, HandlesOK
  <2>3. \A h \in Handle, t \in Thread : handle[h].fh # -1 => th[t].fd # handle[h].fh
    BY <1>1 DEF IInv, DescriptorsOK
  <2> QED BY <2>1, <2>2, <2>3 DEF HandleKeepsItsObject, Held
<1> QED BY <1>1, InvariantHolds, PTL

(* Answers tell success from failure, and carry the host's errno.          *)
THEOREM AnswersTellHolds == Spec => []AnswersTell
<1>1. ASSUME IInv PROVE AnswersTell
  BY <1>1 DEF IInv, ThreadsOK, ThreadOK, Vague, AnswersTell
<1> QED BY <1>1, InvariantHolds, PTL

-----------------------------------------------------------------------------
(* BBFS implements MountedFS: each step of a callback is a step of the     *)
(* mounted file system or leaves it as it is.                              *)

Mapped == Mounted!MountedNext \/ UNCHANGED <<names, MountedOpened, MountedReplies>>

-----------------------------------------------------------------------------
(* What the mapping makes of a request. *)

LEMMA IdleMaps ==
  ASSUME IInv, NEW t \in Thread, Free(t)
  PROVE  MountedReplies[t] = Mounted!NoReply
BY DEF Free, MountedReplies, MountedReply, Succeeded, Opened, Mounted!NoReply

LEMMA PlainMaps ==
  ASSUME NEW t \in Thread, NEW r, PlainAnswer(r), th'[t] = r
  PROVE  MountedReply(t)' = IF r.host = OK THEN Mounted!Achieved(None, None) ELSE Mounted!NoReply
BY DEF PlainAnswer, OnHandle, MountedReply, Succeeded, Opened, Mounted!Achieved, Mounted!NoReply

(* The other requests keep what they have achieved if their descriptors    *)
(* are left alone.                                                         *)
LEMMA RepliesKept ==
  ASSUME IInv, NEW t \in Thread, NEW r, th' = [th EXCEPT ![t] = r],
         \A u \in Thread \ {t} :
           /\ th[u].pc = "close" => fds'[th[u].fd] = fds[th[u].fd]
           /\ th[u].op \in Opening =>
                DescriptorOf(handle[th[u].h].fh)' = DescriptorOf(handle[th[u].h].fh)
  PROVE  /\ MountedReplies' = [MountedReplies EXCEPT ![t] = MountedReply(t)']
         /\ th'[t] = r
<1>1. th'[t] = r /\ \A u \in Thread \ {t} : th'[u] = th[u]
  BY DEF IInv, TypeOK
<1>2. ASSUME NEW u \in Thread \ {t} PROVE MountedReply(u)' = MountedReply(u)
  BY <1>1 DEF MountedReply, Succeeded, Opened, Opening
<1>3. MountedReplies' = [u \in Thread |-> MountedReply(u)']
  BY DEF MountedReplies
<1>4. [MountedReplies EXCEPT ![t] = MountedReply(t)'] =
        [u \in Thread |-> IF u = t THEN MountedReply(t)' ELSE MountedReply(u)]
  BY DEF MountedReplies
<1> QED BY <1>1, <1>2, <1>3, <1>4

-----------------------------------------------------------------------------
(* Steps that leave handles and descriptors as they are. *)

LEMMA QuietMaps ==
  ASSUME IInv, NEW t \in Thread, NEW r, PlainAnswer(r), Free(t),
         th' = [th EXCEPT ![t] = r], UNCHANGED <<fds, handle>>
  PROVE  /\ MountedOpened' = MountedOpened
         /\ MountedReplies[t] = Mounted!NoReply
         /\ r.host = OK => MountedReplies' = [MountedReplies EXCEPT ![t] = Mounted!Achieved(None, None)]
         /\ r.host # OK => MountedReplies' = MountedReplies
<1>1. MountedOpened' = MountedOpened
  BY DEF MountedOpened, DescriptorOf
<1>2. MountedReplies' = [MountedReplies EXCEPT ![t] = MountedReply(t)'] /\ th'[t] = r
  <2>1. \A u \in Thread \ {t} :
          DescriptorOf(handle[th[u].h].fh)' = DescriptorOf(handle[th[u].h].fh)
    BY DEF DescriptorOf
  <2> QED BY <2>1, RepliesKept
<1>3. MountedReplies[t] = Mounted!NoReply
  BY IdleMaps
<1>4. MountedReplies = [MountedReplies EXCEPT ![t] = Mounted!NoReply]
  BY <1>3 DEF MountedReplies
<1> QED BY <1>1, <1>2, <1>3, <1>4, PlainMaps

LEMMA LookMaps ==
  ASSUME IInv, NEW t \in Thread, NEW r, PlainAnswer(r), Free(t),
         th' = [th EXCEPT ![t] = r], UNCHANGED <<fds, handle, names>>
  PROVE  Mapped
BY QuietMaps DEF Mapped, Mounted!MountedNext, Mounted!Look, Mounted!Achieves

LEMMA PathCallMaps ==
  ASSUME IInv, NEW t \in Thread, NEW n \in Name, NEW res \in SUBSET (Errno \cup {OK}),
         PathCall(t, n, res)
  PROVE  Mapped
<1>1. PICK q \in Named(n, res) : Answers(t, "path", None, q)
  BY DEF PathCall
<1>2. q \in Errno \cup {OK}
  BY <1>1 DEF Named, Errno
<1>3. PICK r : PlainAnswer(r) /\ r.h = None /\ th' = [th EXCEPT ![t] = r]
  BY <1>1, <1>2, AnswersGive
<1> QED BY <1>3, LookMaps DEF PathCall, world

(* A call that gives or takes names and fails.                             *)
LEMMA NameCallFails ==
  ASSUME IInv, NEW t \in Thread, NEW q \in Errno, NameCall(t, q)
  PROVE  Mapped
<1>1. PICK r : PlainAnswer(r) /\ th' = [th EXCEPT ![t] = r]
  BY AnswersGive DEF NameCall
<1> QED BY <1>1, LookMaps, OKIsNoErrno DEF NameCall

LEMMA NameCallSucceeds ==
  ASSUME IInv, NEW t \in Thread, NameCall(t, OK)
  PROVE  MountedOpened' = MountedOpened /\ Mounted!Achieves(t, None, None)
<1>1. PICK r : PlainAnswer(r) /\ r.host = OK /\ th' = [th EXCEPT ![t] = r]
  BY AnswersGive DEF NameCall
<1> QED BY <1>1, QuietMaps DEF NameCall, Mounted!Achieves

(* What no name and no descriptor has is fresh.                            *)
LEMMA FreshMaps ==
  ASSUME IInv, NEW o \in Object, Fresh(o)
  PROVE  Mounted!Fresh(o)
<1>1. \A f : DescriptorOf(f) # o
  BY BBFSAssumption DEF DescriptorOf, Fresh
<1>2. \A h \in Handle : MountedOpened[h] # o
  BY <1>1, BBFSAssumption DEF MountedOpened
<1>3. ASSUME NEW t \in Thread PROVE MountedReplies[t].object # o
  <2>1. th[t].pc = "close" => th[t].fd \in Fd
    BY DEF IInv, TypeOK, ThreadsOK, ThreadOK
  <2> QED BY <1>1, <2>1, BBFSAssumption DEF MountedReplies, MountedReply, Fresh
<1> QED BY <1>2, <1>3 DEF Fresh, Mounted!Fresh

LEMMA MakesMaps ==
  ASSUME IInv, NEW t \in Thread, NEW n \in Name, NEW kind \in SUBSET (Directory \cup Other),
         Makes(t, n, kind)
  PROVE  Mapped
<1>1. CASE NameCall(t, "EEXIST")
  BY <1>1, NameCallFails DEF Errno
<1>2. ASSUME NEW o \in kind, names[n] = None, Fresh(o), Put(n, o), NameCall(t, OK)
      PROVE  Mapped
  <2>1. Mounted!Fresh(o)
    BY <1>2, FreshMaps DEF Object
  <2>2. Mounted!Put(n, o) /\ Mounted!Achieves(t, None, None)
    BY <1>2, NameCallSucceeds DEF Put, Mounted!Put
  <2> QED BY <1>2, <2>1, <2>2 DEF Mapped, Mounted!MountedNext, Mounted!Make
<1> QED BY <1>1, <1>2 DEF Makes

LEMMA RemovalMaps ==
  ASSUME IInv, NEW t \in Thread, BbUnlink(t) \/ BbRmdir(t) PROVE Mapped
<1>1. PICK n \in Name :
        \/ \E q \in {"ENOENT", "EISDIR", "ENOTDIR"} : NameCall(t, q)
        \/ names[n] \in Object /\ Put(n, None) /\ NameCall(t, OK)
  BY DEF BbUnlink, BbRmdir, Object
<1>2. CASE \E q \in {"ENOENT", "EISDIR", "ENOTDIR"} : NameCall(t, q)
  BY <1>2, NameCallFails DEF Errno
<1>3. CASE names[n] \in Object /\ Put(n, None) /\ NameCall(t, OK)
  <2>1. Mounted!Put(n, None) /\ Mounted!Achieves(t, None, None) /\ names[n] # None
    BY <1>3, NameCallSucceeds, BBFSAssumption DEF Put, Mounted!Put
  <2> QED BY <2>1 DEF Mapped, Mounted!MountedNext, Mounted!Remove
<1> QED BY <1>1, <1>2, <1>3

LEMMA RenameMaps ==
  ASSUME IInv, NEW t \in Thread, BbRename(t) PROVE Mapped
<1>1. PICK n \in Name, m \in Name :
        \/ \E q \in {"ENOENT", "EISDIR", "ENOTDIR"} : NameCall(t, q)
        \/ /\ names[n] # None
           /\ names[m] # None => (IsDir(m) <=> IsDir(n))
           /\ names' = IF names[n] = names[m] THEN names
                       ELSE [names EXCEPT ![m] = names[n], ![n] = None]
           /\ NameCall(t, OK)
  BY DEF BbRename
<1>2. CASE \E q \in {"ENOENT", "EISDIR", "ENOTDIR"} : NameCall(t, q)
  BY <1>2, NameCallFails DEF Errno
<1>3. CASE /\ names[n] # None
           /\ names[m] # None => (IsDir(m) <=> IsDir(n))
           /\ names' = IF names[n] = names[m] THEN names
                       ELSE [names EXCEPT ![m] = names[n], ![n] = None]
           /\ NameCall(t, OK)
  <2>1. MountedOpened' = MountedOpened /\ Mounted!Achieves(t, None, None)
    BY <1>3, NameCallSucceeds
  <2>2. /\ names[m] # None => (names[m] \in Directory <=> names[n] \in Directory)
        /\ names' = Mounted!Renamed(n, m)
    BY <1>3 DEF IsDir, Mounted!Renamed
  <2> QED BY <1>3, <2>1, <2>2 DEF Mapped, Mounted!MountedNext, Mounted!Rename
<1> QED BY <1>1, <1>2, <1>3

LEMMA LinkMaps ==
  ASSUME IInv, NEW t \in Thread, BbLink(t) PROVE Mapped
<1>1. PICK n \in Name, m \in Name :
        \/ \E q \in {"ENOENT", "EEXIST", "EPERM"} : NameCall(t, q)
        \/ /\ names[m] = None /\ names[n] \in Regular \cup Other
           /\ Put(m, names[n]) /\ NameCall(t, OK)
  BY DEF BbLink
<1>2. CASE \E q \in {"ENOENT", "EEXIST", "EPERM"} : NameCall(t, q)
  BY <1>2, NameCallFails DEF Errno
<1>3. CASE /\ names[m] = None /\ names[n] \in Regular \cup Other
           /\ Put(m, names[n]) /\ NameCall(t, OK)
  <2>1. Mounted!Put(m, names[n]) /\ Mounted!Achieves(t, None, None)
    BY <1>3, NameCallSucceeds DEF Put, Mounted!Put
  <2> QED BY <1>3, <2>1 DEF Mapped, Mounted!MountedNext, Mounted!Link
<1> QED BY <1>1, <1>2, <1>3

LEMMA TruncateMaps ==
  ASSUME IInv, NEW t \in Thread, BbTruncate(t) PROVE Mapped
<1>1. PICK q \in Errno \cup {OK} : AnswersMinusOne(t, "truncate", None, q)
  BY DEF BbTruncate, Named, Errno
<1>2. PICK r : PlainAnswer(r) /\ th' = [th EXCEPT ![t] = r]
  BY <1>1, MinusOneGives
<1> QED BY <1>2, LookMaps DEF BbTruncate, world

-----------------------------------------------------------------------------
(* Steps that take or give up descriptors: all but one descriptor, lost,   *)
(* keep what they are open on.                                             *)

KeptBut(lost) == \A g \in Fd \ {lost} : fds[g] # None => fds'[g] = fds[g]

(* No other request than that of t is concerned.                           *)
Apart(t, lost) == \A u \in Thread \ {t} :
  /\ lost \in Fd => th[u].fd # lost
  /\ th[u].op \in Opening =>
       /\ handle'[th[u].h].fh = handle[th[u].h].fh
       /\ lost \in Fd => handle[th[u].h].fh # lost

LEMMA OthersKept ==
  ASSUME IInv, NEW t \in Thread, NEW r, th' = [th EXCEPT ![t] = r],
         NEW lost, KeptBut(lost), Apart(t, lost)
  PROVE  /\ MountedReplies' = [MountedReplies EXCEPT ![t] = MountedReply(t)']
         /\ th'[t] = r
<1>1. ASSUME NEW u \in Thread \ {t}, th[u].pc = "close" PROVE fds'[th[u].fd] = fds[th[u].fd]
  <2>1. th[u].fd \in Fd /\ fds[th[u].fd] # None /\ th[u].fd # lost
    BY <1>1 DEF IInv, TypeOK, ThreadsOK, ThreadOK, DescriptorsOK, Apart
  <2> QED BY <2>1 DEF KeptBut
<1>2. ASSUME NEW u \in Thread \ {t}, th[u].op \in Opening
      PROVE  DescriptorOf(handle[th[u].h].fh)' = DescriptorOf(handle[th[u].h].fh)
  <2>1. th[u].h \in Handle
    BY <1>2 DEF IInv, TypeOK, ThreadsOK, ThreadOK
  <2>2. handle[th[u].h].fh \in Fd =>
          fds[handle[th[u].h].fh] # None /\ handle[th[u].h].fh # lost
    BY <1>2, <2>1 DEF IInv, HandlesOK, Apart, Fd
  <2> QED BY <1>2, <2>2 DEF DescriptorOf, KeptBut, Apart
<1> QED BY <1>1, <1>2, RepliesKept

LEMMA OpenedKept ==
  ASSUME IInv, NEW g \in Handle, NEW lost, KeptBut(lost),
         handle'[g].state = "open" <=> handle[g].state = "open",
         handle[g].state = "open" => handle'[g].fh = handle[g].fh /\ handle[g].fh # lost
  PROVE  MountedOpened'[g] = MountedOpened[g]
<1>1. CASE handle[g].state = "open"
  <2>1. handle[g].fh \in Fd /\ fds[handle[g].fh] # None
    BY <1>1 DEF IInv, TypeOK, HandlesOK
  <2>2. handle'[g].fh = handle[g].fh /\ fds'[handle[g].fh] = fds[handle[g].fh]
    BY <1>1, <2>1 DEF KeptBut
  <2> QED BY <1>1, <2>1, <2>2 DEF MountedOpened, DescriptorOf
<1>2. CASE handle[g].state # "open"
  BY <1>2 DEF MountedOpened
<1> QED BY <1>1, <1>2

LEMMA MknodOpenMaps ==
  ASSUME IInv, NEW t \in Thread, NEW n \in Name, NEW f \in Fd, NEW o \in Regular,
         Free(t), names[n] = None, Fresh(o), Put(n, o), Takes(f, o), UNCHANGED handle,
         th' = [th EXCEPT ![t] = [Idle EXCEPT !.pc = "close", !.op = "mknod", !.fd = f]]
  PROVE  Mapped
<1> DEFINE r == [Idle EXCEPT !.pc = "close", !.op = "mknod", !.fd = f]
<1>1. /\ fds[f] = None /\ fds' = [fds EXCEPT ![f] = o] /\ fds'[f] = o
      /\ KeptBut(-1)
  BY DEF Takes, LowestFree, IInv, TypeOK, KeptBut
<1>2. MountedReplies' = [MountedReplies EXCEPT ![t] = MountedReply(t)'] /\ th'[t] = r
  <2>1. th' = [th EXCEPT ![t] = r]
    OBVIOUS
  <2> HIDE DEF r
  <2>2. Apart(t, -1)
    BY DEF Apart, Fd
  <2> QED BY <1>1, <2>1, <2>2, OthersKept
<1>3. MountedReply(t)' = Mounted!Achieved(None, o)
  <2>0. r.pc = "close" /\ r.fd = f
    BY DEF Idle
  <2> HIDE DEF r
  <2>1. th'[t].pc = "close" /\ th'[t].fd = f
    BY <1>2, <2>0
  <2> QED BY <1>1, <2>1 DEF MountedReply, Succeeded, Opened, Mounted!Achieved
<1>4. MountedReplies[t] = Mounted!NoReply
  BY IdleMaps
<1>5. MountedOpened' = MountedOpened
  <2>1. \A g \in Handle : MountedOpened'[g] = MountedOpened[g]
    BY <1>1, OpenedKept DEF IInv, HandlesOK
  <2> QED BY <2>1 DEF MountedOpened
<1>6. Mounted!Fresh(o)
  BY FreshMaps DEF Object
<1>7. Mounted!Put(n, o) /\ Mounted!Achieves(t, None, o)
  BY <1>2, <1>3, <1>4, <1>5 DEF Put, Mounted!Put, Mounted!Achieves
<1> QED BY <1>6, <1>7 DEF Mapped, Mounted!MountedNext, Mounted!MakeFile

LEMMA MknodMaps ==
  ASSUME IInv, NEW t \in Thread, BbMknod(t) PROVE Mapped
<1>1. PICK n \in Name :
        \/ Makes(t, n, Other)
        \/ NameCall(t, "EMFILE") \/ NameCall(t, "EEXIST")
        \/ \E f \in Fd, o \in Regular :
             /\ Free(t) /\ names[n] = None /\ Fresh(o)
             /\ Put(n, o) /\ Takes(f, o) /\ UNCHANGED <<handle, inodes>>
             /\ th' = [th EXCEPT ![t] = [Idle EXCEPT !.pc = "close", !.op = "mknod", !.fd = f]]
  BY DEF BbMknod
<1>2. CASE Makes(t, n, Other)
  BY <1>2, MakesMaps
<1>3. CASE NameCall(t, "EMFILE") \/ NameCall(t, "EEXIST")
  BY <1>3, NameCallFails DEF Errno
<1> QED BY <1>1, <1>2, <1>3, MknodOpenMaps

(* Until the close the file is open by no handle; after it, it is a file   *)
(* that was made, or one that is there for all that the caller is told.    *)
LEMMA MknodCloseMaps ==
  ASSUME IInv, NEW t \in Thread, BbMknodClose(t) PROVE Mapped
<1>1. PICK q \in {OK, "EIO"} : Answers(t, "path", None, q)
  BY DEF BbMknodClose
<1>2. PICK r : PlainAnswer(r) /\ r.host = q /\ th' = [th EXCEPT ![t] = r]
  <2>1. q \in Errno \cup {OK}
    BY DEF Errno
  <2> QED BY <1>1, <2>1, AnswersGive
<1> DEFINE f == th[t].fd
<1>3. /\ f \in Fd /\ f # -1 /\ fds[f] \in Object /\ th[t].pc = "close"
      /\ KeptBut(f) /\ UNCHANGED <<names, handle>>
  BY DEF IInv, TypeOK, ThreadsOK, ThreadOK, DescriptorsOK, BbMknodClose, Closes, KeptBut
<1>4. \A u \in Thread \ {t} : th[u].fd # f
  BY <1>3 DEF IInv, DescriptorsOK
<1>5. \A g \in Handle : handle[g].fh # f
  BY <1>3 DEF IInv, DescriptorsOK
<1>6. MountedReplies' = [MountedReplies EXCEPT ![t] = MountedReply(t)'] /\ th'[t] = r
  <2>1. \A u \in Thread \ {t} : th[u].op \in Opening => th[u].h \in Handle
    BY DEF IInv, TypeOK, ThreadsOK, ThreadOK
  <2>2. Apart(t, f)
    BY <2>1, <1>3, <1>4, <1>5 DEF Apart
  <2>3. th' = [th EXCEPT ![t] = r]
    BY <1>2
  <2> HIDE DEF f
  <2> QED BY <1>3, <2>2, <2>3, OthersKept
<1>7. MountedOpened' = MountedOpened
  <2>1. \A g \in Handle : MountedOpened'[g] = MountedOpened[g]
    BY <1>3, <1>5, OpenedKept
  <2> QED BY <2>1 DEF MountedOpened
<1>8. MountedReplies[t] = Mounted!Achieved(None, fds[f])
  BY <1>3 DEF MountedReplies, MountedReply, Succeeded, Opened, Mounted!Achieved
<1>9. Mounted!Making(t) /\ MountedReplies[t].handle = None
  BY <1>3, <1>8, BBFSAssumption DEF Mounted!Making, Mounted!Achieved
<1>10. CASE q = OK
  <2>1. Mounted!Settle(t)
    BY <1>2, <1>3, <1>6, <1>7, <1>9, <1>10, PlainMaps DEF Mounted!Settle
  <2> QED BY <2>1 DEF Mapped, Mounted!MountedNext
<1>11. CASE q # OK
  <2>1. Mounted!SettleFails(t)
    BY <1>2, <1>3, <1>6, <1>7, <1>9, <1>11, PlainMaps DEF Mounted!SettleFails
  <2> QED BY <2>1 DEF Mapped, Mounted!MountedNext
<1> QED BY <1>10, <1>11

-----------------------------------------------------------------------------
(* Steps that take a handle. *)

(* No request is on a handle that is free.                                 *)
LEMMA FreeHandle ==
  ASSUME IInv, NEW h \in Handle, handle[h].state = "free", NEW u \in Thread
  PROVE  th[u].h # h
<1>1. ThreadOK(th[u]) /\ HandleOf(th[u], handle)
  BY DEF IInv, ThreadsOK
<1> QED BY <1>1, BBFSAssumption DEF HandleOf, ThreadOK, Opening, OnHandle

LEMMA OpeningMaps ==
  ASSUME IInv, NEW t \in Thread, NEW h \in Handle, NEW r, NEW fd, NEW o,
         th' = [th EXCEPT ![t] = r], handle[h].state = "free",
         handle' = [handle EXCEPT ![h] = [state |-> "opening", fh |-> fd, object |-> o]],
         KeptBut(-1)
  PROVE  /\ MountedOpened' = MountedOpened
         /\ MountedReplies' = [MountedReplies EXCEPT ![t] = MountedReply(t)']
         /\ th'[t] = r
<1>1. /\ handle'[h].state = "opening"
      /\ \A g \in Handle \ {h} : handle'[g] = handle[g]
  BY DEF IInv, TypeOK
<1>2. ASSUME NEW u \in Thread \ {t}, th[u].op \in Opening
      PROVE  handle'[th[u].h].fh = handle[th[u].h].fh
  <2>1. th[u].h \in Handle \ {h}
    BY <1>2, FreeHandle DEF IInv, TypeOK, ThreadsOK, ThreadOK
  <2> QED BY <2>1, <1>1
<1>3. Apart(t, -1)
  BY <1>2 DEF Apart, Fd
<1>4. ASSUME NEW g \in Handle PROVE MountedOpened'[g] = MountedOpened[g]
  <2>1. handle[g].state = "open" => handle'[g].fh = handle[g].fh /\ handle[g].fh # -1
    BY <1>1 DEF IInv, HandlesOK
  <2>2. handle'[g].state = "open" <=> handle[g].state = "open"
    BY <1>1
  <2> QED BY <2>1, <2>2, OpenedKept
<1>5. MountedOpened' = MountedOpened
  BY <1>4 DEF MountedOpened
<1> QED BY <1>3, <1>5, OthersKept

LEMMA OpenFailsMaps ==
  ASSUME IInv, NEW t \in Thread, NEW h \in Handle, NEW q \in Errno,
         OpenFails(t, "open", h, q)
  PROVE  Mapped
<1>1. /\ Free(t) /\ handle[h].state = "free" /\ UNCHANGED <<names, fds>>
      /\ handle' = [handle EXCEPT ![h] = [state |-> "opening", fh |-> -1, object |-> None]]
      /\ Answers(t, "open", h, q)
  BY DEF OpenFails, Opens
<1>2. PICK r : r.host = q /\ r.pc = "answer" /\ th' = [th EXCEPT ![t] = r]
  BY <1>1, OpenAnswersGive
<1>3. /\ MountedOpened' = MountedOpened
      /\ MountedReplies' = [MountedReplies EXCEPT ![t] = MountedReply(t)']
      /\ th'[t] = r
  BY <1>1, <1>2, OpeningMaps DEF KeptBut
<1>4. MountedReply(t)' = Mounted!NoReply
  BY <1>2, <1>3, OKIsNoErrno DEF MountedReply, Succeeded, Opened, Mounted!NoReply
<1>5. MountedReplies' = MountedReplies
  BY <1>1, <1>3, <1>4, IdleMaps DEF MountedReplies
<1> QED BY <1>1, <1>3, <1>5 DEF Mapped

LEMMA OpenSucceedsMaps ==
  ASSUME IInv, NEW t \in Thread, NEW h \in Handle, NEW n \in Name,
         names[n] \in Object, OpenSucceeds(t, "open", h, n)
  PROVE  Mapped
<1>1. PICK f \in Fd : Takes(f, names[n]) /\ Opens(t, "open", h, f, names[n], OK)
  BY DEF OpenSucceeds
<1>2. /\ Free(t) /\ handle[h].state = "free" /\ UNCHANGED names
      /\ handle' = [handle EXCEPT ![h] = [state |-> "opening", fh |-> f, object |-> names[n]]]
      /\ Answers(t, "open", h, OK)
  BY <1>1 DEF Opens
<1>3. PICK r : /\ r.host = OK /\ r.pc = "answer" /\ r.op = "open" /\ r.h = h
               /\ th' = [th EXCEPT ![t] = r]
  BY <1>2, OpenAnswersGive
<1>4. fds[f] = None /\ fds'[f] = names[n] /\ KeptBut(-1)
  BY <1>1 DEF Takes, LowestFree, IInv, TypeOK, KeptBut
<1>5. /\ MountedOpened' = MountedOpened
      /\ MountedReplies' = [MountedReplies EXCEPT ![t] = MountedReply(t)']
      /\ th'[t] = r
  BY <1>2, <1>3, <1>4, OpeningMaps
<1>6. handle'[h].fh = f
  BY <1>2 DEF IInv, TypeOK
<1>7. MountedReply(t)' = Mounted!Achieved(h, names[n])
  BY <1>3, <1>4, <1>5, <1>6
  DEF MountedReply, Succeeded, Opened, DescriptorOf, Mounted!Achieved
<1>8. Mounted!Achieves(t, h, names[n])
  BY <1>2, <1>5, <1>7, IdleMaps DEF Mounted!Achieves
<1>9. MountedOpened[h] = None
  BY <1>2 DEF MountedOpened
<1>10. ASSUME NEW u \in Thread PROVE MountedReplies[u].handle # h
  BY <1>2, FreeHandle, BBFSAssumption DEF MountedReplies, MountedReply
<1>11. names[n] # None
  BY BBFSAssumption
<1> QED BY <1>2, <1>5, <1>8, <1>9, <1>10, <1>11 DEF Mapped, Mounted!MountedNext, Mounted!Open

LEMMA OpenMaps ==
  ASSUME IInv, NEW t \in Thread, BbOpen(t) \/ BbOpendir(t) PROVE Mapped
<1>1. PICK n \in Name, h \in Handle :
        \/ \E q \in {"EMFILE", "ENOENT", "EISDIR", "EACCES", "ENOTDIR"} :
             OpenFails(t, "open", h, q)
        \/ names[n] \in Object /\ OpenSucceeds(t, "open", h, n)
  BY DEF BbOpen, BbOpendir, Object, IsDir
<1> QED BY <1>1, OpenFailsMaps, OpenSucceedsMaps DEF Errno

(* A create achieves nothing.                                              *)
LEMMA CreateMaps ==
  ASSUME IInv, NEW t \in Thread, BbCreate(t) PROVE Mapped
<1>1. MyCreat(inodes).fd = -1
  BY MyCreatFails DEF IInv
<1> DEFINE Started(h, ret) ==
             [pc |-> IF ret = OK THEN "fgetattr" ELSE "answer", op |-> "create", h |-> h,
              fd |-> -1, host |-> IF MyCreat(inodes).fd < 0 THEN "ENOENT" ELSE OK, ret |-> ret]
<1>2. PICK h, r :
        /\ h \in Handle /\ Free(t) /\ handle[h].state = "free" /\ UNCHANGED <<names, fds>>
        /\ handle' = [handle EXCEPT ![h] = [state |-> "opening", fh |-> -1, object |-> None]]
        /\ r.host = "ENOENT" /\ r.pc # "close" /\ th' = [th EXCEPT ![t] = r]
  <2>1. PICK h, ret :
          /\ h \in Handle /\ Free(t) /\ handle[h].state = "free" /\ UNCHANGED <<names, fds>>
          /\ handle' = [handle EXCEPT ![h] =
               [state |-> "opening", fh |-> MyCreat(inodes).fd, object |-> None]]
          /\ th' = [th EXCEPT ![t] = Started(h, ret)]
    BY DEF BbCreate
  <2>2. Started(h, ret).host = "ENOENT" /\ Started(h, ret).pc # "close"
    BY <1>1
  <2> QED BY <1>1, <2>1, <2>2
<1>3. /\ MountedOpened' = MountedOpened
      /\ MountedReplies' = [MountedReplies EXCEPT ![t] = MountedReply(t)']
      /\ th'[t] = r
  BY <1>2, OpeningMaps DEF KeptBut
<1>4. MountedReply(t)' = Mounted!NoReply
  BY <1>2, <1>3 DEF MountedReply, Succeeded, Opened, Mounted!NoReply, OK
<1>5. MountedReplies' = MountedReplies
  BY <1>2, <1>3, <1>4, IdleMaps DEF MountedReplies
<1> QED BY <1>2, <1>3, <1>5 DEF Mapped

LEMMA CreateGoesOnMaps ==
  ASSUME IInv, NEW t \in Thread, CreateFgetattr(t) \/ CreateRelease(t) PROVE Mapped
<1>0. /\ ThreadOK(th[t]) /\ HandleOf(th[t], handle) /\ th[t].op = "create"
      /\ th[t].pc \in {"fgetattr", "release"} /\ th[t].h \in Handle /\ th[t].h # None
      /\ handle[th[t].h].fh = -1
  BY DEF IInv, TypeOK, ThreadsOK, CreateFgetattr, CreateRelease, ThreadOK, HandleOf, Opening
<1>1. PICK r : r.host # OK /\ r.pc # "close" /\ th' = [th EXCEPT ![t] = r]
  <2>1. CASE CreateFgetattr(t)
    <3>1. ~Held(th[t].h)
      BY <1>0 DEF Held, Fd
    <3>2. th' = [th EXCEPT ![t] = [th[t] EXCEPT !.pc = "release", !.host = "EBADF",
                                                !.ret = "EBADF"]]
      BY <2>1, <3>1 DEF CreateFgetattr, BbError
    <3> QED BY <3>2, <1>0 DEF IInv, TypeOK, OK
  <2>2. CASE CreateRelease(t)
    <3>1. th' = [th EXCEPT ![t] = [th[t] EXCEPT !.pc = "answer"]] /\ th[t].host # OK
      BY <2>2, <1>0 DEF CreateRelease, ThreadOK
    <3> QED BY <3>1, <1>0 DEF IInv, TypeOK
  <2> QED BY <2>1, <2>2
<1>2. UNCHANGED <<names, fds, handle>>
  <2>1. CASE CreateFgetattr(t)
    BY <2>1 DEF CreateFgetattr, world
  <2>2. CASE CreateRelease(t)
    BY <2>2, <1>0 DEF CreateRelease, Closes, IInv, TypeOK, Fd
  <2> QED BY <2>1, <2>2
<1>3. MountedReplies' = [MountedReplies EXCEPT ![t] = MountedReply(t)'] /\ th'[t] = r
  <2>1. Apart(t, -1) /\ KeptBut(-1)
    BY <1>2 DEF Apart, KeptBut, Fd
  <2> QED BY <1>1, <2>1, OthersKept
<1>4. MountedReply(t)' = Mounted!NoReply
  BY <1>1, <1>3 DEF MountedReply, Succeeded, Opened, Mounted!NoReply
<1>5. MountedReplies[t] = Mounted!NoReply
  BY <1>0 DEF MountedReplies, MountedReply, Succeeded, Opened, Mounted!NoReply
<1>6. MountedReplies' = MountedReplies
  BY <1>3, <1>4, <1>5 DEF MountedReplies
<1>7. MountedOpened' = MountedOpened
  BY <1>2 DEF MountedOpened, DescriptorOf
<1> QED BY <1>2, <1>6, <1>7 DEF Mapped

-----------------------------------------------------------------------------
(* Steps on an open handle. *)

LEMMA HandleCallMaps ==
  ASSUME IInv, NEW t \in Thread, NEW kind, NEW res \in SUBSET (Errno \cup {OK}),
         HandleCall(t, kind, res)
  PROVE  Mapped
<1>1. PICK h \in Handle :
        /\ Free(t) /\ UNCHANGED world
        /\ \E q \in IF Held(h) THEN res ELSE {"EBADF"} : Answers(t, "handle", h, q)
  BY DEF HandleCall
<1>2. PICK q \in Errno \cup {OK} : Answers(t, "handle", h, q)
  BY <1>1 DEF Errno
<1>3. PICK r : PlainAnswer(r) /\ r.h = h /\ th' = [th EXCEPT ![t] = r]
  BY <1>2, AnswersGive
<1> QED BY <1>1, <1>3, LookMaps DEF world

LEMMA FlushMaps ==
  ASSUME IInv, NEW t \in Thread, BbFlush(t) \/ BbFsyncdir(t) PROVE Mapped
<1>1. PICK h \in Handle : Free(t) /\ UNCHANGED world /\ Answers(t, "handle", h, OK)
  BY DEF BbFlush, BbFsyncdir
<1>2. PICK r : PlainAnswer(r) /\ r.h = h /\ th' = [th EXCEPT ![t] = r]
  BY <1>1, AnswersGive
<1> QED BY <1>1, <1>2, LookMaps DEF world

LEMMA FsyncMaps ==
  ASSUME IInv, NEW t \in Thread, BbFsync(t) PROVE Mapped
<1>1. PICK h \in Handle :
        /\ Free(t) /\ UNCHANGED world
        /\ \E q \in Errno \cup {OK} : AnswersMinusOne(t, "fsync", h, q)
  BY DEF BbFsync, Errno
<1>2. PICK r : PlainAnswer(r) /\ r.h = h /\ th' = [th EXCEPT ![t] = r]
  BY <1>1, MinusOneGives
<1> QED BY <1>1, <1>2, LookMaps DEF world

LEMMA ReaddirMaps ==
  ASSUME IInv, NEW t \in Thread, BbReaddir(t) PROVE Mapped
<1>1. PICK h \in Handle, q \in Errno \cup {OK}, e \in Errno \cup {OK} :
        /\ Free(t) /\ UNCHANGED <<names, fds, handle>> /\ Replies(t, "readdir", h, q, e)
  BY ReaddirGives DEF BbReaddir
<1> DEFINE r == [pc |-> "answer", op |-> "readdir", h |-> h, fd |-> -1, host |-> q, ret |-> e]
<1>2. th' = [th EXCEPT ![t] = r]
  BY <1>1 DEF Replies
<1>3. PlainAnswer(r)
  BY BBFSAssumption DEF PlainAnswer, Request, Pc, Op, ThreadOK, Vague, Idle, Opening, OnHandle
<1> HIDE DEF r
<1> QED BY <1>1, <1>2, <1>3, LookMaps

LEMMA ReleaseMaps ==
  ASSUME IInv, NEW t \in Thread, BbRelease(t) \/ BbReleasedir(t) PROVE Mapped
<1>1. PICK h \in Handle :
        /\ Free(t) /\ handle[h].state = "open" /\ \A u \in Thread : th[u].h # h
        /\ Closes(handle[h].fh) /\ handle' = [handle EXCEPT ![h] = Shut]
        /\ UNCHANGED names
        /\ \E r : PlainAnswer(r) /\ r.h = None /\ th' = [th EXCEPT ![t] = r]
  BY ReleaseGives
<1>2. PICK r : PlainAnswer(r) /\ r.h = None /\ th' = [th EXCEPT ![t] = r]
  BY <1>1
<1> DEFINE f == handle[h].fh
<1>3. /\ f \in Fd /\ fds[f] \in Object
      /\ \A g \in Handle \ {h} : handle'[g] = handle[g] /\ handle[g].fh # f
      /\ handle'[h].state = "free" /\ KeptBut(f)
  <2>1. f \in Fd /\ fds[f] \in Object
    BY <1>1 DEF IInv, TypeOK, HandlesOK
  <2>2. \A g \in Handle \ {h} : handle'[g] = handle[g]
    BY <1>1 DEF IInv, TypeOK
  <2>3. \A g \in Handle \ {h} : handle[g].fh # f
    BY <1>1 DEF IInv, HandlesOK
  <2>4. handle'[h].state = "free"
    BY <1>1 DEF IInv, TypeOK, Shut
  <2>5. KeptBut(f)
    BY <1>1 DEF Closes, KeptBut
  <2> QED BY <2>1, <2>2, <2>3, <2>4, <2>5
<1>4. MountedReplies' = [MountedReplies EXCEPT ![t] = MountedReply(t)'] /\ th'[t] = r
  <2>1. \A u \in Thread : th[u].op \in Opening => th[u].h \in Handle \ {h}
    BY <1>1 DEF IInv, TypeOK, ThreadsOK, ThreadOK
  <2>2. \A u \in Thread : th[u].fd # f
    BY <1>3 DEF IInv, DescriptorsOK, Fd
  <2>3. Apart(t, f)
    BY <2>1, <2>2, <1>3 DEF Apart
  <2> HIDE DEF f
  <2> QED BY <2>3, <1>2, <1>3, OthersKept
<1>5. MountedReplies[t] = Mounted!NoReply
  BY <1>1, IdleMaps
<1>6. MountedOpened[h] # None
  BY <1>1, <1>3, BBFSAssumption DEF MountedOpened, DescriptorOf
<1>7. MountedOpened' = [MountedOpened EXCEPT ![h] = None]
  <2>1. \A g \in Handle \ {h} : MountedOpened'[g] = MountedOpened[g]
    BY <1>3, OpenedKept
  <2>2. MountedOpened'[h] = None
    BY <1>3 DEF MountedOpened
  <2> QED BY <2>1, <2>2 DEF MountedOpened
<1>8. CASE r.host = OK
  <2>1. MountedReply(t)' = Mounted!Achieved(None, None)
    BY <1>2, <1>4, <1>8, PlainMaps
  <2>2. Mounted!Achieves(t, None, None)
    BY <1>4, <1>5, <2>1 DEF Mounted!Achieves
  <2> QED BY <1>1, <1>6, <1>7, <2>2 DEF Mapped, Mounted!MountedNext, Mounted!Release
<1>9. CASE r.host # OK
  <2>1. MountedReply(t)' = Mounted!NoReply
    BY <1>2, <1>4, <1>9, PlainMaps
  <2>2. MountedReplies' = MountedReplies
    BY <1>4, <1>5, <2>1 DEF MountedReplies
  <2> QED BY <1>1, <1>5, <1>6, <1>7, <2>2 DEF Mapped, Mounted!MountedNext, Mounted!ReleaseFails
<1> QED BY <1>8, <1>9

-----------------------------------------------------------------------------
(* The answer: an open comes to count as one. *)

LEMMA AnswerMaps ==
  ASSUME IInv, NEW t \in Thread, Answer(t) PROVE Mapped
<1>0. /\ th[t].pc = "answer" /\ ThreadOK(th[t]) /\ HandleOf(th[t], handle)
      /\ th' = [th EXCEPT ![t] = Idle] /\ UNCHANGED <<names, fds>>
  BY DEF IInv, ThreadsOK, Answer
<1>1. ASSUME NEW g \in Handle PROVE handle'[g].fh = handle[g].fh
  <2>1. CASE th[t].op \in Opening /\ th[t].ret # OK
    <3>1. th[t].h \in Handle /\ handle[th[t].h].fh = -1
      BY <1>0, <2>1 DEF IInv, TypeOK, ThreadOK, HandleOf, Opening
    <3> QED BY <2>1, <3>1 DEF Answer, Opening, Shut, IInv, TypeOK
  <2>2. CASE ~(th[t].op \in Opening /\ th[t].ret # OK)
    BY <2>2 DEF Answer, Opening, IInv, TypeOK
  <2> QED BY <2>1, <2>2
<1>2. MountedReplies' = [MountedReplies EXCEPT ![t] = MountedReply(t)'] /\ th'[t] = Idle
  <2>1. \A u \in Thread : th[u].op \in Opening => th[u].h \in Handle
    BY DEF IInv, TypeOK, ThreadsOK, ThreadOK
  <2>2. Apart(t, -1) /\ KeptBut(-1)
    BY <1>0, <1>1, <2>1 DEF Apart, KeptBut, Fd
  <2> QED BY <1>0, <2>2, OthersKept
<1>3. MountedReply(t)' = Mounted!NoReply
  <2>1. th'[t].pc = "idle"
    BY <1>2 DEF Idle
  <2> QED BY <2>1 DEF MountedReply, Succeeded, Opened, Mounted!NoReply
<1>4. CASE th[t].host = OK /\ th[t].op = "open"
  <2> DEFINE h == th[t].h
  <2>1. h \in Handle /\ h # None /\ th[t].ret = OK /\ handle[h].state = "opening"
    BY <1>0, <1>4 DEF IInv, TypeOK, ThreadOK, HandleOf, Opening
  <2>2. handle' = [handle EXCEPT ![h].state = "open"]
    BY <1>4, <2>1 DEF Answer
  <2>3. /\ MountedReplies[t].done /\ MountedReplies[t].handle = h
        /\ MountedReplies[t].object = DescriptorOf(handle[h].fh)
    BY <1>0, <1>4 DEF MountedReplies, MountedReply, Succeeded, Opened
  <2>4. MountedOpened' = [g \in Handle |-> IF g = h THEN DescriptorOf(handle[h].fh)
                                          ELSE MountedOpened[g]]
    BY <1>0, <2>1, <2>2 DEF MountedOpened, DescriptorOf, IInv, TypeOK
  <2>5. Mounted!Answer(t)
    BY <1>0, <1>2, <1>3, <2>1, <2>3, <2>4 DEF Mounted!Answer, Mounted!Making
  <2> QED BY <2>5 DEF Mapped, Mounted!MountedNext
<1>5. ASSUME ~(th[t].host = OK /\ th[t].op = "open") PROVE MountedOpened' = MountedOpened
  <2>1. th[t].op \in Opening => th[t].ret # OK /\ th[t].h \in Handle /\ handle[th[t].h].state = "opening"
    BY <1>0, <1>5 DEF IInv, TypeOK, ThreadOK, HandleOf, Opening
  <2>2. \A g \in Handle : handle'[g].state = "open" <=> handle[g].state = "open"
    BY <2>1 DEF Answer, Opening, Shut, IInv, TypeOK
  <2> QED BY <1>0, <1>1, <2>2 DEF MountedOpened, DescriptorOf
<1>6. CASE th[t].host = OK /\ th[t].op # "open"
  <2>1. MountedReplies[t] = Mounted!Achieved(None, None)
    BY <1>0, <1>6 DEF MountedReplies, MountedReply, Succeeded, Opened, ThreadOK, Mounted!Achieved
  <2>2. MountedOpened = [g \in Handle |-> IF g = None THEN None ELSE MountedOpened[g]]
    BY BBFSAssumption DEF MountedOpened
  <2>3. Mounted!Answer(t)
    BY <1>0, <1>2, <1>3, <1>5, <1>6, <2>1, <2>2
    DEF Mounted!Answer, Mounted!Making, Mounted!Achieved
  <2> QED BY <2>3 DEF Mapped, Mounted!MountedNext
<1>7. CASE th[t].host # OK
  <2>1. MountedReplies[t] = Mounted!NoReply
    BY <1>0, <1>7 DEF MountedReplies, MountedReply, Succeeded, Opened, Mounted!NoReply
  <2>2. MountedReplies' = MountedReplies
    BY <1>2, <1>3, <2>1 DEF MountedReplies
  <2> QED BY <1>0, <1>5, <1>7, <2>2 DEF Mapped
<1> QED BY <1>4, <1>6, <1>7

-----------------------------------------------------------------------------
LEMMA InitMaps == Init => Mounted!MountedInit
<1> SUFFICES ASSUME Init PROVE Mounted!MountedInit
  OBVIOUS
<1>1. MountedOpened = [h \in Handle |-> None]
  BY DEF Init, MountedOpened, Shut
<1>2. \A t \in Thread : th[t].pc = "idle"
  BY DEF Init, Idle
<1>3. MountedReplies = [t \in Thread |-> Mounted!NoReply]
  BY <1>2 DEF MountedReplies, MountedReply, Succeeded, Opened, Mounted!NoReply
<1> QED BY <1>1, <1>3 DEF Init, Mounted!MountedInit, Object, Mounted!Object

LEMMA StepMaps == IInv /\ [Next]_vars => [Mounted!MountedNext]_(Mounted!mountedVars)
<1> SUFFICES ASSUME IInv, [Next]_vars PROVE Mapped
  BY DEF Mapped, Mounted!mountedVars
<1>1. CASE UNCHANGED vars
  BY <1>1 DEF vars, world, Mapped, MountedOpened, MountedReplies, MountedReply, Succeeded,
              Opened, DescriptorOf
<1>2. ASSUME NEW t \in Thread, BbOper(t) PROVE Mapped
  <2>1. ASSUME NEW n \in Name, NEW res \in SUBSET {OK, "EINVAL", "EPERM", "EACCES", "ENODATA"},
               PathCall(t, n, res)
        PROVE  Mapped
    BY <2>1, PathCallMaps DEF Errno
  <2>2. CASE BbGetattr(t) \/ BbReadlink(t) \/ BbStatfs(t)
    BY <2>1, <2>2 DEF BbGetattr, BbReadlink, BbStatfs
  <2>3. CASE BbChmodChown(t) \/ BbUtime(t) \/ BbAccess(t) \/ BbXattr(t)
    BY <2>1, <2>3 DEF BbChmodChown, BbUtime, BbAccess, BbXattr
  <2>4. CASE BbMkdir(t) \/ BbSymlink(t)
    BY <2>4, MakesMaps DEF BbMkdir, BbSymlink
  <2>5. ASSUME NEW res \in SUBSET {OK, "EIO"}, HandleCall(t, Regular, res) PROVE Mapped
    BY <2>5, HandleCallMaps DEF Errno
  <2>6. CASE BbReadWrite(t) \/ BbFtruncate(t) \/ BbFgetattr(t)
    BY <2>5, <2>6 DEF BbReadWrite, BbFtruncate, BbFgetattr
  <2> QED BY <1>2, <2>2, <2>3, <2>4, <2>6, RemovalMaps, RenameMaps, LinkMaps, TruncateMaps,
             MknodMaps, OpenMaps, CreateMaps, FlushMaps, FsyncMaps, ReaddirMaps, ReleaseMaps
          DEF BbOper
<1>3. ASSUME NEW t \in Thread, Continue(t) PROVE Mapped
  BY <1>3, MknodCloseMaps, CreateGoesOnMaps, AnswerMaps DEF Continue
<1> QED BY <1>1, <1>2, <1>3 DEF Next

(* The callbacks keep the promises of a mounted file system: whatever the  *)
(* interleaving, what becomes of names and handles is what requests that   *)
(* are one step each can do.                                               *)
THEOREM ImplementsMountedHolds == Spec => ImplementsMounted
<1>1. IInv /\ [Next]_vars => [Mounted!MountedNext]_(Mounted!mountedVars)
  BY StepMaps
<1>2. Init => Mounted!MountedInit
  BY InitMaps
<1> QED BY <1>1, <1>2, InvariantHolds, PTL DEF Spec, ImplementsMounted, Mounted!MountedSpec
=============================================================================
