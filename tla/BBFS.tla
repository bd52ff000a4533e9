-------------------------------- MODULE BBFS --------------------------------
(***************************************************************************)
(* The FUSE file system of src/ProjectWFuse/src/bbfs.c.  libfuse serves    *)
(* each request of the kernel on a thread of its own by one callback; the  *)
(* callback makes a call of the host on the same name below rootdir, or on *)
(* the descriptor that fi->fh keeps for an open handle, and answers what   *)
(* the call returned, -errno if it failed.  The program itself keeps       *)
(* nothing but the inode table of my_calls.cc, which bb_create fills.      *)
(*                                                                         *)
(* Every callback does its host call in the step that starts it; bb_mknod, *)
(* and a create that answers 0, have a second host call, which is a step   *)
(* of its own.  The tree below rootdir is one directory with names for the *)
(* host's objects.  host and object (in th and handle) are not in the      *)
(* program: they remember what the host call returned and opened.          *)
(***************************************************************************)
EXTENDS Integers, FiniteSets

CONSTANTS
  Thread, Name, Handle,
  Regular, Directory, Other,  \* the host's files, directories, links and fifos
  None,
  MaxFd,        \* the host gives descriptors 0..MaxFd-1 at most
  MaxInodes,    \* bound: the inodes that my_creat makes
  LogErrno,     \* what the logging may leave in errno, e.g. on a full disk
  StaleErrno    \* bound: what errno may hold when a callback starts

Object == Regular \cup Directory \cup Other
OK == "OK"
Errno == {"ENOENT", "EEXIST", "EMFILE", "EBADF", "EIO", "EISDIR", "ENOTDIR",
          "EPERM", "EACCES", "EINVAL", "ENODATA", "ENOMEM"} \cup LogErrno
Fd == 0..(MaxFd - 1)

ASSUME BBFSAssumption ==
  /\ None \notin Object \cup Handle
  /\ MaxFd \in Nat /\ MaxInodes \in Nat
  /\ OK \notin LogErrno
  /\ StaleErrno \subseteq Errno \cup {OK}

VARIABLES
  names,     \* the host's directory: the object of each name, or None
  fds,       \* the descriptor table of the process: an object, or None
  at,        \* how far the stream of a directory's descriptor has been read
  handle,    \* the kernel's handles: fi->fh and what the host opened for it
  th,        \* the threads that serve requests
  inodes     \* my_ilist: the numbers of its inodes

world == <<names, fds, at, handle, inodes>>
vars == <<world, th>>

Shut == [state |-> "free", fh |-> -1, object |-> None]
Idle == [pc |-> "idle", op |-> "none", h |-> None, fd |-> -1, host |-> OK, ret |-> OK]

Init ==
  /\ names \in [Name -> Object \cup {None}]
  /\ \A n, m \in Name : names[n] \in Directory /\ names[n] = names[m] => n = m
  /\ fds = [f \in Fd |-> None] /\ at = [f \in Fd |-> "start"]
  /\ handle = [h \in Handle |-> Shut]
  /\ th = [t \in Thread |-> Idle]
  /\ inodes = {}

-----------------------------------------------------------------------------
(* Answers. *)

(* Mutant: errno is read after the message has been logged. *)
BbErrorLate(errno, logged) == logged

(* -errno is computed before log_msg, which may set errno. *)
BbError(errno, logged) == errno

Replies(t, op, h, res, ret) ==
  th' = [th EXCEPT ![t] = [pc |-> "answer", op |-> op, h |-> h, fd |-> -1,
                           host |-> res, ret |-> ret]]

(* The host call of a request returned res. *)
Answers(t, op, h, res) == \E logged \in LogErrno \cup {res} :
  Replies(t, op, h, res, IF res = OK THEN OK ELSE BbError(res, logged))

(* bb_error is called but its value is dropped: the answer is the host     *)
(* call's own -1, which is -EPERM.                                         *)
AnswersMinusOne(t, op, h, res) ==
  Replies(t, op, h, res, IF res = OK THEN OK ELSE "EPERM")

(* What a call on an object that has the name n returns, or else ENOENT.   *)
Named(n, res) == IF names[n] = None THEN {"ENOENT"} ELSE res

Free(t) == th[t].pc = "idle"

(* A call on a name that leaves the names as they are. *)
PathCall(t, n, res) ==
  /\ Free(t) /\ UNCHANGED world
  /\ \E r \in Named(n, res) : Answers(t, "path", None, r)

(* A call that gives or takes names; names' is the caller's if it is OK.   *)
NameCall(t, r) ==
  /\ Free(t) /\ UNCHANGED <<fds, at, handle, inodes>> /\ Answers(t, "path", None, r)
  /\ r # OK => UNCHANGED names

Put(n, o) == names' = [names EXCEPT ![n] = o]

(* An object for a new name: on no other name, and not held by descriptor. *)
Fresh(o) == (\A n \in Name : names[n] # o) /\ (\A f \in Fd : fds[f] # o)

Makes(t, n, kind) ==
  \/ names[n] # None /\ NameCall(t, "EEXIST")
  \/ \E o \in kind : names[n] = None /\ Fresh(o) /\ Put(n, o) /\ NameCall(t, OK)

-----------------------------------------------------------------------------
(* Callbacks on a path. *)

BbGetattr(t) == \E n \in Name : PathCall(t, n, {OK})

BbReadlink(t) == \E n \in Name :
  PathCall(t, n, {IF names[n] \in Other THEN OK ELSE "EINVAL"})

BbMkdir(t) == \E n \in Name : Makes(t, n, Directory)

BbUnlink(t) == \E n \in Name :
  \/ names[n] = None /\ NameCall(t, "ENOENT")
  \/ names[n] \in Directory /\ NameCall(t, "EISDIR")
  \/ names[n] \in Regular \cup Other /\ Put(n, None) /\ NameCall(t, OK)

(* The one directory is flat: what rmdir meets is empty. *)
BbRmdir(t) == \E n \in Name :
  \/ names[n] = None /\ NameCall(t, "ENOENT")
  \/ names[n] \in Regular \cup Other /\ NameCall(t, "ENOTDIR")
  \/ names[n] \in Directory /\ Put(n, None) /\ NameCall(t, OK)

BbSymlink(t) == \E n \in Name : Makes(t, n, Other)

IsDir(n) == names[n] \in Directory

(* rename(2) leaves two names of one object alone. *)
BbRename(t) == \E n, m \in Name :
  \/ names[n] = None /\ NameCall(t, "ENOENT")
  \/ names[n] # None /\ names[m] # None /\ IsDir(m) /\ ~IsDir(n) /\ NameCall(t, "EISDIR")
  \/ names[m] # None /\ IsDir(n) /\ ~IsDir(m) /\ NameCall(t, "ENOTDIR")
  \/ /\ names[n] # None
     /\ names[m] # None => (IsDir(m) <=> IsDir(n))
     /\ names' = IF names[n] = names[m] THEN names
                 ELSE [names EXCEPT ![m] = names[n], ![n] = None]
     /\ NameCall(t, OK)

BbLink(t) == \E n, m \in Name :
  \/ names[n] = None /\ NameCall(t, "ENOENT")
  \/ names[n] # None /\ names[m] # None /\ NameCall(t, "EEXIST")
  \/ names[m] = None /\ IsDir(n) /\ NameCall(t, "EPERM")
  \/ /\ names[m] = None /\ names[n] \in Regular \cup Other
     /\ Put(m, names[n]) /\ NameCall(t, OK)

(* chmod and chown. *)
BbChmodChown(t) == \E n \in Name : PathCall(t, n, {OK, "EPERM"})
BbUtime(t) == \E n \in Name : PathCall(t, n, {OK, "EACCES"})
BbStatfs(t) == \E n \in Name : PathCall(t, n, {OK})
BbAccess(t) == \E n \in Name : PathCall(t, n, {OK, "EACCES"})

(* The four calls on extended attributes.  They are under #ifdef           *)
(* HAVE_SYS_XATTR_H, and bbfs.c does not include the config.h that would   *)
(* define it: a build that does define it has them.                        *)
BbXattr(t) == \E n \in Name : PathCall(t, n, {OK, "ENODATA", "EPERM"})

BbTruncate(t) == \E n \in Name :
  /\ Free(t) /\ UNCHANGED world
  /\ \E r \in Named(n, IF IsDir(n) THEN {"EISDIR"} ELSE {OK, "EACCES"}) :
       AnswersMinusOne(t, "truncate", None, r)

-----------------------------------------------------------------------------
(* Callbacks that take a descriptor. *)

LowestFree(f) == fds[f] = None /\ \A g \in Fd : fds[g] = None => f <= g
TableFull == \A f \in Fd : fds[f] # None

Takes(f, o) ==
  /\ LowestFree(f)
  /\ fds' = [fds EXCEPT ![f] = o] /\ at' = [at EXCEPT ![f] = "start"]
(* close of a number that is not open, -1 say, frees nothing. *)
Closes(f) == fds' = [g \in Fd |-> IF g = f THEN None ELSE fds[g]] /\ UNCHANGED at

(* Mutant: the file is made and its descriptor is not closed. *)
BbMknodUnclosed(t) == \E n \in Name : \E f \in Fd, o \in Regular :
  /\ Free(t) /\ names[n] = None /\ Fresh(o)
  /\ Put(n, o) /\ Takes(f, o) /\ UNCHANGED <<handle, inodes>>
  /\ Answers(t, "path", None, OK)

(* A regular file by open with O_EXCL and, later, close; another kind by   *)
(* mkfifo or mknod.                                                        *)
BbMknod(t) == \E n \in Name :
  \/ Makes(t, n, Other)
  \/ TableFull /\ NameCall(t, "EMFILE")
  \/ ~TableFull /\ names[n] # None /\ NameCall(t, "EEXIST")
  \/ \E f \in Fd, o \in Regular :
       /\ Free(t) /\ names[n] = None /\ Fresh(o)
       /\ Put(n, o) /\ Takes(f, o) /\ UNCHANGED <<handle, inodes>>
       /\ th' = [th EXCEPT ![t] = [Idle EXCEPT !.pc = "close", !.op = "mknod", !.fd = f]]

(* close frees the descriptor even where it reports an error. *)
BbMknodClose(t) == \E r \in {OK, "EIO"} :
  /\ th[t].pc = "close" /\ Closes(th[t].fd) /\ UNCHANGED <<names, handle, inodes>>
  /\ Answers(t, "path", None, r)

(* The callback sets fi->fh to fd, -1 if the host's open failed.           *)
Opens(t, op, h, fd, o, r) ==
  /\ Free(t) /\ handle[h].state = "free" /\ UNCHANGED <<names, inodes>>
  /\ handle' = [handle EXCEPT ![h] = [state |-> "opening", fh |-> fd, object |-> o]]
  /\ Answers(t, op, h, r)

(* Mutant: fi->fh is set to what the callback returns, -2 for ENOENT. *)
OpenFailsKept(t, op, h, r) == Opens(t, op, h, -2, None, r) /\ UNCHANGED <<fds, at>>

OpenFails(t, op, h, r) == Opens(t, op, h, -1, None, r) /\ UNCHANGED <<fds, at>>
OpenSucceeds(t, op, h, n) == \E f \in Fd :
  Takes(f, names[n]) /\ Opens(t, op, h, f, names[n], OK)

(* The kernel asks for a directory by opendir: an open that meets one has  *)
(* come with flags for writing.  It resolves links itself, and a fifo is   *)
(* not opened by the file system.                                          *)
BbOpen(t) == \E n \in Name, h \in Handle :
  \/ TableFull /\ OpenFails(t, "open", h, "EMFILE")
  \/ ~TableFull /\ names[n] = None /\ OpenFails(t, "open", h, "ENOENT")
  \/ ~TableFull /\ IsDir(n) /\ OpenFails(t, "open", h, "EISDIR")
  \/ names[n] \in Regular /\ OpenFails(t, "open", h, "EACCES")
  \/ names[n] \in Regular /\ OpenSucceeds(t, "open", h, n)

BbOpendir(t) == \E n \in Name, h \in Handle :
  \/ TableFull /\ OpenFails(t, "open", h, "EMFILE")
  \/ ~TableFull /\ names[n] = None /\ OpenFails(t, "open", h, "ENOENT")
  \/ ~TableFull /\ names[n] \in Regular \cup Other /\ OpenFails(t, "open", h, "ENOTDIR")
  \/ IsDir(n) /\ OpenSucceeds(t, "open", h, n)

-----------------------------------------------------------------------------
(* Create: the inode table of my_calls.cc stands in for the host. *)

(* The largest number in use, 0 for an empty table. *)
MaxInode(table) == CHOOSE m \in table \cup {0} : \A i \in table : i <= m

(* Mutant: the first inode of an empty table gets the number 0. *)
InodeInitZero(table) == IF table = {} THEN 0 ELSE MaxInode(table) + 1

InodeInit(table) == MaxInode(table) + 1

(* The inode is inserted before the root, number 0, is looked for; without *)
(* a root there is no dentry and no file.                                  *)
MyCreat(table) ==
  LET inum == InodeInit(table)
      made == table \cup {inum}
  IN  [table |-> made, fd |-> IF 0 \in made THEN inum ELSE -1]

(* my_creat sets no errno: the answer is what an earlier call left there,  *)
(* which may be 0.  libfuse asks for the attributes of what answers 0.     *)
BbCreate(t) == \E h \in Handle, errno \in StaleErrno : \E logged \in LogErrno \cup {errno} :
  LET made == MyCreat(inodes)
      ret  == IF made.fd < 0 THEN BbError(errno, logged) ELSE OK
  IN  /\ Free(t) /\ handle[h].state = "free" /\ Cardinality(inodes) < MaxInodes
      /\ inodes' = made.table
      /\ handle' = [handle EXCEPT ![h] =
                       [state |-> "opening", fh |-> made.fd, object |-> None]]
      /\ UNCHANGED <<names, fds, at>>
      /\ th' = [th EXCEPT ![t] =
           [pc |-> IF ret = OK THEN "fgetattr" ELSE "answer", op |-> "create", h |-> h,
            fd |-> -1, host |-> IF made.fd < 0 THEN "ENOENT" ELSE OK, ret |-> ret]]

Held(h) == handle[h].fh \in Fd /\ fds[handle[h].fh] # None

(* fstat by fi->fh; when it fails libfuse releases what it took for open.  *)
CreateFgetattr(t) ==
  /\ th[t].pc = "fgetattr" /\ UNCHANGED world
  /\ \E logged \in LogErrno \cup {"EBADF"} :
       th' = [th EXCEPT ![t] =
         IF Held(th[t].h) THEN [@ EXCEPT !.pc = "answer"]
         ELSE [@ EXCEPT !.pc = "release", !.host = "EBADF",
                        !.ret = BbError("EBADF", logged)]]

(* What bb_release returns is ignored.                                     *)
CreateRelease(t) ==
  /\ th[t].pc = "release" /\ Closes(handle[th[t].h].fh)
  /\ UNCHANGED <<names, handle, inodes>>
  /\ th' = [th EXCEPT ![t].pc = "answer"]

-----------------------------------------------------------------------------
(* Callbacks on an open handle. *)

(* The kernel has them only for open handles, by the kind of the object.   *)
HandleCall(t, kind, res) == \E h \in Handle :
  /\ Free(t) /\ handle[h].state = "open" /\ handle[h].object \in kind
  /\ UNCHANGED world
  /\ \E r \in IF Held(h) THEN res ELSE {"EBADF"} : Answers(t, "handle", h, r)

(* pread and pwrite. *)
BbReadWrite(t) == HandleCall(t, Regular, {OK, "EIO"})
BbFtruncate(t) == HandleCall(t, Regular, {OK, "EIO"})
BbFgetattr(t) == HandleCall(t, Regular, {OK})

(* Mutant: flush closes the descriptor, as release does. *)
BbFlushCloses(t) == \E h \in Handle :
  /\ Free(t) /\ handle[h].state = "open" /\ handle[h].object \in Regular
  /\ Closes(handle[h].fh) /\ UNCHANGED <<names, handle, inodes>>
  /\ Answers(t, "handle", h, OK)

BbFlush(t) == \E h \in Handle :
  /\ Free(t) /\ handle[h].state = "open" /\ handle[h].object \in Regular
  /\ UNCHANGED world /\ Answers(t, "handle", h, OK)

BbFsyncdir(t) == \E h \in Handle :
  /\ Free(t) /\ handle[h].state = "open" /\ handle[h].object \in Directory
  /\ UNCHANGED world /\ Answers(t, "handle", h, OK)

BbFsync(t) == \E h \in Handle :
  /\ Free(t) /\ handle[h].state = "open" /\ handle[h].object \in Regular
  /\ UNCHANGED world
  /\ \E r \in IF Held(h) THEN {OK, "EIO"} ELSE {"EBADF"} :
       AnswersMinusOne(t, "fsync", h, r)

(* A directory that has a name yet has the entries . and .. for a stream   *)
(* that is at its start.                                                   *)
Linked(h) == \E n \in Name : names[n] = handle[h].object

(* What the first readdir finds the filler may refuse; a later readdir     *)
(* that fails is taken for the end.  Nothing rewinds the stream: a later   *)
(* pass finds only what is left.  Finding nothing, then or after an rmdir, *)
(* is taken for an error, though readdir has set no errno.                 *)
BbReaddir(t) == \E h \in Handle : LET f == handle[h].fh IN
  /\ Free(t) /\ handle[h].state = "open" /\ handle[h].object \in Directory
  /\ UNCHANGED <<names, fds, handle, inodes>>
  /\ \/ /\ at[f] = "passed" \/ Linked(h)
        /\ at' = [at EXCEPT ![f] = "passed"]
        /\ \/ \E r \in {OK, "ENOMEM"} : Replies(t, "readdir", h, r, r)
           \/ Replies(t, "readdir", h, "EIO", OK)
     \/ /\ at[f] = "passed" \/ ~Linked(h)
        /\ UNCHANGED at
        /\ \E errno \in StaleErrno : \E logged \in LogErrno \cup {errno} :
             Replies(t, "readdir", h, OK, BbError(errno, logged))
     \/ UNCHANGED at /\ Answers(t, "readdir", h, "EIO")

(* One release for every open, when no other request is on the handle.     *)
(* The handle is gone whatever the answer, and the descriptor too, even    *)
(* where close reports an error.                                           *)
Releases(t, h, kind) ==
  /\ Free(t) /\ handle[h].state = "open" /\ handle[h].object \in kind
  /\ \A u \in Thread : th[u].h # h
  /\ Closes(handle[h].fh) /\ handle' = [handle EXCEPT ![h] = Shut]
  /\ UNCHANGED <<names, inodes>>

Closed(h) == IF Held(h) THEN {OK, "EIO"} ELSE {"EBADF"}

(* close's own -1 is the answer. *)
BbRelease(t) == \E h \in Handle :
  /\ Releases(t, h, Regular)
  /\ \E r \in Closed(h) : AnswersMinusOne(t, "release", None, r)

(* What closedir returns is not looked at. *)
BbReleasedir(t) == \E h \in Handle :
  /\ Releases(t, h, Directory)
  /\ \E r \in Closed(h) : Replies(t, "releasedir", None, r, OK)

-----------------------------------------------------------------------------
(* libfuse passes the answer on; an open that answers 0 gives a handle.    *)
Answer(t) ==
  /\ th[t].pc = "answer" /\ th' = [th EXCEPT ![t] = Idle]
  /\ handle' = IF th[t].op \notin {"open", "create"} THEN handle
               ELSE [handle EXCEPT ![th[t].h] =
                       IF th[t].ret = OK THEN [@ EXCEPT !.state = "open"] ELSE Shut]
  /\ UNCHANGED <<names, fds, at, inodes>>

(* The requests that the kernel may have, by the table bb_oper.            *)
BbOper(t) ==
  \/ BbGetattr(t) \/ BbReadlink(t) \/ BbMknod(t) \/ BbMkdir(t) \/ BbUnlink(t)
  \/ BbRmdir(t) \/ BbSymlink(t) \/ BbRename(t) \/ BbLink(t) \/ BbChmodChown(t)
  \/ BbTruncate(t) \/ BbUtime(t) \/ BbOpen(t) \/ BbReadWrite(t) \/ BbStatfs(t)
  \/ BbFlush(t) \/ BbRelease(t) \/ BbFsync(t) \/ BbXattr(t) \/ BbOpendir(t)
  \/ BbReaddir(t) \/ BbReleasedir(t) \/ BbFsyncdir(t) \/ BbAccess(t) \/ BbCreate(t)
  \/ BbFtruncate(t) \/ BbFgetattr(t)

(* What a request that has been started goes on with. *)
Continue(t) ==
  BbMknodClose(t) \/ CreateFgetattr(t) \/ CreateRelease(t) \/ Answer(t)

Next == \E t \in Thread : BbOper(t) \/ Continue(t)

Spec == Init /\ [][Next]_vars

-----------------------------------------------------------------------------
(* Properties. *)

Pc == {"idle", "close", "fgetattr", "release", "answer"}
Op == {"none", "path", "mknod", "truncate", "open", "create", "handle", "fsync",
       "readdir", "release", "releasedir"}

(* The type of the state.                                                  *)
TypeOK ==
  /\ names \in [Name -> Object \cup {None}]
  /\ fds \in [Fd -> Object \cup {None}]
  /\ at \in [Fd -> {"start", "passed"}]
  /\ handle \in [Handle -> [state: {"free", "opening", "open"}, fh: Fd \cup {-1},
                            object: Object \cup {None}]]
  /\ th \in [Thread -> [pc: Pc, op: Op, h: Handle \cup {None}, fd: Fd \cup {-1},
                        host: Errno \cup {OK}, ret: Errno \cup {OK}]]
  /\ inodes \in SUBSET Nat

(* The handle h has, or will have, its own descriptor.                     *)
Owns(h) == handle[h].state # "free" /\ handle[h].fh # -1

(* No descriptor of the process is lost: each open one belongs to a handle *)
(* or to a bb_mknod that has still to close it.                            *)
DescriptorsOwned ==
  \A f \in Fd : fds[f] # None =>
    \/ \E h \in Handle : Owns(h) /\ handle[h].fh = f
    \/ \E t \in Thread : th[t].fd = f

(* A handle the kernel holds open reads and writes the object that it was  *)
(* opened on, by a descriptor that no other handle or request will close,  *)
(* through every close and reuse of descriptor numbers.                    *)
HandleKeepsItsObject ==
  \A h \in Handle : handle[h].state = "open" =>
    /\ handle[h].object # None /\ Held(h) /\ fds[handle[h].fh] = handle[h].object
    /\ \A g \in Handle : Owns(g) /\ handle[g].fh = handle[h].fh => g = h
    /\ \A t \in Thread : th[t].fd # handle[h].fh

(* A request is answered by success only if its host calls succeeded, and  *)
(* by the errno of the host call otherwise: "Report errors to logfile and  *)
(* give -errno to caller".  The callbacks that drop bb_error's value, or   *)
(* do not call it (bb_release), still tell failure from success; my_creat  *)
(* has no errno to give.  bb_readdir and bb_releasedir tell neither: the   *)
(* one asks errno where readdir has set none and does not where a later    *)
(* readdir has failed, the other does not look at what closedir returned.  *)
AnswersTell ==
  \A t \in Thread : th[t].pc = "answer" /\ th[t].op \notin {"readdir", "releasedir"} =>
    /\ th[t].ret = OK <=> th[t].host = OK
    /\ th[t].op \notin {"truncate", "fsync", "create", "release"} =>
         th[t].ret = th[t].host

(* The callbacks act on the names and on what is open as if each of them   *)
(* were one step, and no descriptor were there.  A handle counts for what  *)
(* its descriptor is open on.                                              *)
DescriptorOf(f) == IF f \in Fd THEN fds[f] ELSE None

Succeeded(t) == th[t].pc = "answer" /\ th[t].host = OK
Opened(t) == Succeeded(t) /\ th[t].op \in {"open", "create"}
MountedReply(t) ==
  [done   |-> th[t].pc = "close" \/ Succeeded(t),
   handle |-> IF Opened(t) THEN th[t].h ELSE None,
   object |-> IF th[t].pc = "close" THEN fds[th[t].fd]
              ELSE IF Opened(t) THEN DescriptorOf(handle[th[t].h].fh) ELSE None]
MountedReplies == [t \in Thread |-> MountedReply(t)]
MountedOpened == [h \in Handle |-> IF handle[h].state = "open"
                                   THEN DescriptorOf(handle[h].fh) ELSE None]

Mounted == INSTANCE MountedFS WITH opened <- MountedOpened, reply <- MountedReplies

ImplementsMounted == Mounted!MountedSpec
=============================================================================
