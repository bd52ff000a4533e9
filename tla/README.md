# A TLA+ verification of the in-memory file system

The repository holds two file systems written for one course. `ProjectWOFuse`
is a complete in-memory file system, `my_stubs.cc`, whose calls are named
after the system calls they stand for (`my_mkdir`, `my_rename`, ...) and are
driven by a command shell. `ProjectWFuse` is Pfeiffer's "Big Brother" FUSE
file system, `bbfs.c`, which passes the kernel's requests on to a directory
of the host, and an unfinished inode table, `my_calls.cc`, that one callback
reaches. This project models both: the first from the inode table up to the
listings and the shell, the second as its callbacks run in several threads.

## Inventory

| Component | State | Operations | Interacts with |
|---|---|---|---|
| Inode table, path resolution (`my_stubs.cc` 86-314, 1024-1123) | `ilist.entry` (number to `File`), the counter in `Ilist::next`, the static `first_time` | `split`, `join`, `find_real_ino`, `find_ino`, `lookup`, `my_mknod` | everything else in `my_stubs.cc` reads and edits the table directly |
| Namespace calls (317-599, 628-644, 683-731) | none of their own | `my_mkdir my_creat my_link my_unlink my_rmdir my_symlink my_rename my_chmod my_open my_close` | the table; `my_symlink` also calls `my_creat`, `my_pwrite` and `my_chmod` |
| Directory streams (1024-1045, 1136) | `MY_DIR`: a number and an index | `fopendir my_opendir my_readdir my_closedir` | read `dentries` of a file that calls change in between |
| File data (735-798, 955-1003) | `File.data`, `st_size` | `my_pread my_pwrite my_truncate my_ftruncate` | `my_readlink` and `find_ino` read a link's target from it |
| Metadata (200-223, 604-680, 801-827) | `File.metadata` | `my_lstat my_fstat my_access my_chown my_utime my_statvfs` | the table |
| Extended attributes (840-952) | `File.xattr` | `my_lsetxattr my_lgetxattr my_llistxattr my_lremovexattr` | the table |
| Lister (1146-1577) | locals of a recursive visit | `ls describe_file visit` | streams, `my_lstat`, `my_readlink` |
| Shell (1594-1961) | the dialogue recorded so far, the script being played | one `my_` call per command | all calls |
| FUSE callbacks (`bbfs.c`) | `fi->fh` between open and release, the log file | `bb_*` | the host's files; `my_creat` of `my_calls.cc` |
| Partial inode table (`my_calls.cc`) | `my_ilist`, `my_openFT` | `my_mkdir my_creat my_open my_read ...` | called from `bb_create` |
| Log (`log.c`) | the log file | `log_msg` and formatters | written only |

What is hard here. `my_stubs.cc` runs one call at a time; its difficulty is in
*sequences* of calls. Three numbers have to agree that no code keeps together:
the names in directories, the handles opened and `st_nlink`. Calls are not
atomic on failure (`my_mknod` inserts the inode before it checks the path).
Some calls follow a symbolic link and some do not, and in `my_unlink` the two
are mixed. `operator[]` inserts a zeroed file for any number that is asked
for. A lookup reads memory it has freed. In `bbfs.c` the kernel's requests run
in several threads, and return codes are lost on some paths.

What makes each component correct: for the namespace, that every name leads
to a file, that link counts are exact, that directories form a tree, that a
call does what its comment says; for streams, that every entry present
throughout a scan is seen once and none past the end; for data, that what is
read is what was written and that `st_size` is the length; for attributes,
that a call reaches the file it means and a missing file has nothing; for the
callbacks, that no descriptor is lost or shared, that a handle keeps its file
and that a failure is reported as one; for the listings, that they report
what is there; for the shell, that a saved dialogue makes the same calls again
and that the loop can be left. `PROJECT.json` lists the hazards at their lines,
with the property that covers each or the reason none does.

## Modules

| Module | What it is |
|---|---|
| `Mode` | The type bits of a mode, and what `my_chmod` makes of them |
| `Ilist` | The inode table, as operators on the table: edits of directories, link counts, path resolution, the making of an inode |
| `NameSpace` | The calls as actions, with any path as argument; invariants that hold whatever the caller does |
| `NameSpaceProofs` | The proofs of those invariants |
| `FileTree` | The abstract file system: objects, names, handles |
| `CarefulCaller` | `NameSpace` under a contract, what the code then guarantees, and the refinement of `FileTree` |
| `CarefulProofs` | The proofs of what holds under the contract, and that `CarefulCaller` implements `FileTree` |
| `DirStream` | `CarefulCaller` with a directory stream kept open between calls |
| `DirStreamProofs` | The proofs of what a scan promises |
| `FileData` | The data of one file: write, truncate, read, link targets |
| `FileDataProofs` | The proofs about `FileData` |
| `Lister` | `CarefulCaller` with the listings, as operators on the table |
| `ListerProofs` | The proofs of what the listings report |
| `Attributes` | Mode, owner, times and extended attributes of the files of a tree whose names stay |
| `AttributesProofs` | The proofs about `Attributes` |
| `Shell` | The shell's loop: what is read, recorded and called; a session and its replay |
| `ShellProofs` | The proof that a replay makes the calls again |
| `MountedFS` | The abstract mounted file system: names, open handles, what a request has achieved |
| `BBFS` | The FUSE callbacks in several threads over the host's names and descriptors; the refinement of `MountedFS` |
| `BBFSProofs` | The proofs of the invariants of `BBFS`, and that it implements `MountedFS` |
| `Documented` | What comments of the code claim and the runs refute |
| `MCNameSpace`, `MCCarefulCaller`, `MCDirStream`, `MCFileData`, `MCAttributes`, `MCShell`, `MCBBFS`, `MCDocumented` | Values of the constants for TLC |

The first file system is three modules deep: `NameSpace` edits the table through
`Ilist`; `CarefulCaller` is `NameSpace` under a contract; `DirStream` and
`Lister` add to `CarefulCaller` what reads the tree. `FileData`, `Attributes`
and `Shell` each stand alone, for what they keep does not touch the tree (a
chmod that changes a type, the one thing that does, is in all three, by way of
`Mode`, wherever it tells types apart).

### How the state corresponds to the code

* `entry` is `ilist.entry`, a total function: a number that is not in the map
  is `Blank`, the zeroed `File` that `operator[]` would insert when it is
  asked for. So a phantom entry and no entry are the same, and an erase sets
  `Blank`. Only `f_files` of `my_statvfs` and `my_fstat(0)` tell them apart.
  Writes to the entry of number 0 are left out: nothing reads them back. (It
  never gets a type: every call that sets one tests the number first.)
* `type` stands for the type bits of `st_mode` ("none" where there are none).
  `Mode` has those the code tests, S_IFCHR, which is what a link's have beside a
  regular file's, and "other" for all that is left; `WithBits` is the or of two.
  A mode the caller passes may have type bits too: `my_mkdir` and `my_creat` or
  their own into it, `my_chmod` stores it as it is and ors S_IFDIR into what was
  a directory's (`Chmoded`). `NewModes` and `Modes` are the bits a run passes.
  Permission bits, times and owners are left out. `nlink` is an unsigned
  64-bit word, -1 standing for 2^64 - 1. `target` is the data of a symbolic
  link; the 50 bytes `find_ino` reads it into are enough for the paths used.
* `count` is the static counter in `Ilist::next`; `held` is what the caller
  has opened and not closed. `my_close` itself takes any number. The model's
  caller closes only what it holds, and 0; of one that closes what it never
  opened nothing is claimed.
* A path is the sequence of its segments without the empty one before a
  leading "/": "/" is `<<"">>`, "/a/b" is `<<a, b>>`. "/a" and "a" are the
  same to the code, which prepends an unused `cwd`.
* Undefined behaviour: `my_readdir` returns a pointer into a vector that is
  destroyed on return, and `lookup` reads `d_ino` through it. The names
  survive in practice; the first bytes of the block, which are the first
  dentry's `d_ino`, may not. The constant `FirstSurvives` says which build it
  is; where it is FALSE, a lookup that stops at the first dentry yields
  `Stray`, a number no file has. The theorems hold for both.

* `DirStream.stream` is the `MY_DIR`: the number, the index, and beside them
  whether the caller has been given null. `seen`, `since` and `passed` are
  history: what the scan has returned, what has been there since it began, and
  how many entries have been removed behind its index. A read past the end
  returns a pointer that is not null to memory behind the vector; nothing is
  assumed of what it shows. `Meanwhile` is any call of `CarefulCaller`.
* `FileData` follows one file from when it is made; `type` is its type bits, any
  that modes and `my_chmod` can give, and "absent" before. The buffer of a write is
  a C string with its own length as size, as the shell and `my_symlink` pass it.
  `my_pread` and `my_readlink` change nothing and are operators (`Pread`,
  `Readlink`): they return the count and the bytes `strcpy` copies, up to a NUL.
  `offset + size - 1` is computed modulo `Word`, for it is a `size_t`. A read at a
  negative offset throws out of `substr` and ends the program: reads have an
  offset from 0 up.

* `Lister` has a listing as the sequence of its lines, and a line as the
  directory listed, the name and the file reported, without its format. The
  lines are in the order of the dentries; the code sorts them. `VisitDir` is one
  call of `visit`, with what the calls it makes show given to it; it stops
  where a path leads nowhere, as the code's early return does. `Visit` is the
  recursion, a recursive function on the number of calls that may still be
  nested. That is a bound of the model (`MaxIno`), and a visible one: a visit
  that reaches it shows the line `Unending`, which is no name's. A line is shown
  whoever owns the file: the code dereferences what `getpwuid` and `getgrgid`
  return, and ends the program for an owner the host does not know.
* `Attributes` fixes names and data: `FileAt` is what `find_real_ino` gives for
  each path, and `LinkTo` the path a file's data would be, were it a link. The
  directories on the way of a path are not among the files a path is of, so
  they keep their types. Which file a path reaches changes all the same, for
  `my_chmod` can take a link's type from a file and give it to another. `meta` is `st_mode` (type and
  permission bits), owner and times; `xattr` is the map, with a value's length in
  its place. `phantom` tells whether `operator[]` has inserted a `File` of number
  0, which `my_fstat` and `my_statvfs` notice: here a phantom and no entry are
  told apart. The calls that only read are operators, but for that insertion
  (`Ask`).
* `Shell` has a word where the code has a string, and a step for each read. Of the
  commands there is one for each way of reading arguments (`Arguments`): from
  the script or always from the keyboard, as a number or a word, followed by
  `reset_cin` or not, recorded or not. `script`, `myin` and `cin` are the streams
  and their good bits; `record` is the dialogue; `calls`, `made` and `faithful`
  are history. A second session is the program started on the saved file.
* `BBFS` has a thread's request in `th` and the kernel's file handles, with
  `fi->fh`, in `handle`. `names`, `fds` and `at` are the host: the one flat
  directory below rootdir, the descriptor table of the process, and how far the
  stream of a directory has been read. `inodes` is `my_ilist`. The fields `host`
  and `object` are history: what the host call returned and what it opened. A
  callback makes its host call in the step that starts it and answers in
  another (`Answer`), so that requests overlap; what has a second host call has
  a step for it: `bb_mknod`'s close, and the fgetattr and release that libfuse
  sends after a create that answered 0. A host call may fail with the errors that
  matter to what follows, a close in `bb_release` and in `bb_mknod` among them. The
  four callbacks on extended attributes are under `#ifdef HAVE_SYS_XATTR_H`, and
  `bbfs.c` does not include the `config.h` that would define it: `BbXattr` is for
  a build that does. What the logging may leave in errno is `LogErrno`, what
  was there before is `StaleErrno`.

Each action of a `my_stubs.cc` call is one call with all it does, early returns
included (`Fails`). What a call returns is not kept in the state; that a call is
refused shows in `CallsAct`.

## Runs

| Run | Bounds | What it shows |
|---|---|---|
| `namespace_any` | names a, b; paths /a /b /a/b /b/a; inodes 3, 4 beside the root; 2 dentries beside "." and ".."; counts to 2; files made with no type bits and with S_IFCHR, chmod to no type and to a directory's; `FirstSurvives` TRUE | Numbers, and what they stand for, over every sequence of calls |
| `namespace_odd_paths` | paths /a /a/ /a/. /a/..; inode 3; modes as above; `FirstSurvives` FALSE | The same where paths do not end in a name and lookups stop at the first dentry |
| `careful` | names a, b down to three levels, the root, and up again, as /a/../b; inodes 3 to 5; 3 names; counts to 3; one handle per file | The contract is enough; the listings report the tree it gives |
| `streams` | names a, b, c in the root; inodes 3 to 5; 3 names; scans with up to 3 removals behind them | What a scan promises while the directory changes |
| `file_data` | bytes x, y and NUL; 5 bytes of data; buffers of up to 3; offsets -1 to 6 | What writes, truncations and reads keep to |
| `attributes` | a file, a link to nothing, a link to that link, a path of nothing; chmod to no type, a directory's and a link's; 1 permission bit, 2 owners; 2 attributes of unequal lengths | Which file a call reaches, what a missing path gives, what a list holds |
| `shell` | one file word, one number, one word that is none; commands typed while the record has fewer than 4 words | What a saved dialogue repeats; that a replay ends; who can get out |
| `bbfs` | 2 threads, 2 names, 2 handles, 2 descriptors; one file, one directory, one other; 1 inode made | Descriptors, handles and answers under overlapping requests; the refinement |
| `documented_readdir` | as `streams` | A comment of the code is refuted |
| `documented_rmdir`, `documented_unlink` | as `namespace_any` | A comment of the code is refuted |
| `documented_lremovexattr` | as `attributes` | A comment of the code is refuted |

The bounds: two inodes beside the root are the least that give a parent and a
child, a link and its target, two files that change places, or two
directories that end up inside each other; two names let a rename find its
target free or taken. The deepest behaviour of `namespace_any` is 15 calls,
and the counts go from -1 (wrapped) to 2. `careful` has three inodes, so that
a directory holds a directory that holds a file, or a file two names and a
handle. `MaxIno`, `MaxNames`, `MaxLinks` and `MaxHeld` are bounds of the model
alone; they stop a step that would pass them. Deadlock is not checked in the
runs of these modules, for the bounds stop some callers. The names are
symmetric.

In `bbfs` two threads are what any overlap of two requests needs, and two
handles on two descriptors let one be closed and its number reused while the
other is open; two `bb_mknod`, or one and an open, fill the table. One object
of each kind gives a file two names, a file replaced or removed while it is
open (by the other object that is no directory), and handles on two different
objects, between which a descriptor could be confused. Threads,
names and handles are symmetric. In `attributes` every relation between a path and a file
there can be is there once: itself, through a link, through two, nowhere.
`MaxRecord` of 4 admits any two commands of one argument, or one of two and
another: a command that loses its record and one that follows it. The bound is
on typing alone, so that a shell whose keyboard has failed runs on.

### What holds whatever the caller does

`NoForwardReference`: no dentry, no phantom entry and no handle ever names a
number `next()` has still to issue. This needs care here because failing calls
use up numbers and leave inodes, and because dentries that dangle are common.
(`my_calls.cc`, which numbers inodes one above the largest in use, does not have
this.)

`NumberIsOneFile`: the type and the text of a number issued before a call are
after it what they were, or the inode is gone with its last link and with all it
had, or the call was a chmod by a path that leads there. So a stale handle or
dentry leads to nothing or to what it led to, never to a file made later. The
exception is as wide as `my_chmod` is: it stores type bits on any number a path
leads to, one that dangles and has no file included. It holds of a build in
which the first dentry's number survives: where it does not, a lookup can yield
`Stray`, and `my_symlink` then turns an inode that no call has made into a link.

Little else holds so generally. With the type bits of a chmod a number that
dangles has a type and a count of 0, a directory is a file of another type with
its dentries still there, and the count of a file says nothing of its type.

### What holds under the contract

The May operators of `CarefulCaller` are, per call, what the kernel checks
before it calls a FUSE file system (the parent is a directory reached without
links, the new name is free, what is to be removed is there) and what
`my_stubs.cc` needs besides:

| Clause | Without it |
|---|---|
| no unlink, rename or rmdir of a symbolic link | the target loses its inode or gains a name its count does not know (`documented_unlink`) |
| no rename onto a name in use | the file there keeps its count and is never reclaimed |
| the new parent of a rename is a directory | the file has no name left |
| a directory is renamed within its parent only | ".." goes stale, and rmdir takes it for the name (`documented_rmdir`) |
| no rmdir of an open directory | its inode keeps the count of the lost name |
| no chmod of anything but a directory, and no type bits in any mode | the file loses its type, or gets another |
| no creation that fails | the inode made stays, with a count and no name |

Under it `LinkCountExact`, `NamesResolve` and `TreeShape` hold, every call does
what it is for (`CallsAct`, which says of a rename through the very directory it
moves, as of "/a/../a", that its paths are gone after it), and every step is the
step of `FileTree` it should be (`ImplementsTree`, through the mapping at the end
of `CarefulCaller`): an object is reclaimed exactly when its last name or handle goes. `TreeShape` is
also why the recursion of `visit` ends, and why no path of names is resolved
through the dentry that `my_readdir`'s freed memory may spoil. A contract this
long is itself the result: no symbolic link can ever be removed under it.

### What a scan promises

An entry is never returned twice (`NoEntryTwice`), because `push_back` and
`erase` only ever move an entry towards the front, behind the index. A scan that
ends has missed at most one entry for each one removed behind its index
(`MissesNoMoreThanPassed`), and it can pass the end only after such a removal
(`PastEndOnlyByRemoval`); once that has happened it need not end at all, which
is what `documented_readdir` shows, with the end tested by `==`. The scans inside
`my_stubs.cc` (`lookup`, `visit`) let no call in between, and are complete.
Three names and a subdirectory's two dots give scans of up to five entries; the
length of a scan plays no other part than that.

### What a listing shows

Under the contract `lslr` of the root has a line for every name in the tree and
no other, each with the file of that name (`VisitReportsAll`): the recursion
ends, reaches every directory, and the paths it builds lead where the dentries
it built them from do. `ls` shows of a directory what `lslr` does, but for
links whose target is missing (`ListersAgree`): `describe_file` looks at the end
of a link, `visit` at the link.

### What data keeps to

`WriteIsLocal` goes by the offset the caller asks for: a write changes no byte
outside of the range asked for, and where the offset is within the data a read
of the same place gives the buffer back. A write that starts past the end, or
at a negative offset, puts its bytes at the end of the data: what was there is
kept, but the bytes are not where they were asked for. Nor does a write keep the
length: the data grows by the size of the buffer wherever it starts, with NULs at
the end. `st_size` is the length of the last write, so that it is often too small,
and never too large (`SizeWithinData`). `my_pread` returns one more than it has
copied when exactly one byte less than asked for is left; a loop of reads is
complete all the same, whatever the size of its buffer (`ReadLoopComplete`).
`my_chmod` can make a directory of a file that has data, and the reverse; no call
writes or resizes the data of a directory, so that they are there again when
the type bits go (`DirectoryKeepsData`). Five bytes allow a write inside, at and
past the end of data that has been written, padded and cut before.

### What attributes keep to

Most calls follow a link at the end of a path; `my_lsetxattr`, `my_lgetxattr` and
`my_llistxattr` do not, and `my_lremovexattr`, for all its name, does. So the
mode, owner and times of a link that no link leads to are what they were, until
it is no link any more (`LinkOutOfReach`); and an attribute set on a link cannot
be removed by the path it was set by, which `documented_lremovexattr` shows.
`find_ino` makes a `File` of number 0 for a missing path, which `my_fstat` then
finds, and `my_access` goes by its mode. It is never given one, so that a missing
path gives no permission (`MissingGrantsNoPermission`); the empty mask, F_OK,
it does grant from then on. `my_llistxattr` fills a buffer with the names in order
up to some last one, and leaves a name out only if the list through it would
fill the buffer or more (`ListIsPrefix`).

### What the shell keeps to

The op and the file are recorded before the arguments are read, and some
arguments are never recorded. So a replay is faithful up to the first command
that was given up or whose arguments are not all in the record, and makes at
least those calls (`ReplayRepeats`). A script comes to its end whatever is in it
(`ReplayEnds`), though `reset_cin` looks at `cin` when it was the script that
failed. A user who goes on typing `exit` gets out, unless a command that reads a
number without a check (`truncate`, `utime`, `pread`, `pwrite`, `lgetxattr`) has left `cin`
failed: then the loop never ends (`ExitUnlessUnchecked`).

### What the callbacks keep to

`DescriptorsOwned`: every open descriptor belongs to one handle, or to a
`bb_mknod` on its way to close it; none is lost on any failing path.
`HandleKeepsItsObject`: an open handle stays on what its name had when it was
opened, by a descriptor nobody else will close, for all that numbers are
reused, names removed and creates fail. It holds although `bb_create` can
answer 0 with `fi->fh` at -1, because libfuse asks for the attributes before
the kernel is given the handle. `AnswersTell`: an answer is success just when
the host said so, and its errno the host's. Of the errno there are exceptions,
which answer a failure all the same: `bb_truncate` and `bb_fsync` drop
`bb_error`'s value and answer -EPERM, `bb_release` answers `close`'s own -1, and a
failing `bb_create` has no errno to answer. Two callbacks are left out:
`bb_readdir`, which asks errno when its first `readdir` finds nothing (on a second
pass over an unrewound stream, or after an rmdir of the open directory), though
none was set, and answers 0 when a later `readdir` fails; and `bb_releasedir`,
which does not look at what `closedir` returns. `ImplementsMounted`: all of this
comes to each request taking effect at one point between its call and its
answer, or not at all, as `MountedFS` says; descriptors do not occur there. Two
exceptions are stated in it: a `bb_mknod` whose close fails reports an error for
a file that is there (`SettleFails`), and a `bb_release` whose close fails has
released the handle all the same (`ReleaseFails`).

### Known departures that no property fixes

The properties above are stated so that a repair of the code keeps them
(`ListersAgree` excepted, which names the links `ls` leaves out). Where the code departs from what its comments say of it, "identical to those of
their glibc counterparts" (`my_stubs.cc` 1-2) first of all, a run refutes the
comment (`documented_*`), or the departure is listed here:

* A write past the end, or at a negative offset, goes to the end of the data.
* A list of attributes needs a buffer of one byte more than it has (918, a strict
  `<`): in one of exactly its size the last name is missing.
* `my_access` of a missing path with the empty mask is granted once a `File` of
  number 0 exists, against its comment (601-603).
* `my_chmod` gives a file with data a directory's type and the reverse, though a
  `File` is said to have one or the other (100), and drops a file's type when the
  mode has no type bits, as one typed in the shell seldom has.
* `my_close` of a number that was never opened takes a link from the file.
* What `bb_release`, `bb_readdir` and `bb_releasedir` answer on failure, as above.

### Fairness

The modules of `my_stubs.cc` but the shell assume none: the file system acts
only when it is called, and their properties are safety properties.

Nor does `BBFS`, though its callbacks would justify some: none waits for another
request, takes a lock or loops on a condition another thread sets. That a
request is answered says no more than that.

`Shell` has `WF_vars(Step)`, for the loop reads on and the user answers what is
asked, and `SF_vars(Exit)`: a user who is time and again at the prompt with
a working keyboard types `exit` in the end. Without the second nothing
obliges a user to leave; weak fairness would not do, for the prompt goes away
with every command typed.

## Proofs

Every safety property of the runs that are expected to pass, invariant or
action property, is proved for all values of the constants, and so are the two
refinements. Each proof has the same shape: a lemma for each helper, a lemma for each action, one inductive
invariant, and the properties from it.

### The table, whatever the caller does

`NameSpaceProofs` proves, for every set of names, every set of paths, every
number of inodes and both values of `FirstSurvives`, from `NameAssumption`
(a name is not "", "." or ".."), `IlistAssumption` and `NameSpaceAssumption`:
`TypeCorrect`, `NoForwardReferenceHolds` and `NumberIsOneFileHolds`, the last
for builds in which the first dentry survives.

The first two are not inductive alone. That `DropLink` leaves unissued entries
blank needs that the file it is given has been issued, which for a path follows
from the range of dentries, and for a handle from what `my_open` returned; and
that range needs every push to be of an issued number. `IInv` has them
together: the table is a `TableBelow(entry, count)` (typed, with the dentries in
`0..count - 1`, blank from `count` on), no handle is held of a number from `count`
on, and number 0 has no type. `NumberIsOneFileHolds` goes call by call
(`OneFile`); the one that needs an argument is `my_symlink`, which looks its new
file up again by path. `StepAfterMaking`, `WalkAfterMaking` and `NewLinkFound`
follow the walk before and after the new dentry is there: what it finds is the
new inode, or nothing, for what was to be found was missing before.

A walk along a path is a recursive function on the number of segments taken.
`WalkExists` and `WalksAgree` unfold it, by a least length for which it would not
be so; from them come the lemmas on what a walk yields, segment by segment.

### The table under the contract

`CarefulProofs` proves `LinkCountExactHolds`, `NamesResolveHolds`,
`TreeShapeHolds` and `CallsActHolds`, all from `CarefulInvariance`:
`CInv == IInv /\ Shaped(entry) /\ Planted(entry) /\ Counted(entry, held)`.
The contract's modes hold permission bits alone, and `CarefulAssumption` has it
that `NewModes` and `Modes` include such.

* `Shaped`: a directory begins with its "." and "..", its other dentries have
  names of which no two are the same, and nothing but a directory has dentries.
  Without it a removal by name or by number could take another dentry than the
  one meant.
* `Planted`: what has a name is there; every directory but the root has one
  name, in the directory its ".." leads to, and that has a lower number. The last
  clause is what makes the tree one: a directory stays in its parent and is made
  after it, so that a walk up gets to smaller numbers until it is at the root.
  It also shows why `my_rmdir`, which removes by number, does not take a "..".
* `Counted`: `st_nlink` is the number of names and handles, and one for the
  root; what has a handle is there. So the erase at 0 comes with the last of
  them, which `Planted` needs as much as it is needed by it: a file erased with
  a name left would leave that name leading nowhere.

In the middle of a call the tree is not whole: `PlantedBut(nd, X)` says what
holds while the directories in X have no name, between the removal and the
erase of an rmdir and between the two halves of a rename.

`CallsActHolds` is for any paths, dots among them. All calls but a rename leave
the directories their paths go through. A rename of a directory may not: "/a/.."
goes through "a" and leads nowhere once "a" is "b", and `Through` says of which
paths that is so. The argument follows both walks, before the call and after.
`Above(nd, d, e)` is that d is e or on the way up from it, said without
recursion: every set that holds e and is closed under ".." holds d. As long as a
walk has not been at the directory moved it is nowhere below it (`StepAside`),
so that it can only get there down the one name the directory has; up to there
the two walks are the same (`WalkAside`), and there the second is lost for good
(`WalkLost`). `PlainRenameMoves` adds that a path of names alone never is such a
path, for the numbers along it grow.

`TreeImplemented`, `CarefulSpec => ImplementsTree`, is for any paths too.
Each call is a step of `FileTree` or a stutter: `MakeMoves` to `HandleMoves` give
it call by call, from what the lemmas above show a call does to the set of names
and to the types.

### The listings

`ListerProofs` proves `VisitReportsAllHolds` and `ListersAgreeHolds`, and for every
directory by every path `SubtreeListed`: what `lslr` shows is exactly what is in
the directory and below it, each name once. `Shows(nd, ls, d)` is that: the lines
of `ls` are the names of the directories d is `Above`, and no line is there twice.

* `FlattenIs`: what is in a flattened sequence, and that nothing is in it twice
  where nothing is twice in a part or in two of them.
* `AboveThrough` and `AboveOnce`: what is below a directory is it, or below
  exactly one of its children. So a listing has everything, and nothing twice.
* `NameLeads`: the path built for a name leads to the file of its dentry. With
  `Planted` no path is lost, and no visit is cut short.
* `VisitDirIs`: if the visits of the children show what is below them, the visit
  of the directory shows what is below it.
* `VisitShows`: with n calls left, the visit of a directory whose number is above
  `MaxIno - n` shows its subtree, by a least n for which it would not. A child has
  a higher number than its parent (`Planted`), so that MaxIno calls are enough,
  from the root too, and the recursion ends.

`ListersAgreeHolds` adds what `describe_file` looks at (`DescribeIs`).

### Directory streams

`DirStreamProofs` proves `MissesNoMoreThanPassedHolds`,
`PastEndOnlyByRemovalHolds` and `NoEntryTwiceHolds`, for scans of any length, from
`SInv == CInv /\ ScanOK`. What a call may do to a directory is `Edited`: one
dentry at most goes, those behind it move up, and a new one comes in at the
end; there is a lemma for each call that says so. `ScanOK` says that what the scan
has returned is in front of its index, and that what it has missed (`Missed`)
is no more than the removals counted in `passed`. Until a scan has ended only
what is in front of the index can have been missed; counting all that has not
been returned yet would not be inductive.

### Data and attributes

`FileDataProofs` proves of `FileData`, for every set of bytes and every bound,
from `FileDataAssumption`: `TypeCorrect`, `SizeWithinDataHolds`,
`DirectoryKeepsDataHolds`, `WriteIsLocalHolds` and `ReadLoopCompleteHolds`. The
invariant adds that a file not made yet has no data (else a directory could be
made of one that had) and that data keep to the bound `MaxLen`. `WriteIsLocalHolds`
rests on `BufferReadsBack`, which takes `my_pread` apart at a place just
written: no wrap of the `size_t`, the branch that returns the size, and a piece
of the data that is the buffer element by element. `ReadLoopCompleteHolds` has
an invariant of its own, of the loop: `Gathered`, which allows for the place one
past the end where a read that returns one too many leaves the reader. `Word` is
assumed to exceed what offset and size add up to.

`AttributesProofs` proves of `Attributes`, for every tree, every set of names
and every order of calls: `TypeCorrect`, `MissingGrantsNoPermissionHolds`,
`LinkOutOfReachHolds` and `ListIsPrefixHolds`. The invariant adds that
the `File` of number 0 keeps a zeroed mode: so it is no link, and `find_ino` of a
missing path stays at 0. `FindElsewhere` is the argument of the third: where no
link leads to a link, `find_ino` ends at another file, whatever the path. For
the fourth, `Filled` is the invariant of the loop of `my_llistxattr`; the bytes
of the names only grow (`BytesMonotone`), so that the first name that does not
fit bounds all that could.

### The shell

`ShellProofs` proves `TypeCorrect` and `ReplayRepeatsHolds`, for dialogues of any
length, from `ShellAssumption`, which has it that `Nothing` is no word (what
`operator>>` reads is never empty). `Plays(words, cs, z)` relates the
words of complete commands to the calls they make, with the words z left over.
`Recorder`, in the first session: as long as nothing is lost, the record plays
the calls made so far and ends with what has been read of the command being
typed; after that, it plays the calls from before the loss. `Player`, in the
second: until those are made, the words read of a command together with those
the script has still to give play the calls that remain. `Blank` says
that a round which has not read its arguments has none. The proof follows a
command word by word, for it is recorded and read back in that order.

### The callbacks

`BBFSProofs` proves of `BBFS`, for every set of threads, names, handles and
objects and every size of the descriptor table, from `BBFSAssumption`:
`TypeCorrect`, `DescriptorsOwnedHolds`, `HandleKeepsItsObjectHolds`,
`AnswersTellHolds` and `ImplementsMountedHolds`. They are one induction. `IInv` is
`TypeOK` with

* `ThreadsOK`: what a request at each point of its callback knows, and that a
  handle being opened is in one request only;
* `HandlesOK`: a handle that is open has a descriptor, the descriptor is open on
  its object, and no two share one;
* `DescriptorsOK`: the descriptor of a `bb_mknod` is open and in no handle, and
  every open descriptor has an owner;
* `TableOK`: the inodes are `1..n`. So the number 0 is never in the table, `my_creat`
  always fails, and a handle from `bb_create` never gets a descriptor.

The last is needed for the second and the second for the third: were
`my_creat` to succeed, `fi->fh` would be an inode number in the place of a
descriptor. There is one lemma for each callback, grouped by what they share
(`AnswersGive` and its kin say what an answer leaves in the thread).

For `ImplementsMountedHolds` each callback is taken to the step of `MountedFS` it
is, or to a stutter, under the mapping at the end of `BBFS`, by which a handle
stands for what its descriptor is open on. The lemmas `RepliesKept`,
`QuietMaps` and `OpeningMaps` say that a step leaves what the mapping makes of
the other threads as it was; that is where `DescriptorsOK` comes in, as the
descriptor a step opens or closes is no other request's.

### Model-checked only

* The liveness properties `ReplayEnds` and `ExitUnlessUnchecked`,
  which are out of the prover's reach: they need ENABLED and fairness.
* What the violation runs refute, which is a matter of one counterexample each.

## Plan

The order is that of weight: the trees first, then what hangs from them.

1. Done: `Ilist`, `NameSpace`, `FileTree`, `CarefulCaller`, `Documented`, and
   the proofs about `NameSpace`.
2. Done: `DirStream`; `FileData` and its proofs.
3. Done: `BBFS` with `MountedFS`, the invariants and the refinement proved.
4. Done: `Attributes` and its proofs; `Lister`; `Shell`.
5. Done: the proofs under the contract (`CarefulProofs`), the refinement of
   `FileTree`, the proofs of `DirStream` and of `Shell`, and of the loops in
   `FileData` and `Attributes`.
6. Done: `visit` as a recursive function and the proofs about it
   (`ListerProofs`); `CallsAct` for paths with dots.
7. Left: nothing that is planned. What a team might add is in the hazards of
   `PROJECT.json` that no property covers.

## Not modelled

* `log.c` and `describe_file`'s formats write text nothing reads back. The
  exception is what logging may do to errno, which `BBFS` has.
* `my_calls.cc` beyond `my_creat` and `inode_init`: no callback reaches the rest.
  What follows the root check in `my_creat` is not reached either, for nothing
  makes the inode 0 it looks for.
* Two creates at once: `my_ilist` is a `std::map` that `inode_init` reads and
  changes without a lock. That is a data race on a tree of pointers, whose
  outcomes are not enumerable in terms of the model; a create is one step.
* `break` in the shell leaves the loop to a fixed demonstration, two mkdirs and
  listings of them, after which the program ends.
* `find_ino` copies a link's target into 50 bytes; the paths of the model are
  shorter.
* Times, owners and sizes on disk are data that no modelled call decides on,
  beyond what `Attributes` keeps of them. Extended attributes are without their
  bytes: `my_lgetxattr` writes none to its caller.
* `my_file.h` is used by nothing. `fuse.h`, `config.h`, the autotools files and the
  tutorial text are not this program's logic.
