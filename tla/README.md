# EmLDB in TLA+

EmLDB packs LevelDB (the leveldb-mcpe fork) as WebAssembly for Node.js: a C++
environment that reaches the file system through `fs`, an encrypting layer
(MCNE), bindings, and a JavaScript class that owns the native objects. The
modules here specify the parts of it that keep state and can go wrong in ways a
test would hardly reach; TLC checks them on small instances and TLAPS proves
theorems about them for all values of their constants.

LevelDB itself is a submodule and not part of the sources: it is the *caller* of
the environment and the *callee* of the bindings, and is modelled only through
the calls they see.

## The system

| Component | State | Operations | Interacts with |
|---|---|---|---|
| Writable files (`env_emscripten.cc` 161-363) | `m_fd`, `m_buffer`, `m_immediate`; the file on disk | Append, Flush, Sync, Close, destructor | LevelDB calls them, one at a time for each file; they call `fs.writeSync`, `fsyncSync`, `closeSync` |
| Readable files (63-158) | `m_fd`, the system's position | Read, Skip | called by LevelDB and by MCNE |
| Descriptors | the process's table of descriptors | open, close | shared by all file objects of all threads |
| Background queue (686-706, 759-785, 450-461) | `m_queue`, `m_bgStarted`, `m_shutdown`, `m_mutex`, `m_bgsignal` | Schedule, BGThread, destructor | clients of all databases and the tasks themselves |
| Lock table (365-389, 661-684) | a set of names | LockFile, UnlockFile | one process only |
| Directory operations (535-659) | the directory tree | GetChildren, CreateDir, DeleteFile, RenameFile, GetFileSize | two `fs` calls each |
| MCNE files (`leveldb_mcne.cc` 36-352) | an offset in each reader and writer | Append, Read, Skip, open | wraps the environment's files |
| EncryptDB, InferDB (354-543) | the files of a closed database | one long call | environment, without MCNE |
| `LevelDB` object (`emldb.js` 628-900, `emldb.cc` 247-412) | `db`, options, `derivatives`, finalizers | open, close, put, get, delete, write, batch, iterator | owns native objects; the collector works at moments of its own |
| Iteration (`emldb.js` 375-533) | the base iterator, a prefetched position | next, return | the `LevelDB` object |
| `initialize` (1-13, 75-89, 549-572) | the module, its promise, the profile | initialize | Node's module loader |
| Options, compressors (`emldb.js` 111-314, `emldb.cc` 37-192) | native option objects | conversion | LevelDB |
| Bridge to `fs` (`emldb_fs.cc`), port, logger, clock | none of their own | | |

What is hard: partial writes and failures in the middle of a buffer, retries
after them and crashes between two system calls; a descriptor number that means
another file the second time it is used; threads that meet in one queue; a key
position kept in three places that must agree; an in-place rewrite of a whole
database that may stop anywhere and be repeated; native memory that is freed by
the script, by `close()` or by the collector, in any order; overlapping calls of
an asynchronous initializer. `PROJECT.json` lists these hazards, each at its
line with the properties that cover it.

What makes each component correct, in a line: *writable files* - bytes accepted
reach the file once and in order, and what a successful call promised survives;
*queue* - each task runs once, in order, and nobody waits for ever; *descriptors* -
every one is given back, and who closes one has not left its number to another; *MCNE* - what is read is what was written, at
every position; *EncryptDB* - OK means done, a failure damages little, and the key
inferred from one file is that of the others; *directory operations* - each
answers for one moment of its call;
*`LevelDB` object* - no use after free, no double free, no leak; *iteration* - a
loop that ends without an exception has seen everything; *initialize* - a
resolved call can use what it asked for; *options* - no pointer outlives its
object, and blocks written with another setting stay readable.

## Modules

| Module | Models | Properties |
|---|---|---|
| `WritableFile` | `EmWritableFile`, `EmBufferedWritableFile` | integrity, crash prefix, durability, completeness on close; implements `AppendOnlyFile` |
| `AppendOnlyFile` | the contract LevelDB relies on (abstract) | |
| `MCWritableFile` | the slices of `sync_block_file` | |
| `EncryptedFile`, `MCEncryptedFile` | `McneWritableFile` over the environment's files; extends `WritableFile` | the cipher follows the file |
| `Cipher` | `PerformXorOn` | |
| `WritableFileProofs` | | theorems about `WritableFile` and `EncryptedFile` |
| `BackgroundQueue` | `Schedule`, `BGThread`, `~EmscriptenEnv` | no lost wakeup, liveness; implements `FifoExecutor` |
| `FifoExecutor` | the contract of `Env::Schedule` (abstract) | |
| `BackgroundQueueProofs` | | theorems about `BackgroundQueue` |
| `Descriptors` | open, close and destructors of all file objects | which files can lose their handle, where that begins, no leak |
| `DescriptorsProofs` | | theorems about `Descriptors` |
| `FileSystem` | the bridge's calls on paths (`emfs_*`) and the tree below | |
| `Environment` | `EmscriptenEnv`'s operations on files and directories, the lock table; extends `Descriptors` and `FileSystem` | implements `Namespace` |
| `Namespace` | the contract of these operations (abstract): each is atomic | |
| `MCEnvironment` | the sizes of listings, the bounds and the symmetry of the run | |
| `EnvironmentProofs` | | theorems about `Environment` |
| `McneFile`, `MCMcneFile` | the three MCNE file classes | file deciphers, reads return plaintext |
| `McneFileProofs` | | theorems about `McneFile` |
| `EncryptDb` | `EncryptDB` | OK means every file, twice restores, one file at risk |
| `InferDb` | `InferDB`, over the states of `EncryptDb` | the inferred key fits every file, an empty one means unencrypted |
| `EncryptDbProofs` | | theorems about `EncryptDb` and `InferDb` |
| `DbLifecycle` | `LevelDB`, iterators, batches, finalizers | handles usable, options outlive the database, no double free, no leak |
| `DbCalls` | what the calls on an open database answer; extends `DbLifecycle` | writes answer truly (violated) |
| `Iteration`, `MCIteration` | `LevelDBIterator`; extends `DbLifecycle` | an ended loop is complete, one pair lost at most, nothing left behind |
| `DbLifecycleProofs` | | theorems about `DbLifecycle` and `Iteration` |
| `Initialize` | `LevelDB.initialize` | resolved means ready, every call settles |
| `OpenOptions` | `LevelDBOptions` over `OptionsWrapper`; extends `Initialize` | no dangling pointer, old blocks readable |
| `OpenOptionsProofs` | | theorems about `Initialize` and `OpenOptions` |

A definition whose name starts with `Bad` is the next one with a plausible bug;
no specification uses it. `PROJECT.json` pairs each property with one of them,
and TLC finds the property violated when the one replaces the other.

### WritableFile

`src` stands for `m_buffer` and, for the unbuffered class, for the slice of the
Append in progress: the two classes run the same loop. A call is a step that
enters it, then one step for each call into `fs` (`WriteSome`, `WriteAll`,
`WriteFail`, `FsyncOk`, `FsyncFail`, `CloseOk`, `CloseFail`), so that a crash of
the process or of the machine can fall in between. `kind` says which class
`NewWritableFile` chose: `raw` (`EmWritableFile`), `log` (`m_immediate`) or
`block`. `os` is the file as the operating system has it, `durable` the length
of its synced prefix; `stream`, `flushed`, `synced` are history.

Two remarks on which kinds a program meets. `m_immediate` depends on
`ParseFileName`, which belongs to LevelDB and is given a whole path (504, 526);
if it accepts only bare names, every buffered file is a `block` file and
`SyncedIsDurable` (violated) is what counts. And `fileWriteBuffer: 0`, which
would select `raw`, is refused by `normalizeInitOptions` (`emldb.js` 85).

The abstract specification `AppendOnlyFile` hides the buffer, the calls and the
descriptor: bytes are accepted, move to the file in order, are given up only by
an unbuffered file, are covered by a sync, and a crash keeps what was synced.
The mapping is the identity on `kind`, `stream`, `os`, `durable`, `synced`.

### EncryptedFile

`WritableFile` as LevelDB uses it: directly, when there is no key or the name is
exempt, or through a `McneWritableFile`. `stage` is how far `NewWritableFile` has
come with the magic number, which goes through the same buffer; `woff` is the
wrapper's `offset`. All other state and every call of `fs` are those of
`WritableFile`, so the encrypted slices are buffered, cut short, retried and lost
in crashes as there. A log is never encrypted, its name being exempt. `gaveUp`
records that an unbuffered file dropped bytes of a slice, after which the offset no
longer fits and `CipherFollowsFile` claims nothing.

### BackgroundQueue

Each acquisition, wait, signal and release is a step. `call[t]` is where thread
`t` is in `Schedule` (the background thread calls it from inside a task), `bg`
where `BGThread` is. A signal reaches only a thread that waits; a wait may end
without one. `pthread_create` may fail. `Env::Default()` is never destroyed, but
the destructor is code: the run lets it come at any moment at which C++ allows
it, that is, with no client inside a call.

### Descriptors

`table` maps each number to the object it was opened for; `fd[o]` is `m_fd`,
a number that the object goes on holding. A close acts on the number, whoever
has it. A buffered file is destroyed in two steps, since its base class closes
again. `CloseReleases` says that a close which throws may have released the
descriptor; Node leaves that to the system.

`HandleStaysOpen` is what one would like: a file whose closes did not throw keeps
its handle. With a thread that opens files beside one that destroys them it does
not hold (`descriptors_threads`), nor with one thread if a close that threw had
released the descriptor. What does hold always is stated with the history variable
`shared`, the files that were opened under a number which another object, not yet
destroyed, still had in `m_fd`. Only these can lose their handle
(`OnlySharedLoseHandles`); and the object that kept the number is one of three kinds
(`NumbersSharedWhenStale`): a buffered file between its two destructors, a file a
close of which threw, or one that lost its own handle in this way. So a repair has
two places to look at, the destructor (268-276) and the failed close (300, 213),
and no other: a `Close()` that works leaves no number behind.

### FileSystem, Environment, Namespace

`tree` says what is under the database's directory and each name in it: nothing,
a file or a directory. A definition of `FileSystem` is one call of `fs` as the
bridge reports it: `kFsOk`, `kFsNotFound` for ENOENT, `kFsError` for any other
exception; `emfs_readdir` reports every exception as `kFsError`, and the bytes
it needs when the buffer is short. Which code a call of `fs` ends in is taken
from POSIX, since Node is not part of the sources. While `disk` fails, any call
may report an error and do nothing.

`Environment` has one action per call of `fs`: `call[t]` keeps the locals of the
operation thread `t` is in, `tested` that it is past its first call. Between two
of them other threads and processes change the directory (`Others`) and the disk
may break or recover. An open that works makes an object of `Descriptors`, whose
owner then writes, closes and destroys it. `GetChildren` lists up to four times,
each with the size the listing before asked for.

`Namespace` is what a caller would like to rely on: an operation takes effect and
finds its answer at one moment of its call. `Environment` implements it with the
identity on `tree`, `disk` and `reply`, the request being the operation and its
paths. An `IOError` needs a reason there. Two of the reasons speak of the time
between the calls of `fs`: `CreateDir` may find that the directory it missed has
come since, and `GetChildren` gives up when the directory changed at least three
times while it ran. `changes` counts this, in both modules; it is history and no
guard of the code depends on it.

`NewSequentialFile` stands for `NewRandomAccessFile`, and `NewWritableFile` for
`NewAppendableFile` and `NewLogger`: they differ in the flags of the open and in
the class of the object made.

`locked` is the set of the lock table, `holds` the name in each locker's
`FileLock`. The mutex around the table makes an insertion or a removal one step. That
a name has one holder within the process is the test in `LockFile` and nothing more,
so no property says it.

### McneFile

A byte is a set of bits and `^=` the symmetric difference (`Cipher`). The writer's
`offset`, the sequential reader's `offset` and its position in the file below
are separate variables, as in the code. `Retains` says whether the file below
keeps the bytes of a failed Append: the buffered class does, as `CipherFollowsFile`
shows of the class itself. A read or a Skip may
fail: the readers then leave their offset, and the file below its position, except
that a Skip which fails between two of its 64 KB chunks has moved on (`SkipsBreak`).
`ShortReads` and `SkipsBreak` switch on the two cases in which `ReadsPlaintext` does
not hold (see the hazard at line 105).

### EncryptDb

A file is its magic number, how much of its bytes there is, and the set of keys
it is XORed with. The loop takes the files in any order, since `GetChildren`
promises none. The process may die at any step, the machine does not: `EncryptDB`
never syncs, so after a power failure files it was done with may be damaged too, and
`OneFileAtRisk` claims nothing of that. `PathExempt` and `SizeFails` switch on two cases in which
`OkMeansEveryFile` does not hold (see the hazards at lines 471 and 477).

### InferDb

Extends `EncryptDb` by one action, `Infer`, between any two of its calls:
`InferDB` changes no file, and no other call runs meanwhile. Of its arithmetic
two facts are kept. XORing the right name with CURRENT leaves the stream of the
keys CURRENT is encrypted with, and names of MANIFEST files differ only in a
digit after the first eight bytes, so with the wrong name the stream is not
periodic. A CURRENT cut short has another length than the name. Both properties
speak of all files, though `InferDB` looks at one, and hold for all of them only
while no call of `EncryptDB` has failed.

### DbLifecycle

`natives` are the live C++ objects; `held` what the script refers to;
`collected` what the collector reclaimed; `registered` which finalizers are
pending. Collection and finalization are separate steps, which is what leaves
WeakRefs empty before their finalizers run. The options have finalizers of their own,
which are left out: until the options are freed, and their finalizers unregistered,
`open()`, the `LevelDB` object or the value registered for it refers to them. The
native database has none before `open()` has succeeded, so what a failed `open()`
forgets of it is lost.

### DbCalls

`put`, `delete`, `write`, `get`, `compact` and `getProperty` change no lifetime;
their answers are modelled because a `finally` replaces two of them.

### Iteration

`cursor[i]` is the loop over the iterator `i` of `DbLifecycle`: how many pairs its
snapshot has, where the native iterator is, whether its status is an error, and
what `key()` and `value()` read and `next()` returned. The native iterator belongs
to LevelDB; what the loop meets of it is that moving on leads to the next pair, or,
with an error left behind, past some of them or to the end. `close()`, `free()`,
the collector and the finalizers are those of `DbLifecycle`, between any two calls
of `next()`.

### Initialize

Each call is synchronous up to the shared promise. A load ends in `LoadDone` or
`LoadFails`; `RequireThrows` is the loader throwing before there is a promise.

### OpenOptions

`version` counts the objects each owner of `OptionsWrapper` has held, so that an
object and its replacement differ; `pointers` are the raw pointers in `m_options`.
`stage` is how far the constructor of `LevelDBOptions` is: its settings come in the
order of the source, each optional, and any of them may throw.

## Runs

| Run | Expect | Bounds | Shows |
|---|---|---|---|
| `writable_file` | pass | `EncryptedFile` with 2 byte values, slices of 1 to 3 bytes, a key of 2, a magic number of 1, buffer of 2, 5 bytes in all, all kinds | all properties of `WritableFile`, the refinement, and the cipher |
| `sync_block_file` | violation | 3 bytes, `block` only | `Sync()` returns OK with bytes in memory |
| `background_queue` | pass | 2 clients, 3 tasks, failing creation, destructor | safety, refinement and liveness of the queue |
| `descriptors` | pass | `Environment` with 2 threads, 3 file objects (1 buffered), closes that throw and may release, the directory and 3 names, 1 of them possibly a directory; 1 locker, 1 lock | atomic operations, which files can lose their handle and where that begins, no leak |
| `descriptors_threads` | violation | 2 threads, 2 objects | the second close takes another file's descriptor |
| `mcne_file` | pass | 2-bit bytes, key of 3, slices of 1, 2, 4, offsets up to 5 | the key stays in step |
| `encrypt_db` | pass | CURRENT, two MANIFEST files and a log, 2 keys, 3 calls | what OK, two calls and a failure mean; what InferDB answers in between |
| `encrypt_rerun` | violation | 2 files and a log, 2 keys, 2 calls | the direction is not decided on the database |
| `db_lifecycle` | pass | `Iteration` with 2 iterators or loops, snapshots of up to 2 pairs, 1 batch, 2 openings | lifetimes, and what a loop yields |
| `db_iterators` | violation | 1 iterator, 1 opening | an iterator outlives its database |
| `db_write_answers` | violation | the same, with `DbCalls` | `delete()` and `write()` always answer false |
| `initialize` | pass | `OpenOptions` with 4 calls, 2 profiles, each setting made or not | overlapping initialisation, and the options made after it |

Why the bounds are enough: a buffer of two bytes with slices of one to three has
slices that fit, fill and overflow it, and a second flush after a failed one;
five bytes let two such flushes follow each other. The key of two bytes against
slices of one to three, after a magic number of one, puts each slice at each place
of the key and of the buffer. Three tasks let one run, one
wait and one be scheduled by the task that runs. The key of three bytes against
slices of one, two and four makes the position wrap within and between slices.
Three calls of `EncryptDB` are what "two in a row after one that failed" needs.
Two openings and two iterators let an iterator of the first session meet the
second; two pairs have a first, a last and an error between them. In `descriptors`
the names take 1, 2 and 4 bytes in a listing, so every listing has a size of its
own, and the first buffer holds 1, so that four listings in a row can be too long:
the last attempt of `GetChildren` happens. Three objects are a buffered file that is
destroyed, a second that takes its number and loses it, and a third that takes the
number of the second. The two threads open and destroy files side by side; two
constraints of `MCEnvironment` keep the run small. `OneCaller`: one thread at a time is
in an operation; the other processes, which change the directory at any moment, take
the part of the other threads for it. `FilesApart`: the operations that open no file,
and the locks, share no variable with the file objects, and run only before the first
file is made; after it the disk works and the directory has one entry at most. The
theorems have neither bound. Four calls of `initialize` let a load fail, be retried with the other
profile, be joined and be refused. Bounds named `Max...` are guards of the
model, not of the program. Deadlock is not checked: files are destroyed, tasks
run out, calls are bounded, so every model may stop.

The five violations are disagreements between the code and its comments or
typings, described with their lines under "findings" in `PROJECT.json`.

### Fairness

Safety needs none. `BackgroundQueue` assumes that a thread inside `Schedule`,
`BGThread` or the destructor takes its next step (weak fairness; threads are
scheduled by the system) and that a thread wanting the mutex is not passed over
for ever (strong fairness, since spurious wakeups take it too). Nothing is
assumed of clients, of tasks, or of spurious wakeups; that tasks end is a
premise of the two properties that need it. `Initialize` assumes that Node
settles the promise of a load one way or the other; `OpenOptions` adds that the
constructor of the options, one synchronous stretch of the script, runs to its end,
and that no load settles during it. `Environment` and `Iteration` have safety only:
nothing in the code makes a caller, a collector or a failing disk go on.

## Proofs

Every safety property that a passing run checks is also a theorem,
for all values of the constants; liveness is not, being out of the prover's reach.
Three premises are left, and the property is false without each: `ReadsWhole` of
`ReadersInCipher`, and that `SizeFails` and `PathExempt` are off in five theorems about
`EncryptDb` and `InferDb`. They are constants of the runs, and TLC finds each of these
properties violated when the switch is the other way in `mcne_file.cfg` or
`encrypt_db.cfg`; the code behind them is in the hazards at lines 105, 471 and 477.
The assumptions about constants are their types, that names are distinct, and
`EncryptedAssumption`.

`WritableFileProofs` proves, for every buffer size, every set of slices, every
set of kinds and any number of bytes: `TypeCorrect`, `NoByteLostOrRepeated`
(`StreamIntegrity`), `CrashSafety` (`CrashLeavesPrefix`), `CloseSafety`
(`ClosedIsComplete`), `SyncSafety`
(`SyncCoversStream`) and `ImplementsAppendOnlyFile`
(`KeepsPromise`: the refinement of `AppendOnlyFile`). The only assumption is
`FileAssumption`, the types of the constants.

None of these properties is inductive. The invariant `IInv` adds what the
control state says of the buffer: the loop's offset is zero outside the loop and
never beyond the buffer; an fsync is reached with an empty buffer unless the
file is a `block` file; a close is reached with an empty buffer or from a
destructor whose flush failed; a closed file is idle, complete and empty; and
the synced and flushed lengths lie within the file. With it, `os \o Rest =
stream` is kept by a short write because the rest of the buffer splits at the
new offset (`SplitRest`), and a crash leaves a prefix because a prefix of a
prefix is one (`PrefixOfPrefix`).

The refinement follows from it step by step: a write that moves bytes is a
`Transfer` since the file stays a prefix of the stream, a failed write of an
unbuffered file gives up, and an fsync covers everything because of how it is
reached; every other step leaves the abstract file alone.

Of `EncryptedFile` it proves, for every key and magic number besides:
`EncryptedTypeCorrect` (`EncryptedTypeOK`), `EncryptedIsWritable` (`EncryptedSpec =>
Spec`: a file below the wrapper is used as LevelDB uses one), from which
`EncryptedKeepsBytes` and `EncryptedKeepsPromise` follow, and `OffsetFollowsFile`
(`CipherFollowsFile`). The invariant `CipherInv` says that the stream of the file is
the magic number and the plaintext under the key from place 0, and that `woff` is the
length of that plaintext, unless an unbuffered file dropped bytes. An Append keeps it
because enciphering at a place is a homomorphism for concatenation (`XorOnConcat`), and
the file is a prefix of its stream by the invariant of `WritableFile`: short writes and
crashes need no argument of their own. `EncryptedAssumption` says that an encrypted
slice is one the file below accepts.

`BackgroundQueueProofs` proves, for any set of clients and of tasks:
`TypeCorrect`, `MutualExclusion`, `WakeupNeverLost` (`NoLostWakeup`) and
`ImplementsExecutor` (`RunsInOrder`: the refinement of `FifoExecutor`). The only
assumption is `QueueAssumption`, that the names of threads and of tasks are
distinct. The invariant `IInv` has three parts beyond the types. `MutexInv`: who
is inside a section holds the mutex, so at most one is; without it two threads
could both find the thread not started, or a throw could release the mutex of
another. `ControlInv`: `m_bgStarted`, `m_shutdown` and BGThread's local item say
where the two threads are. `PlaceInv`: a task is in one place at a time, not yet
handed over, carried by one call, or known to the executor; without it a push
could repeat a task. `NoLostWakeup` is then kept because a push and its signal
happen under one hold of the mutex, and the thread goes to wait only under it.

`DescriptorsProofs` proves, for any threads, any file objects and any of them buffered,
whatever a close that throws did: `TypeCorrect`, `HandlesStayOpen`
(`OnlySharedLoseHandles`), `SharingBegins` (`NumbersSharedWhenStale`) and
`DescriptorsComeBack` (`NoDescriptorLeak`). The only assumption is
`DescriptorAssumption`, the types of the constants. The invariant adds that an object
not yet made has no descriptor (`NewHasNone`), that an object in the table has that
number in `m_fd` (`OwnerKnowsNumber`), and that a file which is not in `shared`, and no
close of which threw, is the only one not yet destroyed to have its number
(`UnsharedIsAlone`). An open keeps the last since the number it gives is free in the
table, so that no such file has it, and since the object that gets it is marked if
anyone has; a close takes the handle of another file only if both have one number.
`SharingBegins` follows: who has a number that is free in the table is not a file with
its handle. That no descriptor leaks rests on `OwnerKnowsNumber` alone.

`EnvironmentProofs` proves, for any number of threads, names, objects, lockers and
changes by others: `ImplementsNamespace` (`AnswersAreAtomic`), `FilesKeepHandles`
(the three properties of `Descriptors` when its objects come from the environment's
operations: `EnvSpec` implements `Spec`) and `EnvTypeCorrect` (`EnvTypeOK`). The refinement needs what a call remembers of the tree: a listing that did not fit is of
the size asked for now, or the tree was seen to change (`RoundsSeen`), and what
`CreateDir` missed is still missing, or the tree was seen to change (`TestSeen`).
With them the last step of a call maps to `Take`, an answer at a moment of the call,
and every step before it stutters. Two conjuncts of `EnvTypeOK` need more than types. A
directory that is gone has nothing in it (`NoOrphans`) because the operations that make,
remove and rename files act on names of the directory, never on the directory itself
(`ActsOnNames`), which holds of every call until it answers; and the changes a call has
counted are no more than it watches for, by what it remembers. The assumptions are `DescriptorAssumption`,
`FileSystemAssumption` and `EnvironmentAssumption`, the types of the constants.

`DbLifecycleProofs` proves, for any iterators and batches and any number of openings:
`TypeCorrect`, `HandlesWork` (`HeldHandleIsUsable`), `OptionsLast`
(`OptionsOutliveDb`), `FreedOnce` (`NoDoubleFree`) and `NothingLost` (`NothingLeaks`).
The only assumption is `LifecycleAssumption`, that the names of the objects are
distinct. The invariant says of each handle (`HandleOk`) that the native object, its
finalizer and, until the handle is collected, the script's pointer to it come and go
together; of each iterator (`IteratorOk`) that the database knows it as long as its
WeakRef does, and that one the script holds belongs to the open session; and of the
database (`DbOk`) which of its objects live at each stage of `open` and `close`. A
second deletion would need a finalizer that is still registered for an object already
gone, which `HandleOk` excludes. `OnlyCollectedOutlive` says how far the claim that
`db_iterators` refutes does hold: when `close()` destroys the database, the only native
iterators left are those that were collected and wait for their finalizers.

Of `Iteration` it proves, for snapshots of any size, assuming `IterationAssumption`
besides: `LoopsTypeCorrect`, `LoopsComplete` (`DoneMeansComplete`), `PairsInOrder`
(`AtMostOnePairLost`), `LoopsFreed` (`EndedMeansFreed`), and `LoopsKeepObjects`: the
four properties above when iterators belong to loops. Its invariant is that of
`DbLifecycle` with, for each loop: the pairs read are in order, and without an error
they are all those before the place of the native iterator (`InOrder`, `Ahead`); a
running loop has yielded what it read, and a complete one has read its whole snapshot
without an error (`LoopOk`); and the iterator of a loop that ended is gone.

`McneFileProofs` proves, for every key, every set of slices and files of any length:
`TypeCorrect`, `WriterInCipher` (`FileDeciphers`) and `ReadersInCipher`
(`ReadsPlaintext`, under the premise `ReadsWhole`: neither short reads nor broken
Skips). The invariant states the cipher byte by byte (`Ciphered`), since a sequence
equation does not survive an append at another offset; that the writer's offset is the
length of the file while it is written (`WriterInStep`); and that the reader's offset
is its position or that both are at or past the end (`ReaderInStep`), which is why
adding the size asked for is harmless there.

`EncryptDbProofs` proves, for any files, keys and number of calls: `TypeCorrect`,
`OneFileDamaged` (`OneFileAtRisk`), `OkCoversEveryFile` (`OkMeansEveryFile`, if the
path holds no exempt name and every file has a size) and `TwoCallsRestore`
(`TwiceRestores`, if every file has a size). The invariant says which files a call has
dealt with and what it made of them (`TurnedInv`), the same of the call before
(`EarlierInv`), and counts the files damaged before the one at work was touched
(`Damaged`), which only a failure or a crash can add to; that two turns cancel out is
`NewContentTwice`.

Of `InferDb` it proves `AnswerTypeCorrect` (`AnswerOK`), `KeyOfEveryFile`
(`InferredKeyFits`) and `EmptyKeyIsTrue` (`EmptyKeyMeansUnencrypted`), the last two if
every file has a size: `EncryptDB` passes over one that has none in silence and returns
OK, which no later call can tell. Two facts are needed about files `InferDB` does not look
at. As long as no call has failed, the files that may be encrypted had one content when
the last call began and the others were plain (`Uniform`), and what a call that returned OK
made of them is again one content. And a file has its magic number exactly when the
number of its keys is odd (`Consistent`), since each rewrite turns both, so an empty set
of keys means that there is none. `OneDirection` follows from the same: the files
take one direction as long as no call stopped half-way, which is how far the claim that
`encrypt_rerun` refutes holds.

`OpenOptionsProofs` proves, for any callers, profiles and buffer sizes:
`CallersGetTheirProfile` (`ResolvedMeansReady`, of `Initialize` alone) and
`ProfileWhileOpening` (the same while options are made between the calls),
`PointersLive` (`NoDanglingPointer`), `CompressorsFound` (`OldBlocksReadable`) and
`OptionsTypeCorrect`. `LoadInv` ties every caller that waits or has resolved to the
profile of the load it shares, and the module to that profile; a failed load clears the
profile with its last waiter settled, so a retry with another one breaks nothing.
`OptionsInv` says that the table of compressors is always the one
`m_installCompressors` makes of the objects now held, with one of them as the writer,
and that every other pointer is null, or the address of the one object its owner has
held; the two facts about the table, that it has both zlib compressors in front of
any hole and no slot of an object that is gone, are lemmas about `Packed`
(`PackedIs`, `SlotsAre`).
`InitializeAssumption` says that the marks for no module and for a promise's state are
not names of profiles or sizes.

Only model-checked: liveness (`ScheduleReturns`, `QueuedTaskRuns`, `DestructorReturns`,
`EveryCallSettles`), which is out of the prover's reach, and the violations, which a
trace shows.

## Not modelled

- LevelDB's own code (not in the sources). What it does with the environment and
  the iterators is taken from the calls the sources make and answer.
- Marshalling, formatting, logging, the clock: no property rests on them. A
  comparator is refused by the constructor of the options, which `OpenOptions` has.
- The static calls `destroy`, `repair`, `infer`, `encrypt`: one native call each,
  with no state between calls; `EncryptDB` and `InferDB` themselves are modelled.
- `seek`, `prev` and `seekToLast` of a plain iterator: they move LevelDB's own
  iterator and nothing else. Its lifetime is that of `DbLifecycle`.
- Locks between processes and between two spellings of a path: the lock table does
  not see them. The comment at line 669 says so; that at line 365 ("File lock backed by
  an atomically-created cross-process guard file") speaks of a file that the code does
  not make. LevelDB's own `LOCK` therefore keeps no second process out.
- A power failure during `EncryptDB`, which syncs nothing.
- Directories with files of their own below the database's: LevelDB makes none.
- Benchmark and build scripts, typings.

## Plan

Done: the writable files, plain and encrypted, the queue, the descriptors, the
directory operations, MCNE, `EncryptDB` and `InferDB`, the `LevelDB` object and
iteration, initialisation and options, each model-checked, with its safety proved for
all instances.

Left, in this order:

1. An abstract specification of the lifetime of native objects, and a proof that
   `DbLifecycle` implements it.
2. Weaker premises where the code allows them: what a file's readers may rely on when a
   read is short or a Skip breaks off.
