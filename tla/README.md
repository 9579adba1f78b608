# TLA+ models of BMSTU6_OS

Specifications, model checking and proofs for the programs of the operating
systems course in this repository: daemons, kernel modules and socket programs,
each small and each its own process, thread or module.  What makes them hard is
not their size but their surroundings: signals, interrupts, works, clients and
other copies of the same program act between any two of their statements.

Tools: `tlc -config X.cfg M` checks a run, `tlapm M.tla` checks the proofs of a
module.

## 1. Inventory

The programs share no code and no state; each interacts with the kernel and
with processes of its users.

| component | source | state | operations | who interferes |
|---|---|---|---|---|
| Daemon | `lab_01/daemon/main.c`, `src/apue.c` | the pid file and its lock, disposition of SIGHUP, signal mask, pending signals | daemonize, lock, write the pid, block signals, sigwait thread | other copies, signals |
| Supervisor | `lab_01/daemon/code_rago/dem.c` | `need_start`, `pid`, `status` of the monitor; the worker; both processes' pending signals | fork, sigwaitinfo, wait, kill, restart, end | signals to either process, stops, errors, failing forks |
| NetServer, NetClient | `lab_08/src/part_2` | `arr_sock`, the `fd_set`, descriptors, the queue of `listen()`, a byte stream per connection | select, accept, recvfrom, close; connect, send, die | clients at any moment |
| KbdWorkqueue | `lab_09/task2/md.c` | `info_last`, `curr_index`, the queue, the handler, the /proc file | md_init, md_exit, irq_handler, two works, show | interrupts, readers, loading and unloading |
| Fortune | `lab_04/src/part_02/fortune.c` | `cookie_buf`, `read_index`, `write_index`, `tmp` | fortune_init, fortune_exit, fortune_write, fortune_read | readers and writers in other processes |
| Catalog | `lab_02/catalog` | a stack of directories, one path that is extended in place | Push, Pop, ExpandPath, OutputPath, opendir, readdir, lstat | whoever removes files meanwhile, permissions, failing calls |
| UnixDgram | `lab_08/src/part_1` | the file `socket.soc`, a queue of datagrams per server | socket, bind, recvfrom, Cleanup; CreateMessage, sendto, close | other servers, clients, signals, the file a killed server left |
| FileIO | `lab_05/src` | two descriptors or streams on one file, their offsets and buffers | read, write, fopen, fprintf, fclose, pthread_create | the other descriptor, the other thread |
| Tasklet | `lab_09/task1/md.c` | a tasklet with its two bits, a handler, a /proc file | md_init, md_exit, irq_handler, my_tasklet_function | interrupts and softirqs on any CPU |
| MyFs | `lab_07/src/slab.c` | a slab cache, inodes with an object each, references of mounts | myfs_init, myfs_exit, myfs_mount, umount | mounts at any moment, failing allocations |
| KernelModules, ProcReader | `lab_03/src`, `lab_04/src/part_01` | none of their own | print | none |

What each must get right, and what is hard about it:

* **Daemon**: one instance; the pid file names it; signals end it only on
  request.  Copies start, fail and are killed at any step, and the file keeps
  what an earlier owner wrote.  Between restoring SIGHUP and blocking signals
  there is a gap.
* **Supervisor**: one worker, replaced when it dies of an error, not replaced
  when it returned; `kill()` reaches the worker and nobody else; a request to
  end is obeyed.  SIGCHLDs merge and are left over, the pid is used long after
  it was obtained, and `wait()` is entered for a mere stop.
* **NetServer**: no call blocks for one client; slots and descriptors agree
  while numbers are used again; every word is answered for the right client;
  nobody starves; clients that find no slot are never closed.  TCP does not
  keep the boundaries of words: they arrive together or in pieces.
* **KbdWorkqueue**: keys appear once and in order; names of any length fit;
  the text ends where the last name does; unloading leaves nothing behind.  The
  port is read when the work runs, works are merged, the handler exists before
  and after the queue, a reader comes between two characters of a name, and the
  NUL of a full buffer is written behind it.
* **Fortune**: cookies come back whole and in turn; indices stay at the bounds
  of cookies; nothing leaves the page.  Several tests are off by one and calls
  of different processes overlap without a lock.

* **Catalog**: each entry once, behind its directory and at its depth, `Ok!` only
  when nothing was left out.  One path serves every entry of a directory and is
  truncated and extended again; files vanish between `readdir()` and `lstat()`,
  and between `Push` and `opendir()`; every call may fail, and an error of
  `readdir()` looks like the end of a directory.
* **UnixDgram**: the name in the file system leads to the server that waits.
  A killed server leaves its file, a second one fails in `bind()`, and an error
  cleans up by name, whosever name that is.
* **FileIO**: what two offsets, two buffers or two threads leave in one file.
* **Tasklet**: each key before `rmmod` is followed by a run of the tasklet, and
  when the module goes nothing refers to it. `tasklet_kill()` comes before
  `free_irq()`, and a failed `proc_create()` leaves the handler.
* **MyFs**: every object is back before the cache is destroyed, for mounts that
  come as soon as the file system is registered and fail at any step.

The full list of hazards, with their lines and the properties for them, is
`hazards` in `PROJECT.json`.

## 2. Modules

| module | models | abstract specification | proofs |
|---|---|---|---|
| `NetServer` | `netserver.c`, `netclient.c` | `ServerPool` | `NetServerProofs` |
| `Daemon` | `main.c`, `apue.c` | `SingleInstance` | `DaemonProofs` |
| `Supervisor` | `dem.c` | - | `SupervisorProofs` |
| `KbdWorkqueue` | `task2/md.c` | - | `KbdProofs` |
| `Fortune` | `fortune.c` | `FortuneRing` | `FortuneProofs` |
| `Catalog` | `catalog.c`, `stack.c`, `path.c`, `errors.c` | `TreeWalk` | `CatalogProofs` |
| `UnixDgram` | `fsserver.c`, `fsclient.c` | - | `ProgramProofs` |
| `FileIO` | the five programs of `lab_05/src` | - | `ProgramProofs` |
| `Tasklet` | `task1/md.c` | - | `ModuleProofs` |
| `MyFs` | `slab.c` | - | `ModuleProofs` |

`MC*` modules hold the constants that a `.cfg` cannot write down and the
symmetries. `MCPrograms` puts `FileIO`, `Catalog` and `UnixDgram` next to each
other, `MCModules` does so with `Tasklet` and `MyFs`: these share nothing, so a
behaviour uses one of them while the others are as before their start, and the
states of a run are the sum of theirs and not the product. `map` in `PROJECT.json`
gives the lines behind each definition. Each action is one system call, or one
statement where another process can see the difference; everything the code does
in that step is part of the action.

### NetServer

`spc` is the call the server is about to make.  Its locals keep their names
(`sock`, `arr_sock`, `set`, `i`).  `fdtab` says which client is behind a
descriptor; the kernel hands out the lowest free one.  `backlog` is the queue of
`listen()`, one longer than its argument as on Linux.  A pass is
`Select`, then `Accept`, `AcceptFails` or `NoNewConnection`, then for each slot
`Skip`, `Hangup`, `Answer` or `RecvFails`, then `EndScan`.  Every call of the
start and `select()` and `accept()` may fail whenever they are made, for reasons
the server has no part in, and end it: `Exit` is a return from `main()` with all
that the kernel then closes.

A client connects, sends words, quits, is cut off, and may come again.
`stream[c]` is the bytes that `recvfrom()` can take, `rest[c]` those of the last
word that have not arrived: `sendto()` waits for room with a part of the word
handed over, or the word is cut into segments.  `Cut` are the clients to which
that may happen: for them `Send` only puts the word into `rest`, and `Deliver`
brings any number of its bytes.  When they quit or are cut off, the rest never
comes.  A word of the others arrives whole.  For a pacer, who sends only when
nothing is under way, that is what happens on one host: `netclient.c:22` connects
to the loopback address and `recvfrom()` finds all bytes of one small segment.
For other clients it is a restriction of the model, so the runs of safety and
liveness have a sender whose words are cut.

`Answer` reads what has arrived, at most a buffer full.  A buffer of which the
received part ends in a digit, and `RecvFails` (a result of -1, which the code
takes for a message), make `atoi()` read on in what was in `buf` before: `Found`
is the number of the bytes received, or any that some word spells.  `owed` and
`printed` are history: words sent whose NUL has not been read, and the last line
of output, reduced to slot and number (not the square).

A client has a place, was turned away or is unknown in `ServerPool`; `Accept`,
`Hangup` and `Exit` are its `Admit` or `TurnAway`, `Leave` and `Stop`.

### Daemon

A process is the child that `daemonize()` forks (its parent exits with 0 at
once).  `pc[p]` is the call it is about to make, `fate[p]` how it ended.
`Die` releases the lock and leaves the file.  A signal kills, is ignored or
becomes pending according to `hup` and `masked`; `Handle` and `Terminate` are the
thread in `sigwait()`.  After its end a pid may be used again.  `SIGUSR1` stands
for every signal `thr_fn()` does not expect.  In `SingleInstance` the owner of
the lock is the instance, the file what it publishes, and it works only when the
file names it.

### Supervisor

`mon` is where the monitor is, `worker[p]` where the process with pid `p` is;
a zombie keeps its status in `raw` until `wait()` decodes it.  `mpending` and
`wpending` are sets, as pending signals of one number are one.  Every end, stop
and continuation of the worker is a SIGCHLD.  `SIGTERM` stands for SIGINT and
SIGQUIT too, `SIGKILL` for every signal that is not blocked.  `InitWorkThread()`
is a stub; both its results are modelled as the caller takes them.

### KbdWorkqueue

`mod` is the statement of `md_init()` or `md_exit()` that is next.  An interrupt
sets `port` and queues both works (a work that waits is not queued twice).
`my_wq_function1` is `ReadPort`, `MeasureKey` or `MeasureUnknown`, `CopyChar` for
each character, `Seal`; `show()` is `ShowLength` and `ShowText`.  Names of keys
are abstracted to their lengths.  `info_last` has its `MAX_INFO_LAST` bytes and
no more.  When a name has filled it, `info_last[curr_index] = '\0'` is written
outside of it (`md.c:160`), and `MayDamage` is what that may do: nothing, or
change the low byte of `my_wq`, which a linker may place there.  A damaged queue
is an oops for whoever uses it next, the handler or `md_exit()` (`UseDamaged`).
No other variable of the module is changed by it in the model.  `Strings` is
what `strlen()` and `%s` make of the buffer: up to its first NUL, and without one
also a text that goes on behind it, of which one character stands for any number.
An entry of the table beyond its end (`MeasureUnknown`) is a text that fits, or
the end of what the model can say.  Using a queue that does not
exist, or code of a module that is gone, is an oops and the end of the run.
`typed` is history: the text that the keys spell since the buffer started over.

### Fortune

`fortune_write` is `Write`, `Copy`, `Advance`, `Seal`; `fortune_read` is `Read`,
`Format`, `CopyOut`; calls of different processes interleave unless `Exclusive`.
A cookie is a letter and a count of bytes (users type `count` bytes, the last of
which the code overwrites with NUL).  `Copy` includes a source that can be read
only in part: the kernel zeroes the rest and the call returns -EFAULT.  The page
is followed by a guard page, `tmp` by nothing: passing either end is an oops.
In `FortuneRing` cookies are a sequence that readers go round.

### Catalog

A path is the sequence of names below the directory the walk begins at; its
depth is kept apart from it, as in `struct Path`.  `at` is the call the walk is
about to make.  `Opendir` is one turn of the outer loop up to `opendir()`,
`Readdir`, `Lstat`, `SkipDot` and `Closedir` are the inner one.  `Start` chooses
the tree, `RemoveEntry` is anybody's `unlink()` or `rmdir()`; of an entry removed
after `opendir()` `readdir()` may still speak (`Readdir`, then `LstatFails`) or
not (`SkipRemoved`).

`lstat()` and `opendir()` fail for what is in the tree: a file that is gone, a
path longer than `PathMax`, a directory that may be read but not searched
(`"unsearchable"`: its names are given, `lstat()` of them is refused), one that
may not be read (`"locked"`).  `Attainable` and `Openable` are the conditions
under which they can succeed.  They also fail without any of that, for want of
memory or for errors of the disk: after `Trouble`, which may come at any moment
of a walk, each of the four calls may fail whenever it is made.  An error of
`lstat()`, `opendir()` or `closedir()` ends the process (`err_sys`), whatever
`errno` says; one of `readdir()` is taken for the end of the directory
(`ReaddirFails`).

`TreeWalk` knows neither stack nor path: it lists entries that are there, each
once and behind its directory; it finishes when all are listed and could be
looked at, or when the system was in trouble; it complains only with a reason
(a change, trouble, something in the tree that is closed or too deep, nothing to
begin at), and does one or the other in the end.  `TreesAssumption` says of
`Trees` what a file system does: what is there is in a directory, and so on up
to the one the walk begins at.

The listing is by directories and not nested: the entries of a directory come
together, those of its subdirectories later, so a subdirectory's entries do not
stand below its name unless it was the last one.  `TreeWalk` says what holds of
it: behind the directory, not directly behind.

### UnixDgram

`srv[s]` and `cli[c]` are calls about to be made, `sockFile` what `socket.soc`
leads to: a server's socket, one that is closed (`Stale`), or nothing.
`BindFails` leaves by `return` without cleaning up; `CleanupClose` and
`CleanupUnlink` are `Cleanup()`.  `namelen` says whether `recvfrom()` has set the
variable that the first call reads uninitialised (`fsserver.c:54`): a negative
value makes that call fail, after it has taken a message.  `RemoveFile` is a user
who removes a file that was left, when no server runs.

### FileIO

`prog` is the program that runs, `access` whether it may open the file.  A
descriptor has an `offset`, a stream what it has read ahead or not yet written.
Letters are numbers.  `Fscanf` fills an empty buffer from the offset both streams
share, `Written` is a `write()` at an offset of a file that may be longer or
shorter by now.  The alphabet fits into the buffer of a stream that writes, so
that all is written in `fclose()`.  Without the file, `fdopen()` of -1 crashes
`setvbuf()`, and `read()` of -1 is not 0, so that the loops of `testKernelIO`
never end (state `endless`).

### Tasklet

`sched` and `run` are the kernel's bits of a tasklet, `queued` the CPUs that have
it in their list, `soft[cpu]` the place of a softirq: `Trylock`, `ClearSched`,
`MyTaskletFunction`, `Unlock`.  `TaskletKill` and `TaskletUnlockWait` are the two
waits of `tasklet_kill()`.  `Free` gives the module's memory back; what refers to
it then is `stale`, and `FreedMemory` is what that may do: kill the system or
nothing.  `due` and `late` are history: a key before `rmmod` that waits for its
run, a key after `tasklet_kill()`.

### MyFs

`state` is the statement of `myfs_init()` or `myfs_exit()` that is next,
`mount[m]` the call that a mount or umount is about to make.  `.owner` makes a
mount hold the module (`refs`); `objects` are the inodes that have an object of
the cache.  `kmem_cache_create()` and `kmem_cache_alloc()` are not tested: a mount
without cache or memory ends in an oops (`Dies`), as do a failing `d_make_root()`,
after which the inode is dropped twice, and `kill_block_super()` of a super block
that has no device, which may also go well.

## 3. Runs

| run | question | constants | states |
|---|---|---|---|
| `NetServer_safety` | do slots, descriptors, answers and the pool agree when clients contend | 4 clients, 2 slots, 3 descriptors, words as long as the buffer, those of one client cut, stream of one word, aborts | 816k |
| `NetServer_live` | is everyone served while one client never pauses | 3 clients, 2 slots, 2 descriptors, words as long as the buffer, those of one client cut, stream of a word and a half, aborts | 186k |
| `NetServer_coalesced` | violation: is one `recvfrom()` one word | 2 clients, words of two lengths, buffer and stream of 6 bytes | |
| `Daemon_copies` | one instance, its pid file, its end, when SIGHUP kills | 3 processes, 2 signals | 38k |
| `Supervisor_signals` | one worker, replaced or not, ended in order | 2 pids, 5 signals | 13k |
| `Kbd_fast` | does the buffer stay whole, does unloading leave nothing | 2 lengths of names, buffer of 3 | 1.2M |
| `Kbd_paced` | are the keys in the buffer those that were pressed | 2 keys, buffer of 3 | 87k |
| `Kbd_queue` | violation: the handler always has a queue | | |
| `Fortune_turns` | is it a ring; where does it die | 2 processes, 2 letters, page of 5, tmp of 4 | 13k |
| `Fortune_race` | violation: acknowledged cookies are kept | 2 processes, page of 4 | |
| `Programs` | does the socket's name lead to its server; is the walk a walk; what do two streams leave | 2 servers, 2 clients, queue of 2; trees of 4 files and depth 3, paths of 2, 2 removals; 6 letters, read buffer of 4 | 172k |
| `Modules` | does every key before `rmmod` have its run; what outlives the module; does the cache outlive its objects | 2 CPUs, 4 keys; 2 mount points | 9k |

Why these bounds are enough to meet the cases:

* Two slots and one client more than there are descriptors: a slot is used
  again, a client finds none, `accept()` runs out.  Words of a digit and a NUL
  in a buffer of two: a word fills it, and one that was cut is read as a digit
  without a NUL, as a NUL alone, or as the end of one word with the beginning of
  the next; the stream of three holds a word and a piece of another.  With six
  bytes in buffer and stream, two words fit into one `recvfrom()`.
* Three processes: an owner, one that is refused, one that starts again; two
  signals: one waits behind the other.
* One worker at a time needs a second pid only to show that there is none; five
  signals: stop, continue, pass on, kill and end in one behaviour.
* Names of length one and two in a buffer of three: a name ends before, at and
  would end behind the end.
* A page of five and cookies up to four: one cookie fits with room, two fill the
  page, one is a byte too long, one is longer than `tmp`.
* Two servers: one is killed, fails or cleans up while the other holds the name.
  Two clients and a queue of two: one waits for room.
* Four files in three levels: a subdirectory with an entry beside an empty one, a
  subdirectory before and after a file, a link, a locked and an unsearchable
  directory, one below the other, a path that is too long; two removals: an entry
  and then its directory.
* Six letters and a read buffer of four: the first stream reads ahead, the second
  gets what is left and ends before it.  Even and odd letters are equally many.
* Two CPUs: a key on one while the other runs the tasklet; four keys: one during
  a load, one in a run, one merged, one after `tasklet_kill()`.
* Two mount points: one umounts or fails while the other mounts.

`MaxSignals` bounds the signals from outside, `MaxStream` the bytes a connection
holds (then `sendto()` waits), `MaxQueue` the datagrams a socket holds (likewise),
`MaxCount` the length of a write, `MaxKeys` the interrupts between two starts of
the system, `MaxDepth`, `MaxFiles`, `PathMax` and `MaxRemoved` the trees.  `Words`,
`Presses`, `Letters` are the inputs.  Deadlock is checked in all runs but
`Supervisor_signals`, where every process may be waiting for a signal when the
bound is used up.

Symmetry is used in safety runs of NetServer (clients other than `c1`) and of
Fortune (processes, letters), never with liveness.

### Fairness

Only what runs by itself is fair: the server's steps, a process's next call and
its thread, monitor and worker, works in the queue, a reader in `show()`, the
steps of `md_exit()`. Scheduling justifies weak fairness of each: none of these
steps is disabled by others once it is enabled, but for the lock of the daemon,
where the refusal is a step of the same process. `FilesFairness` schedules both
threads of a program of lab 5, `CatalogFairness` lets a walk go on,
`TaskletFairness` lets a CPU finish a softirq it has begun (the kernel runs
pending softirqs after an interrupt). Errors of calls, signals, clients, keys,
mounts and removals are never owed. `Fork` of the supervisor is fair apart from
`ForkFails`: a system in which fork() fails for ever is excluded.

### What the runs show

The properties of each module are stated in its last section, with the line they
are about.  Properties that hold are what the code can be relied on for.  Three
runs show where a comment or text of the repository and the code disagree:

* two words in one `recvfrom()` are answered as one (`netserver.c:168`);
* an interrupt before `create_workqueue()` (`md.c:239`) or after
  `destroy_workqueue()` (`:266`) finds no queue;
* two writers of /proc/fortune merge their cookies (`fortune.c:73`).

`HupKillsOnlyInTheGap` shows the one place where SIGHUP ends a daemon that no
longer has a terminal: between `main.c:311`, where it gets its default back, and
`:318`, where it is blocked (and before `daemonize()` ignores it).
`OnlyLateKeysOutlive` shows the price of `tasklet_kill()` before `free_irq()`
(`task1/md.c:157`, `:160`): a key in between schedules the tasklet of a module
that goes, against the comment above it.  A failed `proc_create()`
(`task1/md.c:148`, `task2/md.c:255`) leaves a handler without a module.

Others were met while modelling and have no run of their own.  In lab 1: the
daemon's log shows the time of its start in every line (`main.c:336`); its pid
file is written without a test (`:104`, `:107`); `InitWorkThread()` returns 1 and
its caller takes that for a failure (`dem.c:171`).  In lab 2: `NULL` of
`readdir()` is taken for the end of the directory without a look at `errno`
(`catalog.c:42`), so that `Ok!` may follow an error.  In lab 5: the report
(`report.tex:468`) relies on `sleep()` to make `main()` the last to close its
stream, which no scheduler owes; the programs do not test `open()`.  In lab 7:
see MyFs.  In lab 8: `socket < 0` tests the address of a function
(`netserver.c:63`, `netclient.c:31`); the comment on `listen()` (`:78`) takes its
argument for the number of connections served; a result of -1 of `recvfrom()` is
treated as a message (`:166`); 0 is reported as no number (`:169`);
`fsserver.c:54` reads `namelen` uninitialised.  In lab 9: the key that is logged
is the one in the port when the work runs (`task2/md.c:133`), so that of two keys
pressed before it runs the first is lost; and when a name ends with the buffer,
the NUL goes into the byte behind it (`:160`), which may be one of `my_wq`.

## 4. Proofs

Every theorem is checked by tlapm for all values of the constants that satisfy
the named assumptions of the module; what else one assumes stands in its
statement.  The strengthenings were checked with TLC before they were proved.

* **`DaemonProofs`**.  `TypeCorrect`.  `OneInstanceCorrect` from `LockInv`:
  whoever is past the lock owns it.  `OneInstance` alone is not inductive, for a
  third process could take a lock that nobody is known to own.
  `PidfileCorrect` needs `DiskMayFill = FALSE` and uses `OneInstance`: only the
  owner writes.  `MaskCorrect`: whoever is past `BlockSignals` has signals
  blocked, which gives `RunningEndsCorrect`.  `HupCorrect` from `HupInv`, the
  states in which SIGHUP is ignored.  `ImplementsCorrect` maps every step
  to one of `SingleInstance` or a stutter.
* **`SupervisorProofs`**.  `TypeCorrect`, with the decoding of `wait()`'s status.
  `WorkerInv` ties the only process that is not free to `pid` and to the place
  the monitor is at: before a fork that is due there is none, so `fork()` cannot
  make a second, and `kill()` cannot miss.  `OneWorkerCorrect` and
  `KillsOwnWorkerCorrect` follow.
* **`NetServerProofs`**. `SlotInv`: slots name open descriptors, each its own;
  descriptors name clients, each its own; a queued client has no descriptor and is
  queued once; only a client that is out has neither. Without the queue the
  invariant is not inductive, since a client could be accepted twice.
  `SlotsNameOpenConnectionsCorrect` follows, and `ServesAsPoolCorrect`: the server
  implements `ServerPool`. `FullOnlyByTurnedAwayCorrect` counts: when the table is
  full, an open descriptor is in a slot or its client was turned away, and no two
  slots name the same one. It is a statement of every state, not of the ways in
  which `accept()` ends the server, which are any. `BlockInv` says that what
  `select()` found stays true until the scan is past it: bytes are taken by nobody
  but the server, and an aborted or closed connection answers at once;
  `NeverBlocksCorrect` follows. `StreamInv`: a client whose user waits has nothing
  under way and is owed nothing, or has one word in its stream and is owed that
  word. Of other clients it says nothing, wherever their words were joined or cut.
  With `SlotInv` it gives `PacedWordsAnsweredCorrect`, and
  `LoneWordAnsweredCorrect` for every client: a word that is alone in its stream
  is read to its NUL and answered as what it spells, wherever earlier ones were
  joined or cut. `TypeCorrect` needs that `atoi()` gives a number: `ValueIsNat`,
  an induction over the digits that the text begins with, by the least place at
  which the value would not be one.
* **`KbdProofs`**.  `BufferInv`: the cursor is in the buffer or at its end, and
  the rest of a name that is being copied fits.  From it `TypeCorrect` and
  `NameFitsCorrect`, for names of any lengths that fit and interrupts at any
  moment.  `TextEnds` shows that the text of a buffer has an end (its first NUL,
  or the end of the array).  `CursorInv` says that no NUL is in front of the
  cursor, and, when no name is being copied and there is room, that one is at it;
  it gives `TextReachesCursorCorrect`.  Nothing is assumed of the memory behind
  the array.  `LoadInv`, from which `NothingLeftBehindCorrect`
  follows, says what each step of `md_init()` and `md_exit()` finds; it needs
  that `proc_create()` does not fail, since the code then leaves the handler.
  `TypedInv` compares the buffer with what was typed at every character of a
  copy: the rest of a name that is in the work is what is missing.
  `HoldsTypedKeysCorrect` follows; both need `PacedKeys`, as of keys that come
  faster the works log only the last.
* **`FortuneProofs`**, for calls that come one at a time (`Exclusive`).
  `TurnInv`: one call at most is in the module, what a writer brings fits, the
  last cookie is ended unless a writer is about to, and a reader stands in front
  of a NUL.  `TypeCorrect`, `IndicesAtBoundsCorrect` and
  `DiesOnlyAtTheEdgesCorrect` follow, for a page and cookies of any size.
  `IndicesAtBounds` alone says nothing of the states in a call.  `RingInv` ties
  the bytes to the cookies: the NULs of the page in order (`Ends`) are the ends of
  the cookies that were acknowledged, and what a writer is about to end has none
  and begins behind the last.  A reader is at the cookie whose number is the
  count of NULs in front of its index (`Place`), and a step past the next NUL is
  one cookie further.  `ImplementsRingCorrect` maps every step to `FortuneRing`
  or a stutter, `AcknowledgedCookiesKeptCorrect` says that what a `write()`
  returned for is found whole.  Without `Exclusive` it is false:
  `Fortune_race` is the counterexample.
* **`CatalogProofs`**. `WalkInv` says where every directory that is known, and
  there, is: on the stack, the one that was just found, or read up to the entries
  that `readdir()` has not given yet. The path is the directory that is being
  read, extended by the entry at hand, and no directory is waiting twice. What was
  listed could be reached by `lstat()` (`AllFound`), except the entry at hand. So
  when the stack is empty nothing is left out, unless something was removed or the
  system was in trouble, which is all the abstract walk allows too; and when a
  call fails, one of its reasons is there. `WalkInvCorrect`, for trees of any
  size, any permissions in them, any number of removals and failures at any call.
  `StepsOfTreeWalk`: every step is one of `TreeWalk` or invisible, which is
  `ImplementsTreeWalk` without its fairness (`WalkSafe`).
* **`ProgramProofs`**.  Of UnixDgram `NameInv`: at most one server is past
  `bind()`, and until it has unlinked the file the file is its own;
  `NameLeadsToServerCorrect`.  Of FileIO `FilesInv`, for an alphabet of any even
  length.  Of two descriptors (`TwiceInv`): both offsets are equal, and the output
  is each letter below them twice.  Of one thread with two streams (`TurnsInv`):
  each stream holds the letters of its half so far, the first as many as the
  second or one more, so that `c` says whose turn it is.  Of two threads
  (`ThreadsInv`): each one's stream holds its letters so far, and the file,
  whatever the other thread does to it, is empty or a whole half, which the next
  `fclose()` covers exactly.  `LeftAsReportedCorrect`, the safety part of
  `EndsAsReported` for `testKernelIO`, `task3` and `task3_pthread`, follows.
* **`ModuleProofs`**.  Of Tasklet `KillInv`: without SCHED nothing is in a list;
  from `tasklet_kill()` on only a late key schedules.
  `OnlyLateKeysOutliveCorrect`, for any number of CPUs and keys.  Of MyFs
  `ReferenceInv`: the references are those of the mounts that have begun, objects
  belong to such mounts, and a module with references is not unloaded.
  `CacheOutlivesObjectsCorrect`.

A least number of a set, and with it an induction, is obtained from the
well-foundedness of the subset ordering on finite sets (`FirstExists`,
`LowestExists`, `ShortestExists`), since the theorem of natural induction takes
an operator as a parameter.

Only model-checked: the liveness properties (`WordsAreRead`, `SlotsAreReleased`,
`QueueIsServed` of NetServer, `TermEnds` of Daemon, `KeysAreLogged`,
`WorkerIsReplaced`, `ReturnEndsMonitor`, `TermIsObeyed`, `WorkerEndsToo` of
Supervisor, `HandledKeysRun`, `EndsAsReported`) and the end of a walk in
`ImplementsTreeWalk`, as fairness is out of the prover's reach; and what the two
programs of lab 5 that only read print by stream or thread, which selects from
the output by recursion over it.

## 5. Not modelled, and the plan

Left out of the modelled components:

* Daemon, Supervisor: wording of the log, umask and the descriptors closed by
  `daemonize()`, the parents that exit at once, a stop of the monitor itself.
* NetServer: colour of the output, overflow of `number * number`, words longer
  than the client's buffer, words that arrive in pieces from a client that is not in
  `Cut` (see section 2).
* KbdWorkqueue: the contents of works' `data`, a text found beyond the end of the
  table that is longer than the buffer, other variables than `my_wq` behind it.
  Tasklet: the text `f()` prints.
* Fortune: readers whose buffer is too small, the directory and the link that
  `fortune_init()` makes and nothing uses.
* Catalog: a failing `malloc()`, a link given with a slash, files and permissions
  that appear or change during a walk, paths that `Pop` returns and nobody frees.
* UnixDgram: a text of the user longer than `MAX_MSG_LEN`.
* FileIO: the numbers `Info()` prints, a disk that is full.
* MyFs: the constructors `sco()` and `co()`, which count and print.

Not modelled components:

* `KernelModules` (`lab_03`): modules that print and call a function of one
  another; the only state is the kernel's reference count.
* `ProcReader` (`lab_04/src/part_01`): reads files of /proc/self once and prints
  them; its care is formatting, such as the NUL at `buf[len]` of a full read.
* `SupervisorDraft` (`code_rago/main.c`): an earlier form of `main.c` that is not
  built.
* `LabMaterials`: reports, slides and books.

What the plan has left: an abstract specification of `Supervisor` and its
refinement; an invariant of the reading programs of lab 5 from which what they
print can be proved.
