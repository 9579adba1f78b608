------------------------------- MODULE Daemon -------------------------------
(***************************************************************************)
(* The daemon of lab 1 (daemon/main.c), started any number of times.  A    *)
(* process of the model is the child that daemonize() forks: it leaves the *)
(* session, ignores SIGHUP, takes the lock on /var/run/daemon.pid, writes  *)
(* its pid there, restores SIGHUP, blocks every signal and leaves them to  *)
(* a thread in sigwait().  Anyone may signal any process at any step; the  *)
(* kernel gives the lock back when its owner dies.                         *)
(***************************************************************************)
EXTENDS Integers, FiniteSets

CONSTANTS Procs,        \* processes, that is pids: one may be used again
          NoProc,       \* nobody
          Empty,        \* an empty pid file
          MaxSignals,   \* signals sent in a behaviour
          DiskMayFill   \* TRUE: ftruncate() and write() may fail

ASSUME ProcsAssumption == NoProc \notin Procs /\ Empty \notin Procs
ASSUME BoundsAssumption == MaxSignals \in Nat /\ DiskMayFill \in BOOLEAN

SIGHUP == 1
SIGKILL == 9
SIGUSR1 == 10
SIGSEGV == 11
SIGTERM == 15
Signals == {SIGHUP, SIGKILL, SIGUSR1, SIGTERM}

VARIABLES
  pc,         \* process -> the call it is about to make
  fate,       \* process -> how it ended: an exit status or a signal
  lockOwner,  \* holder of the write lock on the pid file
  pidfile,    \* contents of the pid file
  hup,        \* process -> disposition of SIGHUP
  masked,     \* process -> every signal is blocked
  pending,    \* process -> blocked signals that arrived
  sent        \* signals sent so far

vars == <<pc, fate, lockOwner, pidfile, hup, masked, pending, sent>>
signals == <<hup, masked, pending, sent>>

NotEnded == <<>>
Exit(status) == <<"exit", status>>
Signal(s) == <<"signal", s>>

StartUp == {"setsid", "ignore", "chdir", "descriptors", "open", "lock",
            "truncate", "write", "default", "block", "create"}
Alive(p) == pc[p] \in StartUp \cup {"running"}

Init ==
  /\ pc = [p \in Procs |-> "none"]
  /\ fate = [p \in Procs |-> NotEnded]
  /\ lockOwner = NoProc
  /\ pidfile \in Procs \cup {Empty}    \* left by an earlier run
  /\ hup = [p \in Procs |-> "default"]
  /\ masked = [p \in Procs |-> FALSE]
  /\ pending = [p \in Procs |-> {}]
  /\ sent = 0

\* Process p ends; the kernel releases its lock, the file keeps its text.
Die(p, how) ==
  /\ pc' = [pc EXCEPT ![p] = "dead"]
  /\ fate' = [fate EXCEPT ![p] = how]
  /\ lockOwner' = IF lockOwner = p THEN NoProc ELSE lockOwner
  /\ hup' = [hup EXCEPT ![p] = "default"]
  /\ masked' = [masked EXCEPT ![p] = FALSE]
  /\ pending' = [pending EXCEPT ![p] = {}]
  /\ UNCHANGED pidfile

(***************************************************************************)
(* daemonize().                                                            *)
(***************************************************************************)
\* The parent exits with 0 whatever becomes of the child.
Fork(p) ==
  /\ pc[p] \in {"none", "dead"}
  /\ pc' = [pc EXCEPT ![p] = "setsid"]
  /\ fate' = [fate EXCEPT ![p] = NotEnded]
  /\ UNCHANGED <<lockOwner, pidfile, signals>>

Goto(p, from, to) == pc[p] = from /\ pc' = [pc EXCEPT ![p] = to]

Setsid(p) ==
  /\ Goto(p, "setsid", "ignore")
  /\ UNCHANGED <<fate, lockOwner, pidfile, signals>>

IgnoreHup(p) ==
  /\ Goto(p, "ignore", "chdir")
  /\ hup' = [hup EXCEPT ![p] = "ignore"]
  /\ UNCHANGED <<fate, lockOwner, pidfile, masked, pending, sent>>

\* chdir("/"), closing every descriptor, /dev/null on 0, 1 and 2, openlog()
Chdir(p) ==
  /\ Goto(p, "chdir", "descriptors")
  /\ UNCHANGED <<fate, lockOwner, pidfile, signals>>

Descriptors(p) ==
  /\ Goto(p, "descriptors", "open")
  /\ UNCHANGED <<fate, lockOwner, pidfile, signals>>

\* Any of the calls that are tested may fail: err_quit() or exit(1).  The
\* err_quit() for SIG_DFL lacks the argument of its "%s" and may crash.
Tested == {"ignore", "chdir", "descriptors", "open", "lock", "default",
           "block", "create"}
CallFails(p) ==
  /\ pc[p] \in Tested
  /\ \/ Die(p, Exit(1))
     \/ pc[p] = "default" /\ Die(p, Signal(SIGSEGV))
  /\ UNCHANGED sent

(***************************************************************************)
(* already_running() and lockfile().                                       *)
(***************************************************************************)
OpenLockfile(p) ==
  /\ Goto(p, "open", "lock")
  /\ UNCHANGED <<fate, lockOwner, pidfile, signals>>

\* fcntl(fd, F_SETLK) for a write lock on the whole file
LockFree_shared == TRUE
LockFree == lockOwner = NoProc

Lockfile(p) ==
  /\ LockFree
  /\ Goto(p, "lock", "truncate")
  /\ lockOwner' = p
  /\ UNCHANGED <<fate, pidfile, signals>>

\* F_SETLK does not wait: a copy that is refused the lock exits.
AlreadyRunning(p) ==
  /\ pc[p] = "lock" /\ ~LockFree
  /\ Die(p, Exit(1))
  /\ UNCHANGED sent

\* Neither ftruncate() nor write() is tested: start-up goes on without it.
Outcome_nobody(new) == {NoProc}
Outcome_kept(new) == {pidfile}
Outcome(new) == {new} \cup (IF DiskMayFill THEN {pidfile} ELSE {})

Truncate(p) ==
  /\ Goto(p, "truncate", "write")
  /\ pidfile' \in Outcome(Empty)
  /\ UNCHANGED <<fate, lockOwner, signals>>

WritePid(p) ==
  /\ Goto(p, "write", "default")
  /\ pidfile' \in Outcome(p)
  /\ UNCHANGED <<fate, lockOwner, signals>>

(***************************************************************************)
(* main() after already_running(), and the thread thr_fn().                *)
(***************************************************************************)
DefaultHup(p) ==
  /\ Goto(p, "default", "block")
  /\ hup' = [hup EXCEPT ![p] = "default"]
  /\ UNCHANGED <<fate, lockOwner, pidfile, masked, pending, sent>>

Blocked_none(p) == masked
Blocked(p) == [masked EXCEPT ![p] = TRUE]

BlockSignals(p) ==
  /\ Goto(p, "block", "create")
  /\ masked' = Blocked(p)
  /\ UNCHANGED <<fate, lockOwner, pidfile, hup, pending, sent>>

\* pthread_create(); from here on main() only logs and sleeps.
CreateThread(p) ==
  /\ Goto(p, "create", "running")
  /\ UNCHANGED <<fate, lockOwner, pidfile, signals>>

\* sigwait() hands out the lowest pending number first.
Lowest(S) == CHOOSE s \in S : \A t \in S : s <= t

Sigwait_drop(p) == [pending EXCEPT ![p] = {}]
Sigwait(p) == [pending EXCEPT ![p] = @ \ {Lowest(@)}]

Handle(p) ==
  /\ pc[p] = "running" /\ pending[p] # {}
  /\ Lowest(pending[p]) # SIGTERM
  /\ pending' = Sigwait(p)
  /\ UNCHANGED <<pc, fate, lockOwner, pidfile, hup, masked, sent>>

Terminate(p) ==
  /\ pc[p] = "running" /\ pending[p] # {}
  /\ Lowest(pending[p]) = SIGTERM
  /\ Die(p, Exit(0))
  /\ UNCHANGED sent

SigwaitFails(p) ==
  /\ pc[p] = "running"
  /\ Die(p, Exit(1))
  /\ UNCHANGED sent

(***************************************************************************)
(* The rest of the system.                                                 *)
(***************************************************************************)
Kills(p, s) ==
  \/ s = SIGKILL
  \/ ~masked[p] /\ ~(s = SIGHUP /\ hup[p] = "ignore")

Send(p, s) ==
  /\ Alive(p) /\ sent < MaxSignals
  /\ sent' = sent + 1
  /\ \/ Kills(p, s) /\ Die(p, Signal(s))
     \/ /\ ~Kills(p, s)
        /\ pending' = IF masked[p] THEN [pending EXCEPT ![p] = @ \cup {s}]
                      ELSE pending
        /\ UNCHANGED <<pc, fate, lockOwner, pidfile, hup, masked>>

StartStep(p) ==
  \/ Setsid(p) \/ IgnoreHup(p) \/ Chdir(p) \/ Descriptors(p)
  \/ OpenLockfile(p) \/ Lockfile(p) \/ AlreadyRunning(p)
  \/ Truncate(p) \/ WritePid(p)
  \/ DefaultHup(p) \/ BlockSignals(p) \/ CreateThread(p)

Thread(p) == Handle(p) \/ Terminate(p)

Proc(p) ==
  StartStep(p) \/ CallFails(p) \/ Thread(p) \/ SigwaitFails(p)

Next ==
  \/ \E p \in Procs : Fork(p) \/ Proc(p)
  \/ \E p \in Procs, s \in Signals : Send(p, s)

Spec == Init /\ [][Next]_vars

\* The scheduler runs every process and its thread; no error is owed.
FairSpec == Spec /\ \A p \in Procs : WF_vars(StartStep(p)) /\ WF_vars(Thread(p))
-----------------------------------------------------------------------------
(***************************************************************************)
(* Properties.                                                             *)
(***************************************************************************)
\* Every variable keeps the type its declaration gives it.
TypeOK ==
  /\ pc \in [Procs -> StartUp \cup {"none", "running", "dead"}]
  /\ fate \in [Procs -> {NotEnded, Exit(0), Exit(1), Signal(SIGSEGV)} \cup {Signal(s) : s \in Signals}]
  /\ lockOwner \in Procs \cup {NoProc}
  /\ pidfile \in Procs \cup {Empty}
  /\ hup \in [Procs -> {"default", "ignore"}]
  /\ masked \in [Procs -> BOOLEAN]
  /\ pending \in [Procs -> SUBSET Signals]
  /\ sent \in 0 .. MaxSignals

Holding == {"truncate", "write", "default", "block", "create", "running"}
Holds(p) == pc[p] \in Holding

\* However many copies are started, and whenever their owners are killed, at
\* most one process is past the lock.
OneInstance == \A p, q \in Procs : Holds(p) /\ Holds(q) => p = q

\* From the write of its pid until its death the pid file names the daemon:
\* no copy that starts, is refused or dies meanwhile touches it.
PidfileNamesDaemon ==
  \A p \in Procs :
    pc[p] \in {"default", "block", "create", "running"} => pidfile = p

\* A daemon that is running ends only of SIGKILL, of an error of sigwait(),
\* or with status 0 when SIGTERM reached it: no other signal can end it.
RunningEndsOnlyOnRequest ==
  [][\A p \in Procs :
       pc[p] = "running" /\ pc'[p] = "dead" =>
         \/ fate'[p] \in {Signal(SIGKILL), Exit(1)}
         \/ fate'[p] = Exit(0) /\ SIGTERM \in pending[p]]_vars

\* SIGTERM is not lost among the signals that wait with it: the daemon it
\* reached ends.
TermEnds ==
  \A p \in Procs : pc[p] = "running" /\ SIGTERM \in pending[p] ~> pc[p] = "dead"

\* SIGHUP is ignored from daemonize() on (main.c:165) and handled by the
\* thread later (main.c:322).  It kills a copy only before the one, or in the
\* gap between the two: after its default action is restored (:311) and
\* before signals are blocked (:318).
HupKillsOnlyInTheGap ==
  [][\A p \in Procs :
       pc[p] # "dead" /\ pc'[p] = "dead" /\ fate'[p] = Signal(SIGHUP) =>
         pc[p] \in {"setsid", "ignore", "block"}]_vars

(***************************************************************************)
(* The lock file makes the copies a single instance: see SingleInstance.   *)
(***************************************************************************)
Single == INSTANCE SingleInstance
            WITH active <- lockOwner, published <- pidfile,
                 working <- \E p \in Procs : pc[p] = "running"
\* The copies, the file lock and the kernel's release of it implement a
\* single instance that publishes its pid before it works.
ImplementsSingleInstance == Single!Spec
=============================================================================
