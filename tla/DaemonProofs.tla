---------------------------- MODULE DaemonProofs ----------------------------
(***************************************************************************)
(* What TLAPS proves of Daemon for any set of processes and any number of  *)
(* signals: the types, the mutual exclusion that the lock on the pid file  *)
(* gives, what the pid file says, how a running daemon ends, and that the  *)
(* copies implement SingleInstance.                                        *)
(***************************************************************************)
EXTENDS Daemon, TLAPS

-----------------------------------------------------------------------------
(***************************************************************************)
(* Type correctness.                                                       *)
(***************************************************************************)
\* A process that ends, whoever ends it, leaves every variable but sent well
\* typed.
LEMMA DieTyped ==
  ASSUME TypeOK, NEW p \in Procs,
         NEW how \in {Exit(0), Exit(1), Signal(SIGSEGV)} \cup {Signal(s) : s \in Signals},
         Die(p, how), sent' \in 0 .. MaxSignals
  PROVE  TypeOK'
  BY DEF TypeOK, Die, StartUp

\* Every variable of the daemon keeps its type (main.c as a whole).
THEOREM TypeCorrect == Spec => []TypeOK
<1>1. Init => TypeOK
  BY BoundsAssumption DEF Init, TypeOK, StartUp
<1>2. TypeOK /\ [Next]_vars => TypeOK'
  <2> SUFFICES ASSUME TypeOK, [Next]_vars PROVE TypeOK'
    OBVIOUS
  <2> USE DEF TypeOK
  <2>1. ASSUME NEW p \in Procs, Fork(p) PROVE TypeOK'
    BY <2>1 DEF Fork, StartUp, signals
  <2>2. ASSUME NEW p \in Procs, StartStep(p) PROVE TypeOK'
    <3>1. ASSUME Setsid(p) \/ Chdir(p) \/ Descriptors(p) \/ OpenLockfile(p) \/ CreateThread(p)
          PROVE  TypeOK'
      BY <3>1 DEF Setsid, Chdir, Descriptors, OpenLockfile, CreateThread, Goto, StartUp, signals
    <3>2. CASE IgnoreHup(p)
      BY <3>2 DEF IgnoreHup, Goto, StartUp
    <3>3. CASE Lockfile(p)
      BY <3>3 DEF Lockfile, Goto, StartUp, signals
    <3>4. CASE AlreadyRunning(p)
      <4>1. Die(p, Exit(1)) /\ sent' = sent
        BY <3>4 DEF AlreadyRunning
      <4> QED BY <4>1, DieTyped
    <3>5. CASE Truncate(p)
      BY <3>5 DEF Truncate, Outcome, Goto, StartUp, signals
    <3>6. CASE WritePid(p)
      BY <3>6 DEF WritePid, Outcome, Goto, StartUp, signals
    <3>7. CASE DefaultHup(p)
      BY <3>7 DEF DefaultHup, Goto, StartUp
    <3>8. CASE BlockSignals(p)
      BY <3>8 DEF BlockSignals, Blocked, Goto, StartUp
    <3> QED BY <2>2, <3>1, <3>2, <3>3, <3>4, <3>5, <3>6, <3>7, <3>8 DEF StartStep
  <2>3. ASSUME NEW p \in Procs, CallFails(p) \/ SigwaitFails(p) \/ Terminate(p)
        PROVE  TypeOK'
    <3>1. PICK how \in {Exit(0), Exit(1), Signal(SIGSEGV)} : Die(p, how) /\ sent' = sent
      BY <2>3 DEF CallFails, SigwaitFails, Terminate
    <3> QED BY <3>1, DieTyped
  <2>4. ASSUME NEW p \in Procs, Handle(p) PROVE TypeOK'
    BY <2>4 DEF Handle, Sigwait
  <2>5. ASSUME NEW p \in Procs, NEW s \in Signals, Send(p, s) PROVE TypeOK'
    <3>1. sent' \in 0 .. MaxSignals
      BY <2>5, BoundsAssumption DEF Send
    <3>2. CASE Kills(p, s) /\ Die(p, Signal(s))
      BY <3>1, <3>2, DieTyped
    <3>3. CASE ~(Kills(p, s) /\ Die(p, Signal(s)))
      BY <2>5, <3>1, <3>3 DEF Send
    <3> QED BY <3>2, <3>3
  <2>6. CASE UNCHANGED vars
    BY <2>6 DEF vars
  <2> QED BY <2>1, <2>2, <2>3, <2>4, <2>5, <2>6 DEF Next, Proc, Thread
<1>3. QED BY <1>1, <1>2, PTL DEF Spec

-----------------------------------------------------------------------------
(***************************************************************************)
(* Mutual exclusion.  OneInstance is not inductive: that a process is past *)
(* the lock has to be tied to the kernel's record of who owns it.          *)
(***************************************************************************)
\* The kernel's owner of the lock is exactly the process past lockfile().
LockInv == \A p \in Procs : Holds(p) <=> lockOwner = p

\* The end of a process keeps the owner and the process past the lock in
\* step: the kernel releases the lock of whoever dies, and no other.
LEMMA DieKeepsLock ==
  ASSUME TypeOK, LockInv, NEW p \in Procs, NEW how, Die(p, how)
  PROVE  LockInv'
  BY ProcsAssumption DEF TypeOK, LockInv, Holds, Holding, Die

\* Every step but the one that takes the lock leaves a process on the side
\* of lockfile() it is on.
LEMMA GotoKeepsLock ==
  ASSUME TypeOK, LockInv, NEW p \in Procs, NEW from, NEW to,
         Goto(p, from, to), from \in Holding <=> to \in Holding,
         UNCHANGED lockOwner
  PROVE  LockInv'
  BY DEF TypeOK, LockInv, Holds, Goto

\* The lock invariant holds in every reachable state (main.c:44-69, 77-105).
THEOREM LockCorrect == Spec => []LockInv
<1>1. Init => LockInv
  BY ProcsAssumption DEF Init, LockInv, Holds, Holding
<1>2. TypeOK /\ LockInv /\ [Next]_vars => LockInv'
  <2> SUFFICES ASSUME TypeOK, LockInv, [Next]_vars PROVE LockInv'
    OBVIOUS
  <2>1. ASSUME NEW p \in Procs, Fork(p) PROVE LockInv'
    BY <2>1 DEF Fork, TypeOK, LockInv, Holds, Holding
  <2>2. ASSUME NEW p \in Procs, StartStep(p) PROVE LockInv'
    <3>1. CASE Lockfile(p)
      BY <3>1, ProcsAssumption DEF Lockfile, LockFree, Goto, TypeOK, LockInv, Holds, Holding
    <3>2. CASE AlreadyRunning(p)
      BY <3>2, DieKeepsLock DEF AlreadyRunning
    <3>3. CASE Setsid(p) \/ IgnoreHup(p) \/ Chdir(p) \/ Descriptors(p) \/ OpenLockfile(p)
      <4>1. PICK from \in StartUp \ Holding, to \in StartUp \ Holding :
              Goto(p, from, to) /\ UNCHANGED lockOwner
        BY <3>3 DEF Setsid, IgnoreHup, Chdir, Descriptors, OpenLockfile, StartUp, Holding
      <4> QED BY <4>1, GotoKeepsLock
    <3>4. CASE Truncate(p) \/ WritePid(p) \/ DefaultHup(p) \/ BlockSignals(p) \/ CreateThread(p)
      <4>1. PICK from \in Holding, to \in Holding : Goto(p, from, to) /\ UNCHANGED lockOwner
        BY <3>4 DEF Truncate, WritePid, DefaultHup, BlockSignals, CreateThread, Holding
      <4> QED BY <4>1, GotoKeepsLock
    <3> QED BY <2>2, <3>1, <3>2, <3>3, <3>4 DEF StartStep
  <2>3. ASSUME NEW p \in Procs, CallFails(p) \/ SigwaitFails(p) \/ Terminate(p)
        PROVE  LockInv'
    BY <2>3, DieKeepsLock DEF CallFails, SigwaitFails, Terminate
  <2>4. ASSUME NEW p \in Procs, Handle(p) PROVE LockInv'
    BY <2>4 DEF Handle, LockInv, Holds
  <2>5. ASSUME NEW p \in Procs, NEW s \in Signals, Send(p, s) PROVE LockInv'
    <3>1. CASE Die(p, Signal(s))
      BY <3>1, DieKeepsLock
    <3>2. CASE UNCHANGED <<pc, lockOwner>>
      BY <3>2 DEF LockInv, Holds
    <3> QED BY <2>5, <3>1, <3>2 DEF Send
  <2>6. CASE UNCHANGED vars
    BY <2>6 DEF vars, LockInv, Holds
  <2> QED BY <2>1, <2>2, <2>3, <2>4, <2>5, <2>6 DEF Next, Proc, Thread
<1>3. QED BY <1>1, <1>2, TypeCorrect, PTL DEF Spec

\* However many copies are started and killed, at most one process is past
\* the lock on the pid file (already_running(), main.c:77).
THEOREM OneInstanceCorrect == Spec => []OneInstance
<1>1. LockInv => OneInstance
  BY DEF LockInv, OneInstance
<1>2. QED BY <1>1, LockCorrect, PTL

-----------------------------------------------------------------------------
(***************************************************************************)
(* The pid file.                                                           *)
(***************************************************************************)
\* Only the process past the lock writes the pid file, and on a disk that
\* takes the write it says the daemon's pid from then on (main.c:100-103).
THEOREM PidfileCorrect ==
  ASSUME DiskMayFill = FALSE
  PROVE  Spec => []PidfileNamesDaemon
<1>1. Init => PidfileNamesDaemon
  BY DEF Init, PidfileNamesDaemon
<1>2. TypeOK /\ OneInstance /\ PidfileNamesDaemon /\ [Next]_vars => PidfileNamesDaemon'
  <2> SUFFICES ASSUME TypeOK, OneInstance, PidfileNamesDaemon, [Next]_vars
               PROVE  PidfileNamesDaemon'
    OBVIOUS
  <2> DEFINE Published == {"default", "block", "create", "running"}
  <2>1. ASSUME NEW p \in Procs, NEW how, Die(p, how) PROVE PidfileNamesDaemon'
    BY <2>1 DEF Die, TypeOK, PidfileNamesDaemon
  <2>2. ASSUME NEW p \in Procs, NEW from, NEW to, Goto(p, from, to),
               to \in Published => from \in Published, UNCHANGED pidfile
        PROVE  PidfileNamesDaemon'
    BY <2>2 DEF Goto, TypeOK, PidfileNamesDaemon
  <2>3. ASSUME NEW p \in Procs, Fork(p) PROVE PidfileNamesDaemon'
    BY <2>3 DEF Fork, TypeOK, PidfileNamesDaemon
  <2>4. ASSUME NEW p \in Procs, StartStep(p) PROVE PidfileNamesDaemon'
    <3>1. CASE Truncate(p)
      BY <3>1 DEF Truncate, Goto, TypeOK, OneInstance, Holds, Holding, PidfileNamesDaemon
    <3>2. CASE WritePid(p)
      BY <3>2 DEF WritePid, Outcome, Goto, TypeOK, OneInstance, Holds, Holding, PidfileNamesDaemon
    <3>3. CASE AlreadyRunning(p)
      BY <3>3, <2>1 DEF AlreadyRunning
    <3>4. CASE ~(Truncate(p) \/ WritePid(p) \/ AlreadyRunning(p))
      <4>1. \E from, to :
              Goto(p, from, to) /\ (to \in Published => from \in Published) /\ UNCHANGED pidfile
        BY <2>4, <3>4 DEF StartStep, Setsid, IgnoreHup, Chdir, Descriptors, OpenLockfile,
              Lockfile, DefaultHup, BlockSignals, CreateThread, signals
      <4> QED BY <4>1, <2>2
    <3> QED BY <3>1, <3>2, <3>3, <3>4
  <2>5. ASSUME NEW p \in Procs, CallFails(p) \/ SigwaitFails(p) \/ Terminate(p)
        PROVE  PidfileNamesDaemon'
    BY <2>5, <2>1 DEF CallFails, SigwaitFails, Terminate
  <2>6. ASSUME NEW p \in Procs, Handle(p) PROVE PidfileNamesDaemon'
    BY <2>6 DEF Handle, PidfileNamesDaemon
  <2>7. ASSUME NEW p \in Procs, NEW s \in Signals, Send(p, s) PROVE PidfileNamesDaemon'
    <3>1. CASE Die(p, Signal(s))
      BY <3>1, <2>1
    <3>2. CASE UNCHANGED <<pc, pidfile>>
      BY <3>2 DEF PidfileNamesDaemon
    <3> QED BY <2>7, <3>1, <3>2 DEF Send
  <2>8. CASE UNCHANGED vars
    BY <2>8 DEF vars, PidfileNamesDaemon
  <2> QED BY <2>3, <2>4, <2>5, <2>6, <2>7, <2>8 DEF Next, Proc, Thread
<1>3. QED BY <1>1, <1>2, TypeCorrect, OneInstanceCorrect, PTL DEF Spec

-----------------------------------------------------------------------------
(***************************************************************************)
(* How a running daemon ends.                                              *)
(***************************************************************************)
\* The signal that sigwait() picks is one of those that are pending.
LEMMA LowestIsPending ==
  ASSUME NEW S \in SUBSET Signals, S # {}
  PROVE  Lowest(S) \in S
<1> DEFINE Least(s) == s \in S /\ \A t \in S : s <= t
<1>1. S \subseteq {1, 9, 10, 15}
  BY DEF Signals, SIGHUP, SIGKILL, SIGUSR1, SIGTERM
<1>2. \E s : Least(s)
  <2>1. CASE 1 \in S
    BY <1>1, <2>1
  <2>2. CASE 1 \notin S /\ 9 \in S
    BY <1>1, <2>2
  <2>3. CASE 1 \notin S /\ 9 \notin S /\ 10 \in S
    BY <1>1, <2>3
  <2>4. CASE S = {15}
    BY <2>4
  <2> QED BY <1>1, <2>1, <2>2, <2>3, <2>4
<1>3. QED BY <1>2 DEF Lowest

\* A daemon runs with every signal blocked: BlockSignals comes before the
\* thread, and nothing unblocks but death (main.c:324-331).
MaskInv == \A p \in Procs : pc[p] \in {"create", "running"} => masked[p]

\* The mask of every daemon that has its thread is full.
THEOREM MaskCorrect == Spec => []MaskInv
<1>1. Init => MaskInv
  BY DEF Init, MaskInv
<1>2. TypeOK /\ MaskInv /\ [Next]_vars => MaskInv'
  <2> SUFFICES ASSUME TypeOK, MaskInv, [Next]_vars PROVE MaskInv'
    OBVIOUS
  <2>1. ASSUME NEW p \in Procs, NEW how, Die(p, how) PROVE MaskInv'
    BY <2>1 DEF Die, TypeOK, MaskInv
  <2>2. ASSUME NEW p \in Procs, StartStep(p) PROVE MaskInv'
    <3>1. CASE AlreadyRunning(p)
      BY <3>1, <2>1 DEF AlreadyRunning
    <3>2. CASE BlockSignals(p)
      BY <3>2 DEF BlockSignals, Blocked, Goto, TypeOK, MaskInv
    <3>3. CASE ~(AlreadyRunning(p) \/ BlockSignals(p))
      BY <2>2, <3>3 DEF StartStep, Setsid, IgnoreHup, Chdir, Descriptors, OpenLockfile,
         Lockfile, Truncate, WritePid, DefaultHup, CreateThread, Goto, signals, TypeOK, MaskInv
    <3> QED BY <3>1, <3>2, <3>3
  <2>3. ASSUME NEW p \in Procs, Fork(p) PROVE MaskInv'
    BY <2>3 DEF Fork, signals, TypeOK, MaskInv
  <2>4. ASSUME NEW p \in Procs, CallFails(p) \/ SigwaitFails(p) \/ Terminate(p)
        PROVE  MaskInv'
    BY <2>4, <2>1 DEF CallFails, SigwaitFails, Terminate
  <2>5. ASSUME NEW p \in Procs, Handle(p) PROVE MaskInv'
    BY <2>5 DEF Handle, MaskInv
  <2>6. ASSUME NEW p \in Procs, NEW s \in Signals, Send(p, s) PROVE MaskInv'
    <3>1. CASE Die(p, Signal(s))
      BY <3>1, <2>1
    <3>2. CASE UNCHANGED <<pc, masked>>
      BY <3>2 DEF MaskInv
    <3> QED BY <2>6, <3>1, <3>2 DEF Send
  <2>7. CASE UNCHANGED vars
    BY <2>7 DEF vars, MaskInv
  <2> QED BY <2>2, <2>3, <2>4, <2>5, <2>6, <2>7 DEF Next, Proc, Thread
<1>3. QED BY <1>1, <1>2, TypeCorrect, PTL DEF Spec

\* Only SIGKILL, an error of sigwait() or a SIGTERM that was pending ends a
\* running daemon (thr_fn(), main.c:237-267).
THEOREM RunningEndsCorrect == Spec => RunningEndsOnlyOnRequest
<1> DEFINE Ended(q) == pc[q] = "running" /\ pc'[q] = "dead"
           Right(q) == \/ fate'[q] \in {Signal(SIGKILL), Exit(1)}
                       \/ fate'[q] = Exit(0) /\ SIGTERM \in pending[q]
<1>1. TypeOK /\ MaskInv /\ [Next]_vars
        => [\A p \in Procs :
              pc[p] = "running" /\ pc'[p] = "dead" =>
                \/ fate'[p] \in {Signal(SIGKILL), Exit(1)}
                \/ fate'[p] = Exit(0) /\ SIGTERM \in pending[p]]_vars
  <2> SUFFICES ASSUME TypeOK, MaskInv, [Next]_vars, NEW q \in Procs, Ended(q)
               PROVE  Right(q)
    OBVIOUS
  <2>1. ASSUME NEW p \in Procs, NEW how, Die(p, how)
        PROVE  p = q /\ fate'[q] = how
    BY <2>1 DEF Die, TypeOK
  <2>2. ASSUME NEW p \in Procs, Fork(p) PROVE FALSE
    BY <2>2 DEF Fork, TypeOK
  <2>3. ASSUME NEW p \in Procs, StartStep(p) PROVE Right(q)
    <3>1. CASE AlreadyRunning(p)
      BY <3>1, <2>1 DEF AlreadyRunning
    <3>2. CASE ~AlreadyRunning(p)
      BY <2>3, <3>2 DEF StartStep, Setsid, IgnoreHup, Chdir, Descriptors, OpenLockfile,
         Lockfile, Truncate, WritePid, DefaultHup, BlockSignals, CreateThread, Goto, TypeOK
    <3> QED BY <3>1, <3>2
  <2>4. ASSUME NEW p \in Procs, CallFails(p) \/ SigwaitFails(p) PROVE Right(q)
    <3>1. CASE pc[p] = "default"
      BY <2>4, <2>1, <3>1 DEF CallFails, SigwaitFails
    <3>2. CASE pc[p] # "default"
      BY <2>4, <2>1, <3>2 DEF CallFails, SigwaitFails
    <3> QED BY <3>1, <3>2
  <2>5. ASSUME NEW p \in Procs, Handle(p) PROVE FALSE
    BY <2>5 DEF Handle, TypeOK
  <2>6. ASSUME NEW p \in Procs, Terminate(p) PROVE Right(q)
    <3>1. p = q /\ fate'[q] = Exit(0)
      BY <2>6, <2>1 DEF Terminate
    <3>2. SIGTERM \in pending[p]
      BY <2>6, LowestIsPending DEF Terminate, TypeOK
    <3> QED BY <3>1, <3>2
  <2>7. ASSUME NEW p \in Procs, NEW s \in Signals, Send(p, s) PROVE Right(q)
    <3>1. Kills(p, s) /\ Die(p, Signal(s))
      BY <2>7 DEF Send, TypeOK
    <3>2. p = q /\ fate'[q] = Signal(s)
      BY <3>1, <2>1
    <3>3. s = SIGKILL
      BY <3>1, <3>2 DEF Kills, MaskInv
    <3> QED BY <3>2, <3>3
  <2>8. CASE UNCHANGED vars
    BY <2>8 DEF vars, TypeOK
  <2> QED BY <2>2, <2>3, <2>4, <2>5, <2>6, <2>7, <2>8 DEF Next, Proc, Thread
<1>2. QED BY <1>1, TypeCorrect, MaskCorrect, PTL DEF Spec, RunningEndsOnlyOnRequest

-----------------------------------------------------------------------------
(***************************************************************************)
(* SIGHUP.  Between IgnoreHup and DefaultHup it is ignored, from           *)
(* BlockSignals on it waits; what is left is the start and the gap.        *)
(***************************************************************************)
Deaf == {"chdir", "descriptors", "open", "lock", "truncate", "write", "default"}

\* A copy ignores SIGHUP between the two sigaction() (main.c:166, :311).
HupInv == \A p \in Procs : pc[p] \in Deaf => hup[p] = "ignore"

\* In those states the disposition of SIGHUP is "ignore".
THEOREM HupInvCorrect == Spec => []HupInv
<1>1. Init => HupInv
  BY DEF Init, HupInv, Deaf
<1>2. TypeOK /\ HupInv /\ [Next]_vars => HupInv'
  <2> SUFFICES ASSUME TypeOK, HupInv, [Next]_vars PROVE HupInv'
    OBVIOUS
  <2> USE DEF HupInv, Deaf
  <2>1. ASSUME NEW p \in Procs, NEW how, Die(p, how) PROVE HupInv'
    BY <2>1 DEF Die, TypeOK
  <2>2. ASSUME NEW p \in Procs, StartStep(p) PROVE HupInv'
    <3>1. CASE AlreadyRunning(p)
      BY <3>1, <2>1 DEF AlreadyRunning
    <3>2. CASE IgnoreHup(p) \/ DefaultHup(p)
      BY <3>2 DEF IgnoreHup, DefaultHup, Goto, TypeOK
    <3>3. CASE ~(AlreadyRunning(p) \/ IgnoreHup(p) \/ DefaultHup(p))
      BY <2>2, <3>3 DEF StartStep, Setsid, Chdir, Descriptors, OpenLockfile,
         Lockfile, Truncate, WritePid, BlockSignals, CreateThread, Goto, signals, TypeOK
    <3> QED BY <3>1, <3>2, <3>3
  <2>3. ASSUME NEW p \in Procs, Fork(p) PROVE HupInv'
    BY <2>3 DEF Fork, signals, TypeOK
  <2>4. ASSUME NEW p \in Procs, CallFails(p) \/ SigwaitFails(p) \/ Terminate(p)
        PROVE  HupInv'
    BY <2>4, <2>1 DEF CallFails, SigwaitFails, Terminate
  <2>5. ASSUME NEW p \in Procs, Handle(p) PROVE HupInv'
    BY <2>5 DEF Handle
  <2>6. ASSUME NEW p \in Procs, NEW s \in Signals, Send(p, s) PROVE HupInv'
    <3>1. CASE Die(p, Signal(s))
      BY <3>1, <2>1
    <3>2. CASE UNCHANGED <<pc, hup>>
      BY <3>2
    <3> QED BY <2>6, <3>1, <3>2 DEF Send
  <2>7. CASE UNCHANGED vars
    BY <2>7 DEF vars
  <2> QED BY <2>2, <2>3, <2>4, <2>5, <2>6, <2>7 DEF Next, Proc, Thread
<1>3. QED BY <1>1, <1>2, TypeCorrect, PTL DEF Spec

\* SIGHUP kills a copy only before daemonize() ignores it or between
\* main.c:311 and :318.
THEOREM HupCorrect == Spec => HupKillsOnlyInTheGap
<1> DEFINE Hung(q) == pc[q] # "dead" /\ pc'[q] = "dead" /\ fate'[q] = Signal(SIGHUP)
<1>1. TypeOK /\ HupInv /\ MaskInv /\ [Next]_vars
        => [\A p \in Procs :
              pc[p] # "dead" /\ pc'[p] = "dead" /\ fate'[p] = Signal(SIGHUP) =>
                pc[p] \in {"setsid", "ignore", "block"}]_vars
  <2> SUFFICES ASSUME TypeOK, HupInv, MaskInv, [Next]_vars, NEW q \in Procs, Hung(q)
               PROVE  pc[q] \in {"setsid", "ignore", "block"}
    OBVIOUS
  <2>1. ASSUME NEW p \in Procs, NEW how, Die(p, how)
        PROVE  p = q /\ fate'[q] = how
    BY <2>1 DEF Die, TypeOK
  <2>2. Signal(SIGHUP) \notin {Exit(0), Exit(1), Signal(SIGSEGV)}
    BY DEF Signal, Exit, SIGHUP, SIGSEGV
  <2>3. ASSUME NEW p \in Procs, Fork(p) \/ Handle(p) PROVE FALSE
    BY <2>3 DEF Fork, Handle, TypeOK
  <2>4. ASSUME NEW p \in Procs, StartStep(p) PROVE FALSE
    <3>1. CASE AlreadyRunning(p)
      BY <3>1, <2>1, <2>2 DEF AlreadyRunning
    <3>2. CASE ~AlreadyRunning(p)
      BY <2>4, <3>2 DEF StartStep, Setsid, IgnoreHup, Chdir, Descriptors, OpenLockfile,
         Lockfile, Truncate, WritePid, DefaultHup, BlockSignals, CreateThread, Goto, TypeOK
    <3> QED BY <3>1, <3>2
  <2>5. ASSUME NEW p \in Procs, CallFails(p) \/ SigwaitFails(p) \/ Terminate(p)
        PROVE  FALSE
    <3>1. PICK how \in {Exit(0), Exit(1), Signal(SIGSEGV)} : Die(p, how)
      BY <2>5 DEF CallFails, SigwaitFails, Terminate
    <3> QED BY <3>1, <2>1, <2>2
  <2>6. ASSUME NEW p \in Procs, NEW s \in Signals, Send(p, s)
        PROVE  pc[q] \in {"setsid", "ignore", "block"}
    <3>1. Alive(p) /\ Kills(p, s) /\ Die(p, Signal(s))
      BY <2>6 DEF Send, TypeOK
    <3>2. p = q /\ s = SIGHUP
      BY <3>1, <2>1 DEF Signal
    <3>3. ~masked[q] /\ hup[q] # "ignore"
      BY <3>1, <3>2 DEF Kills, SIGHUP, SIGKILL
    <3>4. pc[q] \notin Deaf \cup {"create", "running"}
      BY <3>3 DEF HupInv, MaskInv
    <3> QED BY <3>1, <3>2, <3>4 DEF Alive, StartUp, Deaf
  <2>7. CASE UNCHANGED vars
    BY <2>7 DEF vars, TypeOK
  <2> QED BY <2>3, <2>4, <2>5, <2>6, <2>7 DEF Next, Proc, Thread
<1>2. QED
  BY <1>1, TypeCorrect, HupInvCorrect, MaskCorrect, PTL DEF Spec, HupKillsOnlyInTheGap

-----------------------------------------------------------------------------
(***************************************************************************)
(* The copies of the daemon implement SingleInstance.                      *)
(***************************************************************************)
\* The death of the lock's owner is the abstract Stop; any other death is a
\* stutter.
LEMMA DieImplements ==
  ASSUME TypeOK, LockInv, NEW p \in Procs, NEW how, Die(p, how)
  PROVE  [Single!Next]_Single!vars
<1>1. CASE lockOwner = p
  <2>1. ~ \E q \in Procs : pc'[q] = "running"
    BY <1>1 DEF Die, TypeOK, LockInv, Holds, Holding
  <2>2. Single!Stop
    BY <1>1, <2>1, ProcsAssumption DEF Die, Single!Stop
  <2> QED BY <2>2 DEF Single!Next
<1>2. CASE lockOwner # p
  <2>1. \A q \in Procs : pc'[q] = "running" <=> pc[q] = "running"
    BY <1>2 DEF Die, TypeOK, LockInv, Holds, Holding
  <2> QED BY <1>2, <2>1 DEF Die, Single!vars
<1>3. QED BY <1>1, <1>2

\* Lockfile acquires, Truncate clears, WritePid publishes, CreateThread goes
\* to work, the owner's death stops; nothing else is seen (SingleInstance).
THEOREM ImplementsCorrect ==
  ASSUME DiskMayFill = FALSE
  PROVE  Spec => ImplementsSingleInstance
<1>1. Init => Single!Init
  BY DEF Init, Single!Init
<1>2. TypeOK /\ LockInv /\ PidfileNamesDaemon /\ [Next]_vars => [Single!Next]_Single!vars
  <2> SUFFICES ASSUME TypeOK, LockInv, PidfileNamesDaemon, [Next]_vars
               PROVE  [Single!Next]_Single!vars
    OBVIOUS
  <2>1. ASSUME UNCHANGED <<lockOwner, pidfile>>,
               \A q \in Procs : pc'[q] = "running" <=> pc[q] = "running"
        PROVE  [Single!Next]_Single!vars
    BY <2>1 DEF Single!vars
  <2>2. ASSUME NEW p \in Procs, pc[p] \in Holding \ {"running"}
        PROVE  lockOwner = p /\ ~ \E q \in Procs : pc[q] = "running"
    BY <2>2 DEF LockInv, Holds, Holding
  <2>3. ASSUME NEW p \in Procs, StartStep(p) PROVE [Single!Next]_Single!vars
    <3>1. CASE Lockfile(p)
      <4>1. Single!Acquire(p)
        BY <3>1 DEF Lockfile, LockFree, Goto, TypeOK, Single!Acquire
      <4> QED BY <4>1 DEF Single!Next
    <3>2. CASE AlreadyRunning(p)
      BY <3>2, DieImplements DEF AlreadyRunning
    <3>3. CASE Truncate(p)
      <4>1. Single!Clear
        BY <3>3, <2>2, ProcsAssumption
           DEF Truncate, Outcome, Goto, TypeOK, Holding, Single!Clear
      <4> QED BY <4>1 DEF Single!Next
    <3>4. CASE WritePid(p)
      <4>1. Single!Publish
        BY <3>4, <2>2, ProcsAssumption
           DEF WritePid, Outcome, Goto, TypeOK, Holding, Single!Publish
      <4> QED BY <4>1 DEF Single!Next
    <3>5. CASE CreateThread(p)
      <4>1. Single!Work
        BY <3>5, <2>2, ProcsAssumption
           DEF CreateThread, Goto, TypeOK, Holding, PidfileNamesDaemon, Single!Work
      <4> QED BY <4>1 DEF Single!Next
    <3>6. CASE ~(Lockfile(p) \/ AlreadyRunning(p) \/ Truncate(p) \/ WritePid(p) \/ CreateThread(p))
      BY <2>1, <2>3, <3>6 DEF StartStep, Setsid, IgnoreHup, Chdir, Descriptors,
         OpenLockfile, DefaultHup, BlockSignals, Goto, TypeOK
    <3> QED BY <3>1, <3>2, <3>3, <3>4, <3>5, <3>6
  <2>4. ASSUME NEW p \in Procs, Fork(p) PROVE [Single!Next]_Single!vars
    BY <2>1, <2>4 DEF Fork, TypeOK
  <2>5. ASSUME NEW p \in Procs, CallFails(p) \/ SigwaitFails(p) \/ Terminate(p)
        PROVE  [Single!Next]_Single!vars
    BY <2>5, DieImplements DEF CallFails, SigwaitFails, Terminate
  <2>6. ASSUME NEW p \in Procs, Handle(p) PROVE [Single!Next]_Single!vars
    BY <2>1, <2>6 DEF Handle
  <2>7. ASSUME NEW p \in Procs, NEW s \in Signals, Send(p, s)
        PROVE  [Single!Next]_Single!vars
    <3>1. CASE Die(p, Signal(s))
      BY <3>1, DieImplements
    <3>2. CASE UNCHANGED <<pc, lockOwner, pidfile>>
      BY <3>2, <2>1
    <3> QED BY <2>7, <3>1, <3>2 DEF Send
  <2>8. CASE UNCHANGED vars
    BY <2>8, <2>1 DEF vars
  <2> QED BY <2>3, <2>4, <2>5, <2>6, <2>7, <2>8 DEF Next, Proc, Thread
<1>3. QED
  BY <1>1, <1>2, TypeCorrect, LockCorrect, PidfileCorrect, PTL
     DEF Spec, ImplementsSingleInstance, Single!Spec
=============================================================================
