-------------------------- MODULE SupervisorProofs --------------------------
(***************************************************************************)
(* What TLAPS proves of Supervisor for any pids and any number of signals: *)
(* the types, that there is one worker at most, and that the monitor's     *)
(* kill() reaches its own child and nobody else.                           *)
(***************************************************************************)
EXTENDS Supervisor, TLAPS

-----------------------------------------------------------------------------
(***************************************************************************)
(* Type correctness.                                                       *)
(***************************************************************************)
Raws == {0, SIGKILL, SIGSEGV} \cup {256 * CHILD_NEED_WORK, 256 * CHILD_NEED_TERMINATE}

\* wait()'s status is one that MonitorProc() knows, or 0 after a signal.
LEMMA DecodedStatus ==
  ASSUME NEW r \in Raws
  PROVE  WEXITSTATUS(r) \in {0, CHILD_NEED_WORK, CHILD_NEED_TERMINATE}
  BY DEF Raws, WEXITSTATUS, SIGKILL, SIGSEGV, CHILD_NEED_WORK, CHILD_NEED_TERMINATE

\* The end of a worker, whatever it died of, leaves all but sent well typed.
LEMMA EndTyped ==
  ASSUME TypeOK, NEW p \in Pids, NEW how \in Raws, End(p, how), sent' \in 0 .. MaxSignals
  PROVE  TypeOK'
  BY DEF TypeOK, End, Tell, Raws, locals, Gone

\* A signal from outside is counted.
LEMMA SendsCounts == ASSUME TypeOK, Sends PROVE sent' \in 0 .. MaxSignals
  BY BoundsAssumption DEF TypeOK, Sends

\* Every variable of monitor and worker keeps its type (dem.c as a whole).
THEOREM TypeCorrect == Spec => []TypeOK
<1>1. Init => TypeOK
  BY BoundsAssumption DEF Init, TypeOK, Gone
<1>2. TypeOK /\ [Next]_vars => TypeOK'
  <2> SUFFICES ASSUME TypeOK, [Next]_vars PROVE TypeOK'
    OBVIOUS
  <2>1. ASSUME Monitor PROVE TypeOK'
    <3>1. CASE Main \/ BlockSignals \/ SetPidFile \/ KeepWorker
      BY <3>1 DEF Main, BlockSignals, SetPidFile, KeepWorker, StartNext, TypeOK, locals, workers, Gone
    <3>2. CASE TakeSigchld
      BY <3>2 DEF TakeSigchld, Sigwaitinfo, Pending, TypeOK, locals, workers
    <3>3. CASE Wait
      <4>1. PICK p \in Pids :
              /\ worker' = [worker EXCEPT ![p] = IF @ = "zombie" THEN "free" ELSE @]
              /\ raw' = [raw EXCEPT ![p] = 0]
              /\ status' = WEXITSTATUS(raw[p])
        BY <3>3 DEF Wait
      <4>2. status' \in {0, CHILD_NEED_WORK, CHILD_NEED_TERMINATE}
        BY <4>1, DecodedStatus DEF TypeOK, Raws
      <4> QED BY <3>3, <4>1, <4>2 DEF Wait, TypeOK
    <3>4. CASE TakeSigusr1
      BY <3>4 DEF TakeSigusr1, Sigwaitinfo, Pending, Kill, TypeOK
    <3>5. CASE TakeSigterm
      BY <3>5 DEF TakeSigterm, Sigwaitinfo, Pending, Kill, TypeOK
    <3>6. CASE Unlink
      BY <3>6 DEF Unlink, Leave, TypeOK, locals, Gone
    <3> QED BY <2>1, <3>1, <3>2, <3>3, <3>4, <3>5, <3>6 DEF Monitor
  <2>2. ASSUME Fork \/ ForkFails PROVE TypeOK'
    BY <2>2 DEF Fork, ForkFails, AfterFailedFork, TypeOK, workers
  <2>3. ASSUME User PROVE TypeOK'
    <3>1. ASSUME NEW s \in {SIGKILL, SIGUSR1, SIGTERM}, SignalMonitor(s) PROVE TypeOK'
      <4>1. CASE Leave("killed")
        BY <3>1, <4>1, SendsCounts DEF SignalMonitor, Leave, TypeOK, locals, Gone
      <4>2. CASE s # SIGKILL /\ Tell(s) /\ UNCHANGED <<mon, worker, raw>>
        BY <3>1, <4>2, SendsCounts DEF SignalMonitor, Tell, TypeOK, locals
      <4> QED BY <3>1, <4>1, <4>2 DEF SignalMonitor
    <3>2. ASSUME NEW p \in Pids, NEW s \in {SIGUSR1, SIGTERM}, SignalWorker(p, s)
          PROVE  TypeOK'
      BY <3>2, SendsCounts DEF SignalWorker, TypeOK, monitor, locals
    <3>3. ASSUME NEW p \in Pids, KillWorker(p) \/ WorkerError(p) PROVE TypeOK'
      BY <3>3, SendsCounts, EndTyped DEF KillWorker, WorkerError, Exit, Raws
    <3>4. ASSUME NEW p \in Pids, StopOrContinue(p) PROVE TypeOK'
      BY <3>4, SendsCounts DEF StopOrContinue, Tell, TypeOK, locals
    <3> QED BY <2>3, <3>1, <3>2, <3>3, <3>4 DEF User
  <2>4. ASSUME NEW p \in Pids, Work(p) PROVE TypeOK'
    <3>1. CASE InitFails(p) \/ Return(p)
      <4>1. End(p, 256 * CHILD_NEED_TERMINATE) /\ sent' = sent
        BY <3>1 DEF InitFails, Return, Exit
      <4> QED BY <4>1, EndTyped DEF TypeOK, Raws
    <3>2. CASE Sigaction(p) \/ InitWorkThread(p) \/ ReloadConfig(p)
      BY <3>2 DEF Sigaction, InitWorkThread, ReloadConfig, TypeOK, monitor, locals
    <3> QED BY <2>4, <3>1, <3>2 DEF Work
  <2>5. CASE Done \/ UNCHANGED vars
    BY <2>5 DEF Done, vars, monitor, locals, workers, TypeOK
  <2> QED BY <2>1, <2>2, <2>3, <2>4, <2>5 DEF Next
<1>3. QED BY <1>1, <1>2, PTL DEF Spec

-----------------------------------------------------------------------------
(***************************************************************************)
(* One worker.  That no two workers exist depends on what the monitor      *)
(* remembers: it forks only when its last worker was reaped, and it waits  *)
(* only while it has a worker that was not.                                *)
(***************************************************************************)
None == \A p \in Pids : worker[p] = "free"

WorkerInv ==
  /\ \A p \in Pids : worker[p] # "free" => p = pid
  /\ mon \in {"main", "sigprocmask", "SetPidFile"} => None
  /\ mon = "fork" /\ need_start = 1 => None
  /\ need_start = 0 => mon \in {"fork", "killed"}
  /\ mon \in {"sigwaitinfo", "wait"} \/ (mon = "fork" /\ need_start = 0) =>
       pid \in Pids /\ worker[pid] # "free"

\* The end of a worker leaves a zombie as long as there is a monitor.
LEMMA EndKeepsWorker ==
  ASSUME TypeOK, WorkerInv, NEW p \in Pids, NEW how, End(p, how), Alive(p)
  PROVE  WorkerInv'
  BY DEF TypeOK, WorkerInv, None, End, Alive, locals, Gone

\* What the monitor remembers fits the workers there are (MonitorProc()).
THEOREM WorkerCorrect == Spec => []WorkerInv
<1>1. Init => WorkerInv
  BY DEF Init, WorkerInv, None
<1>2. TypeOK /\ WorkerInv /\ [Next]_vars => WorkerInv'
  <2> SUFFICES ASSUME TypeOK, WorkerInv, [Next]_vars PROVE WorkerInv'
    OBVIOUS
  <2>1. ASSUME Monitor PROVE WorkerInv'
    <3>1. CASE Main \/ BlockSignals \/ SetPidFile \/ KeepWorker
      BY <3>1 DEF Main, BlockSignals, SetPidFile, KeepWorker, StartNext, WorkerInv, None,
         locals, workers
    <3>2. CASE TakeSigchld
      BY <3>2 DEF TakeSigchld, Sigwaitinfo, WorkerInv, None, locals, workers
    <3>3. CASE Wait
      BY <3>3 DEF Wait, Reapable, TypeOK, WorkerInv, None
    <3>4. CASE TakeSigusr1 \/ TakeSigterm
      BY <3>4 DEF TakeSigusr1, TakeSigterm, Sigwaitinfo, WorkerInv, None
    <3>5. CASE Unlink
      BY <3>5 DEF Unlink, Leave, TypeOK, WorkerInv, None, locals
    <3> QED BY <2>1, <3>1, <3>2, <3>3, <3>4, <3>5 DEF Monitor
  <2>2. ASSUME Fork \/ ForkFails PROVE WorkerInv'
    BY <2>2 DEF Fork, ForkFails, AfterFailedFork, TypeOK, WorkerInv, None, workers
  <2>3. ASSUME User PROVE WorkerInv'
    <3>1. ASSUME NEW s, SignalMonitor(s) PROVE WorkerInv'
      <4>1. CASE Leave("killed")
        BY <3>1, <4>1 DEF SignalMonitor, Leave, TypeOK, WorkerInv, None, locals
      <4>2. CASE UNCHANGED <<mon, worker>>
        BY <3>1, <4>2 DEF SignalMonitor, WorkerInv, None, locals
      <4> QED BY <3>1, <4>1, <4>2 DEF SignalMonitor
    <3>2. ASSUME NEW p \in Pids, NEW s, SignalWorker(p, s) PROVE WorkerInv'
      BY <3>2 DEF SignalWorker, WorkerInv, None, monitor, locals
    <3>3. ASSUME NEW p \in Pids, KillWorker(p) \/ WorkerError(p) PROVE WorkerInv'
      BY <3>3, EndKeepsWorker DEF KillWorker, WorkerError, Exit, Runs
    <3>4. ASSUME NEW p \in Pids, StopOrContinue(p) PROVE WorkerInv'
      BY <3>4 DEF StopOrContinue, WorkerInv, None, locals
    <3> QED BY <2>3, <3>1, <3>2, <3>3, <3>4 DEF User
  <2>4. ASSUME NEW p \in Pids, Work(p) PROVE WorkerInv'
    <3>1. CASE InitFails(p) \/ Return(p)
      BY <3>1, EndKeepsWorker DEF InitFails, Return, Sigwait, Exit, Runs
    <3>2. CASE Sigaction(p) \/ InitWorkThread(p)
      BY <3>2 DEF Sigaction, InitWorkThread, Runs, Alive, TypeOK, WorkerInv, None, monitor, locals
    <3>3. CASE ReloadConfig(p)
      BY <3>3 DEF ReloadConfig, WorkerInv, None, monitor, locals
    <3> QED BY <2>4, <3>1, <3>2, <3>3 DEF Work
  <2>5. CASE Done \/ UNCHANGED vars
    BY <2>5 DEF Done, vars, monitor, locals, workers, WorkerInv, None
  <2> QED BY <2>1, <2>2, <2>3, <2>4, <2>5 DEF Next
<1>3. QED BY <1>1, <1>2, TypeCorrect, PTL DEF Spec

\* However the SIGCHLDs of stops and deaths are merged or left over, there
\* is one worker at most, dead or alive (dem.c:260-333).
THEOREM OneWorkerCorrect == Spec => []OneWorker
<1>1. WorkerInv => OneWorker
  BY DEF WorkerInv, OneWorker
<1>2. QED BY <1>1, WorkerCorrect, PTL

\* kill(pid, ...) is called with the pid of a child that was not reaped, not
\* with -1 after a failed fork (dem.c:271, 319, 328).
THEOREM KillsOwnWorkerCorrect == Spec => []KillsOwnWorker
<1>1. WorkerInv => KillsOwnWorker
  BY PidsAssumption DEF WorkerInv, KillsOwnWorker
<1>2. QED BY <1>1, WorkerCorrect, PTL
=============================================================================
