----------------------------- MODULE Supervisor -----------------------------
(***************************************************************************)
(* The supervised daemon of lab 1 (daemon/code_rago/dem.c).  MonitorProc() *)
(* forks a worker, waits for signals, passes SIGUSR1 on, starts the worker *)
(* again when it died, and ends when the worker returned or when it is     *)
(* told to.  WorkProc() waits for signals too.  Anyone may signal either.  *)
(* The work itself is a stub in the source (InitWorkThread, dem.c:53): the *)
(* callers' handling of both its results is modelled.                      *)
(* Of the kernel: a worker inherits the blocked signals of the monitor;    *)
(* its end, stop and continuation are each announced by SIGCHLD; signals   *)
(* of one number that wait are one; the lowest number is handed out first. *)
(***************************************************************************)
EXTENDS Integers, FiniteSets

CONSTANTS Pids,         \* pids of workers, used again when free
          NoPid,        \* what a failed fork() returns
          InitResults,  \* what InitWorkThread() may return
          MaxSignals    \* signals sent from outside in a behaviour

ASSUME PidsAssumption == NoPid \notin Pids
ASSUME BoundsAssumption == MaxSignals \in Nat /\ InitResults \subseteq {0, 1}

SIGKILL == 9
SIGUSR1 == 10
SIGSEGV == 11
SIGTERM == 15   \* and SIGINT, SIGQUIT: both procs treat the three alike
SIGCHLD == 17
CHILD_NEED_WORK == 1
CHILD_NEED_TERMINATE == 2

VARIABLES
  mon,         \* the call the monitor is at
  need_start, pid, status,   \* its locals
  mpending,    \* blocked signals that wait for the monitor
  pidfile,     \* absent or present
  worker,      \* pid -> the call the worker is at, free or zombie
  raw,         \* pid -> status its parent will get from wait()
  stopped,     \* pid -> stopped by SIGSTOP
  wpending,    \* pid -> blocked signals that wait for the worker
  sent         \* signals sent so far

locals == <<need_start, pid, status>>
monitor == <<mon, locals, mpending, pidfile>>
workers == <<worker, raw, stopped, wpending>>
vars == <<monitor, workers, sent>>

Gone == {"ended", "killed"}
Alive(p) == worker[p] \notin {"free", "zombie"}
Runs(p) == Alive(p) /\ ~stopped[p]
Lowest(S) == CHOOSE s \in S : \A t \in S : s <= t

Init ==
  /\ mon = "main" /\ need_start = 1 /\ pid = NoPid /\ status = 0
  /\ mpending = {} /\ pidfile = "absent"
  /\ worker = [p \in Pids |-> "free"] /\ raw = [p \in Pids |-> 0]
  /\ stopped = [p \in Pids |-> FALSE] /\ wpending = [p \in Pids |-> {}]
  /\ sent = 0

(***************************************************************************)
(* main() and the start of MonitorProc().                                  *)
(***************************************************************************)
\* LoadConfig(), fork(), setsid(): an error ends it with -1.
Main ==
  /\ mon = "main" /\ mon' \in {"sigprocmask", "ended"}
  /\ UNCHANGED <<locals, mpending, pidfile, workers, sent>>

BlockSignals ==
  /\ mon = "sigprocmask" /\ mon' = "SetPidFile"
  /\ UNCHANGED <<locals, mpending, pidfile, workers, sent>>

\* A file that cannot be opened is no error.
SetPidFile ==
  /\ mon = "SetPidFile" /\ mon' = "fork"
  /\ pidfile' \in {"absent", "present"}
  /\ UNCHANGED <<locals, mpending, workers, sent>>

(***************************************************************************)
(* The loop of MonitorProc().                                              *)
(***************************************************************************)
Fork ==
  /\ mon = "fork" /\ need_start = 1
  /\ \E p \in Pids :
       /\ worker[p] = "free"
       /\ pid' = p
       /\ worker' = [worker EXCEPT ![p] = "sigaction"]
  /\ mon' = "sigwaitinfo"
  /\ UNCHANGED <<need_start, status, mpending, pidfile, raw, stopped, wpending, sent>>

AfterFailedFork_waits == "sigwaitinfo"
AfterFailedFork == "fork"

\* The failure is logged and the loop tries again.
ForkFails ==
  /\ mon = "fork" /\ need_start = 1
  /\ pid' = NoPid /\ mon' = AfterFailedFork
  /\ UNCHANGED <<need_start, status, mpending, pidfile, workers, sent>>

\* need_start = 1, in every pass
StartNext_once == need_start
StartNext == 1

\* After SIGUSR1 the worker that there is stays.
KeepWorker ==
  /\ mon = "fork" /\ need_start = 0
  /\ need_start' = StartNext /\ mon' = "sigwaitinfo"
  /\ UNCHANGED <<pid, status, mpending, pidfile, workers, sent>>

Pending_cleared(s) == {}
Pending(s) == mpending \ {s}

Sigwaitinfo(s) ==
  /\ mon = "sigwaitinfo" /\ mpending # {} /\ s = Lowest(mpending)
  /\ mpending' = Pending(s)

TakeSigchld ==
  /\ Sigwaitinfo(SIGCHLD)
  /\ mon' = "wait"
  /\ UNCHANGED <<locals, pidfile, workers, sent>>

\* wait() takes any worker that ended and blocks until there is one.
Reapable_nohang(p) == p = pid
Reapable(p) == worker[p] = "zombie"

WEXITSTATUS_raw(s) == s
WEXITSTATUS(s) == (s \div 256) % 256

Wait ==
  /\ mon = "wait"
  /\ \E p \in Pids :
       /\ Reapable(p)
       /\ worker' = [worker EXCEPT ![p] = IF @ = "zombie" THEN "free" ELSE @]
       /\ raw' = [raw EXCEPT ![p] = 0]
       /\ status' = WEXITSTATUS(raw[p])
  /\ mon' = IF status' = CHILD_NEED_TERMINATE THEN "unlink" ELSE "fork"
  /\ UNCHANGED <<need_start, pid, mpending, pidfile, stopped, wpending, sent>>

\* kill(pid, s); a worker that ended does not mind.
Target_none == {}
Target == {p \in {pid} : Alive(p)}
Kill(s) == wpending' = [p \in Pids |-> IF p \in Target THEN wpending[p] \cup {s} ELSE wpending[p]]

TakeSigusr1 ==
  /\ Sigwaitinfo(SIGUSR1) /\ Kill(SIGUSR1)
  /\ need_start' = 0 /\ mon' = "fork"
  /\ UNCHANGED <<pid, status, pidfile, worker, raw, stopped, sent>>

TakeSigterm ==
  /\ Sigwaitinfo(SIGTERM) /\ Kill(SIGTERM)
  /\ status' = 0 /\ mon' = "unlink"
  /\ UNCHANGED <<need_start, pid, pidfile, worker, raw, stopped, sent>>

\* The monitor is gone: nobody waits for its signals, init reaps for it.
Leave(how) ==
  /\ mon' = how /\ mpending' = {}
  /\ worker' = [p \in Pids |-> IF worker[p] = "zombie" THEN "free" ELSE worker[p]]
  /\ raw' = [p \in Pids |-> 0]

Unlink ==
  /\ mon = "unlink"
  /\ pidfile' = "absent"
  /\ Leave("ended")
  /\ UNCHANGED <<locals, stopped, wpending, sent>>

(***************************************************************************)
(* WorkProc().                                                             *)
(***************************************************************************)
\* A signal the monitor has blocked or, gone, will never see
Tell(s) == mpending' = IF mon \in Gone THEN mpending ELSE mpending \cup {s}

\* Worker p ends; the status its parent can wait for, if there is a parent.
End(p, how) ==
  /\ worker' = [worker EXCEPT ![p] = IF mon \in Gone THEN "free" ELSE "zombie"]
  /\ raw' = [raw EXCEPT ![p] = IF mon \in Gone THEN 0 ELSE how]
  /\ stopped' = [stopped EXCEPT ![p] = FALSE]
  /\ wpending' = [wpending EXCEPT ![p] = {}]
  /\ Tell(SIGCHLD)
  /\ UNCHANGED <<mon, locals, pidfile>>

Exit(p, code) == End(p, 256 * code)

\* Handlers for errors; the four signals to wait for are blocked already.
Sigaction(p) ==
  /\ Runs(p) /\ worker[p] = "sigaction"
  /\ worker' = [worker EXCEPT ![p] = "InitWorkThread"]
  /\ UNCHANGED <<monitor, raw, stopped, wpending, sent>>

InitWorkThread(p) ==
  /\ Runs(p) /\ worker[p] = "InitWorkThread"
  /\ 0 \in InitResults
  /\ worker' = [worker EXCEPT ![p] = "sigwait"]
  /\ UNCHANGED <<monitor, raw, stopped, wpending, sent>>

InitFails(p) ==
  /\ Runs(p) /\ worker[p] = "InitWorkThread"
  /\ 1 \in InitResults
  /\ Exit(p, CHILD_NEED_TERMINATE)
  /\ UNCHANGED sent

Sigwait(p, s) ==
  Runs(p) /\ worker[p] = "sigwait" /\ wpending[p] # {} /\ s = Lowest(wpending[p])

ReloadConfig(p) ==
  /\ Sigwait(p, SIGUSR1)
  /\ wpending' = [wpending EXCEPT ![p] = @ \ {SIGUSR1}]
  /\ UNCHANGED <<monitor, worker, raw, stopped, sent>>

Return(p) ==
  /\ Sigwait(p, SIGTERM)
  /\ Exit(p, CHILD_NEED_TERMINATE)
  /\ UNCHANGED sent

(***************************************************************************)
(* Signals from outside.                                                   *)
(***************************************************************************)
Sends == sent < MaxSignals /\ sent' = sent + 1

\* Before sigprocmask() any signal kills the monitor, later SIGKILL, which
\* stands for every signal that is not blocked.
SignalMonitor(s) ==
  /\ Sends /\ mon \notin Gone \cup {"main"}
  /\ IF s = SIGKILL \/ mon = "sigprocmask"
       THEN Leave("killed")
       ELSE Tell(s) /\ UNCHANGED <<mon, worker, raw>>
  /\ UNCHANGED <<locals, pidfile, stopped, wpending>>

SignalWorker(p, s) ==
  /\ Sends /\ Alive(p)
  /\ wpending' = [wpending EXCEPT ![p] = @ \cup {s}]
  /\ UNCHANGED <<monitor, worker, raw, stopped>>

KillWorker(p) == Sends /\ Alive(p) /\ End(p, SIGKILL)

\* signal_error(), once it is the handler.
WorkerError(p) ==
  /\ Sends /\ Runs(p)
  /\ IF worker[p] = "sigaction" THEN End(p, SIGSEGV)
     ELSE Exit(p, CHILD_NEED_WORK)

\* SIGSTOP, and SIGCONT after it; each is told to the parent.
StopOrContinue(p) ==
  /\ Alive(p)
  /\ IF stopped[p] THEN UNCHANGED sent ELSE Sends
  /\ stopped' = [stopped EXCEPT ![p] = ~@]
  /\ Tell(SIGCHLD)
  /\ UNCHANGED <<mon, locals, pidfile, worker, raw, wpending>>

Work(p) == Sigaction(p) \/ InitWorkThread(p) \/ InitFails(p) \/ ReloadConfig(p) \/ Return(p)

Monitor ==
  \/ Main \/ BlockSignals \/ SetPidFile \/ KeepWorker
  \/ TakeSigchld \/ Wait \/ TakeSigusr1 \/ TakeSigterm \/ Unlink

User ==
  \/ \E s \in {SIGKILL, SIGUSR1, SIGTERM} : SignalMonitor(s)
  \/ \E p \in Pids : \/ \E s \in {SIGUSR1, SIGTERM} : SignalWorker(p, s)
                     \/ KillWorker(p) \/ WorkerError(p) \/ StopOrContinue(p)

Done == mon \in Gone /\ UNCHANGED vars

Next == Monitor \/ Fork \/ ForkFails \/ User \/ Done \/ \E p \in Pids : Work(p)

Spec == Init /\ [][Next]_vars

\* Processes that can run do, and fork() does not fail for ever.
FairSpec ==
  /\ Spec /\ WF_vars(Monitor) /\ WF_vars(Fork)
  /\ \A p \in Pids : WF_vars(Work(p))
-----------------------------------------------------------------------------
(***************************************************************************)
(* Properties.                                                             *)
(***************************************************************************)
\* Every variable keeps the type its declaration gives it.
TypeOK ==
  /\ mon \in Gone \cup {"main", "sigprocmask", "SetPidFile", "fork",
                        "sigwaitinfo", "wait", "unlink"}
  /\ need_start \in {0, 1} /\ pid \in Pids \cup {NoPid}
  /\ status \in {0, CHILD_NEED_WORK, CHILD_NEED_TERMINATE}
  /\ mpending \subseteq {SIGUSR1, SIGTERM, SIGCHLD} /\ pidfile \in {"absent", "present"}
  /\ worker \in [Pids -> {"free", "sigaction", "InitWorkThread", "sigwait", "zombie"}]
  /\ raw \in [Pids -> {0, SIGKILL, SIGSEGV} \cup {256 * CHILD_NEED_WORK, 256 * CHILD_NEED_TERMINATE}]
  /\ stopped \in [Pids -> BOOLEAN]
  /\ wpending \in [Pids -> SUBSET {SIGUSR1, SIGTERM}]
  /\ sent \in 0 .. MaxSignals

\* However SIGCHLDs are merged, left over from a stop or handled after the
\* next worker was started, there are never two workers, dead or alive.
OneWorker == \A p, q \in Pids : worker[p] # "free" /\ worker[q] # "free" => p = q

\* When the monitor can receive a signal, the pid it would pass it on to is
\* a child it has not reaped: never -1, which is everybody, nor the pid of
\* somebody who came after.
KillsOwnWorker ==
  mon \in {"sigwaitinfo", "wait"} => pid # NoPid /\ worker[pid] # "free"

\* A worker that died of an error or was killed is replaced.
WorkerIsReplaced ==
  (\E p \in Pids : worker[p] = "zombie" /\ raw[p] # 256 * CHILD_NEED_TERMINATE)
    ~> (mon \in Gone \cup {"unlink"} \/ \E p \in Pids : Alive(p))

\* A worker that returned from WorkProc() is not: the monitor ends with it.
ReturnEndsMonitor ==
  (\E p \in Pids : worker[p] = "zombie" /\ raw[p] = 256 * CHILD_NEED_TERMINATE)
    ~> mon \in Gone

\* A monitor that finds SIGTERM when it waits for signals ends, whatever
\* else waits with it.
TermIsObeyed == mon = "sigwaitinfo" /\ SIGTERM \in mpending ~> mon \in Gone

\* When the monitor has ended in order so does its worker, unless someone
\* keeps it stopped.
WorkerEndsToo ==
  mon = "unlink" ~> mon \in Gone /\ \A p \in Pids : worker[p] = "free" \/ stopped[p]
=============================================================================
