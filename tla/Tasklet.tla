------------------------------ MODULE Tasklet ------------------------------
(***************************************************************************)
(* The module of lab 9, task 1 (task1/md.c): the handler of the keyboard   *)
(* interrupt schedules a tasklet, which runs later on the same CPU.  The   *)
(* kernel keeps two bits of a tasklet: SCHED, it is in a CPU's list, and   *)
(* RUN, a CPU executes it.  md_exit() calls tasklet_kill() before it frees *)
(* the handler; interrupts come between any two steps, on any CPU.         *)
(***************************************************************************)
EXTENDS Naturals

CONSTANTS CPUs,
          MaxKeys  \* interrupts in a behaviour

ASSUME KeysAssumption == MaxKeys \in Nat

VARIABLES
  mod,      \* the next statement of md_init() or md_exit(), or "oops"
  handlers, \* registered: the module's "own", one "left" by a failed load
  proc,     \* the file in /proc exists
  sched,    \* TASKLET_STATE_SCHED
  run,      \* TASKLET_STATE_RUN
  queued,   \* CPUs that have the tasklet in their list
  soft,     \* CPU -> where its softirq is with the tasklet
  stale,    \* CPUs whose list or softirq refers to a module that is gone
  data,     \* my_tasklet.data
  keys,     \* interrupts so far
  due,      \* history: a key of the loaded module still waits for its run
  late      \* history: a key was handled after tasklet_kill()

bits == <<sched, run, queued, soft, stale, data>>
history == <<keys, due, late>>
taskletVars == <<mod, handlers, proc, bits, history>>

TaskletInit ==
  /\ mod = "absent" /\ handlers = {} /\ proc = FALSE
  /\ sched = FALSE /\ run = FALSE /\ queued = {} /\ stale = {}
  /\ soft = [cpu \in CPUs |-> "idle"]
  /\ data = 0 /\ keys = 0 /\ due = FALSE /\ late = FALSE

Oops == mod' = "oops" /\ UNCHANGED <<handlers, proc, bits, history>>

\* The memory of the module is given back: what refers to it is stale.
Free ==
  /\ mod' = "absent"
  /\ sched' = FALSE /\ run' = FALSE /\ data' = 0
  /\ stale' = stale \cup queued \cup {cpu \in CPUs : soft[cpu] # "idle"}
  /\ queued' = {}
  /\ soft' = [cpu \in CPUs |-> "idle"]

(***************************************************************************)
(* md_init() and md_exit().                                                *)
(***************************************************************************)
\* insmod; md_init() returns -1 when request_irq() fails.
RequestIrq ==
  /\ mod = "absent"
  /\ mod' = "proc_create"
  /\ handlers' = handlers \cup {"own"}
  /\ late' = (late /\ stale # {})
  /\ UNCHANGED <<proc, bits, keys, due>>

ProcCreate ==
  /\ mod = "proc_create"
  /\ mod' = "live"
  /\ proc' = TRUE
  /\ UNCHANGED <<handlers, bits, history>>

\* md_init() returns -ENOMEM, the handler stays.
ProcCreateFails ==
  /\ mod = "proc_create"
  /\ handlers' = {"left"}
  /\ Free
  /\ UNCHANGED <<proc, history>>

Rmmod_nokill ==
  /\ mod = "live"
  /\ mod' = "free_irq"
  /\ UNCHANGED <<handlers, proc, bits, history>>
Rmmod ==
  /\ mod = "live"
  /\ mod' = "tasklet_kill"
  /\ UNCHANGED <<handlers, proc, bits, history>>

\* tasklet_kill() waits until the tasklet has left the list, keeps it out of
\* lists by taking SCHED itself, and waits for the end of a run.
TaskletKill ==
  /\ mod = "tasklet_kill" /\ ~sched
  /\ mod' = "unlock_wait"
  /\ sched' = TRUE
  /\ UNCHANGED <<handlers, proc, run, queued, soft, stale, data, history>>

TaskletUnlockWait ==
  /\ mod = "unlock_wait" /\ ~run
  /\ mod' = "free_irq"
  /\ sched' = FALSE
  /\ UNCHANGED <<handlers, proc, run, queued, soft, stale, data, history>>

FreeIrq ==
  /\ mod = "free_irq"
  /\ mod' = "remove_proc_entry"
  /\ handlers' = handlers \ {"own"}
  /\ UNCHANGED <<proc, bits, history>>

RemoveProcEntry ==
  /\ mod = "remove_proc_entry"
  /\ proc' = FALSE
  /\ Free
  /\ UNCHANGED <<handlers, history>>

(***************************************************************************)
(* irq_handler() and the tasklet.                                          *)
(***************************************************************************)
\* tasklet_schedule(): a tasklet that is scheduled is not scheduled again.
Schedule(cpu) ==
  IF sched THEN UNCHANGED <<sched, queued>>
           ELSE sched' = TRUE /\ queued' = queued \cup {cpu}

\* The handler schedules in whatever state the tasklet is.
HandlerSchedules_idle(cpu) == IF run THEN UNCHANGED <<sched, queued>> ELSE Schedule(cpu)
HandlerSchedules(cpu) == Schedule(cpu)

Key(cpu) ==
  /\ "own" \in handlers /\ keys < MaxKeys /\ mod # "oops"
  /\ HandlerSchedules(cpu)
  /\ keys' = keys + 1
  /\ due' = (due \/ mod = "live")
  /\ late' = (late \/ mod = "free_irq")
  /\ UNCHANGED <<mod, handlers, proc, run, soft, stale, data>>

\* The softirq takes the tasklet from the list; one that runs on another CPU
\* is put back and tried again.
Trylock(cpu) ==
  /\ cpu \in queued /\ soft[cpu] = "idle" /\ ~run /\ mod # "oops"
  /\ run' = TRUE
  /\ queued' = queued \ {cpu}
  /\ soft' = [soft EXCEPT ![cpu] = "locked"]
  /\ UNCHANGED <<mod, handlers, proc, sched, stale, data, history>>

\* SCHED is cleared before the function runs: a key from now on is for
\* another run.
ClearSched(cpu) ==
  /\ soft[cpu] = "locked" /\ mod # "oops"
  /\ sched' = FALSE /\ due' = FALSE
  /\ soft' = [soft EXCEPT ![cpu] = "function"]
  /\ UNCHANGED <<mod, handlers, proc, run, queued, stale, data, keys, late>>

MyTaskletFunction(cpu) ==
  /\ soft[cpu] = "function" /\ mod # "oops"
  /\ data' = data + 1
  /\ soft' = [soft EXCEPT ![cpu] = "unlock"]
  /\ UNCHANGED <<mod, handlers, proc, sched, run, queued, stale, history>>

Unlock(cpu) ==
  /\ soft[cpu] = "unlock" /\ mod # "oops"
  /\ run' = FALSE
  /\ soft' = [soft EXCEPT ![cpu] = "idle"]
  /\ UNCHANGED <<mod, handlers, proc, sched, queued, stale, data, history>>

\* A handler, a list or a run that refers to freed memory kills the system,
\* or does nothing if something harmless is there by now.
FreedMemory ==
  /\ mod # "oops"
  /\ \/ "left" \in handlers /\ keys < MaxKeys /\ Oops
     \/ stale # {} /\ Oops
     \/ /\ \E cpu \in stale : stale' = stale \ {cpu}
        /\ UNCHANGED <<mod, handlers, proc, sched, run, queued, soft, data, history>>

Reboot ==
  /\ mod = "oops"
  /\ mod' = "absent" /\ handlers' = {} /\ proc' = FALSE
  /\ sched' = FALSE /\ run' = FALSE /\ queued' = {} /\ stale' = {}
  /\ soft' = [cpu \in CPUs |-> "idle"]
  /\ data' = 0 /\ keys' = 0 /\ due' = FALSE /\ late' = FALSE

Softirq(cpu) ==
  Trylock(cpu) \/ ClearSched(cpu) \/ MyTaskletFunction(cpu) \/ Unlock(cpu)

TaskletNext ==
  \/ RequestIrq \/ ProcCreate \/ ProcCreateFails
  \/ Rmmod \/ TaskletKill \/ TaskletUnlockWait \/ FreeIrq \/ RemoveProcEntry
  \/ \E cpu \in CPUs : Key(cpu) \/ Softirq(cpu)
  \/ FreedMemory \/ Reboot

\* What a softirq has begun it goes on with.
TaskletFairness == \A cpu \in CPUs : WF_taskletVars(Softirq(cpu))
TaskletSpec == TaskletInit /\ [][TaskletNext]_taskletVars /\ TaskletFairness
-----------------------------------------------------------------------------
(***************************************************************************)
(* Properties.                                                             *)
(***************************************************************************)
\* What refers to the module after it has gone (and may kill the system) is
\* there because of a key between tasklet_kill() (md.c:157) and free_irq()
\* (:160): md_exit() has waited for every run and every place in a list that
\* is older.  A load that failed has the same effect (:148).
OnlyLateKeysOutlive == stale # {} => late \/ "left" \in handlers

\* A key handled before rmmod begins is followed by a run of the tasklet that
\* begins after it, even if it came during a run, was merged with another, or
\* rmmod begins before that run: tasklet_kill() waits for it.
HandledKeysRun == due ~> ~due \/ mod = "oops"
=============================================================================
