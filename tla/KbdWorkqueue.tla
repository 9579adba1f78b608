---------------------------- MODULE KbdWorkqueue ----------------------------
(***************************************************************************)
(* The keyboard module of lab 9, task 2 (task2/md.c).  Every keyboard      *)
(* interrupt queues two works; the first reads the keyboard port when it   *)
(* runs and appends the name of the key to a buffer that starts over when  *)
(* the name does not fit; a /proc file shows the buffer.  Interrupts,      *)
(* works, readers and the loading and unloading of the module interleave.  *)
(* Of the kernel: a work is queued at most once, leaves the queue when it  *)
(* starts and never runs twice at a time; flush and destroy wait for the   *)
(* works; using what does not exist is an oops, after which all stops.     *)
(***************************************************************************)
EXTENDS Integers, Sequences, FiniteSets

CONSTANTS Keys,            \* the keys of keyboard_key
          Unknown,         \* a key whose scan code is not in the table
          NUL,             \* the character that ends a string
          Foreign,         \* what lies in memory behind the buffer
          KeyLen,          \* length of the name of each key
          MAX_INFO_LAST,   \* length of info_last
          Presses,         \* the keys the user may press
          Paced,           \* TRUE: the works end before the next interrupt
          KeysWhileLoading,\* TRUE: keys are pressed during init and exit
          MayFail          \* the calls of md_init that may fail

ASSUME KeysAssumption ==
  /\ NUL \notin Keys \cup {Unknown, Foreign} /\ Unknown \notin Keys
  /\ Presses \subseteq Keys \cup {Unknown}
ASSUME SizesAssumption ==
  /\ MAX_INFO_LAST \in Nat \ {0}
  /\ KeyLen \in [Keys -> 1 .. MAX_INFO_LAST]

Works == {"my_work", "my_work2"}

VARIABLES
  mod,        \* absent, in a step of md_init, live, in a step of md_exit
  irq,        \* the handler is registered
  my_wq,      \* null, live or destroyed; damaged: overwritten in part
  proc,       \* the /proc file exists
  port,       \* the last scan code: key and pressed or released
  queued,     \* works in the queue
  running,    \* works that run
  wpc,        \* the step of my_wq_function1
  work,       \* its locals: the scan code, the length of the name, i
  curr_index,
  info_last,  \* the buffer
  report,     \* what the reader of /proc has: length, then text
  typed,      \* what the keys pressed spell, started over as the
              \* buffer is (history)
  oops        \* what the kernel died of

module == <<mod, irq, my_wq, proc>>
queue == <<queued, running>>
buffer == <<curr_index, info_last>>
vars == <<module, port, queue, wpc, work, buffer, report, typed, oops>>

InBuffer == 0 .. MAX_INFO_LAST - 1
NoCode == <<NUL, "none">>
NoWork == [code |-> NoCode, len |-> 0, i |-> 0]
NoReport == [len |-> -1, text |-> <<>>]
Zeroed == [x \in InBuffer |-> NUL]

Init ==
  /\ mod = "absent" /\ irq = FALSE /\ my_wq = "null" /\ proc = FALSE
  /\ port = NoCode
  /\ queued = {} /\ running = {}
  /\ wpc = "idle" /\ work = NoWork
  /\ curr_index = 0 /\ info_last = Zeroed
  /\ report = NoReport /\ typed = <<>> /\ oops = "none"

(***************************************************************************)
(* md_init().                                                              *)
(***************************************************************************)
Quiet == UNCHANGED <<port, queue, wpc, work, buffer, report, typed, oops>>
At(step) == oops = "none" /\ mod = step

\* The module is loaded: its static variables have their first values.  One
\* whose handler a failed md_init() left behind is not loaded a second time.
Load ==
  /\ At("absent") /\ ~irq /\ queued \cup running = {}
  /\ mod' = "request_irq" /\ my_wq' = "null"
  /\ curr_index' = 0 /\ info_last' = Zeroed /\ typed' = <<>>
  /\ UNCHANGED <<irq, proc, port, queue, wpc, work, report, oops>>

RequestIrq ==
  /\ At("request_irq")
  /\ \/ irq' = TRUE /\ mod' = "create_workqueue"
     \/ "request_irq" \in MayFail /\ irq' = irq /\ mod' = "absent"
  /\ UNCHANGED <<my_wq, proc>> /\ Quiet

CreateWorkqueue ==
  /\ At("create_workqueue")
  /\ \/ my_wq' = "live" /\ mod' = "proc_create" /\ irq' = irq
     \/ "create_workqueue" \in MayFail /\ my_wq' = my_wq /\ mod' = "absent" /\ irq' = FALSE
  /\ UNCHANGED proc /\ Quiet

\* A failed proc_create() returns at once, the handler stays registered.
ProcCreate ==
  /\ At("proc_create")
  /\ \/ proc' = TRUE /\ mod' = "live"
     \/ "proc_create" \in MayFail /\ proc' = proc /\ mod' = "absent"
  /\ UNCHANGED <<irq, my_wq>> /\ Quiet

(***************************************************************************)
(* md_exit().                                                              *)
(***************************************************************************)
Unload ==
  /\ At("live")
  /\ mod' = "flush_workqueue"
  /\ UNCHANGED <<irq, my_wq, proc>> /\ Quiet

Drained_queue == queued = {}
Drained == queued = {} /\ running = {}

\* A call that is given a damaged pointer is an oops.
UseDamaged ==
  /\ At("flush_workqueue") \/ At("destroy_workqueue")
  /\ my_wq = "damaged" /\ oops' = "damaged queue"
  /\ UNCHANGED <<module, port, queue, wpc, work, buffer, report, typed>>

\* The pointer may be damaged after the call was given it.
FlushWorkqueue ==
  /\ At("flush_workqueue") /\ Drained
  /\ mod' = "destroy_workqueue"
  /\ UNCHANGED <<irq, my_wq, proc>> /\ Quiet

DestroyWorkqueue ==
  /\ At("destroy_workqueue") /\ Drained /\ my_wq # "damaged"
  /\ my_wq' = "destroyed" /\ mod' = "free_irq"
  /\ UNCHANGED <<irq, proc>> /\ Quiet

FreeIrq ==
  /\ At("free_irq")
  /\ irq' = FALSE /\ mod' = "remove_proc_entry"
  /\ UNCHANGED <<my_wq, proc>> /\ Quiet

\* remove_proc_entry() waits for a reader in show() and closes its file.
RemoveProcEntry ==
  /\ At("remove_proc_entry") /\ report.text # <<NUL>>
  /\ proc' = FALSE /\ mod' = "absent" /\ report' = NoReport
  /\ UNCHANGED <<irq, my_wq, port, queue, wpc, work, buffer, typed, oops>>

(***************************************************************************)
(* A key is pressed or released: the code is in the port and irq_handler() *)
(* runs, in whatever state the module is in.                               *)
(***************************************************************************)
\* The first of the two queue_work() calls dies without a queue.
HandlerDiesOf ==
  IF ~irq THEN "none"
  ELSE IF mod = "absent" THEN "no module"
  ELSE IF my_wq = "null" THEN "null queue"
  ELSE IF my_wq = "destroyed" THEN "destroyed queue"
  ELSE IF my_wq = "damaged" THEN "damaged queue"
  ELSE "none"

NameOf(k) == [x \in 1 .. KeyLen[k] |-> k]

\* What the buffer should spell once k is logged.
Remembered(k) ==
  IF k \notin Keys THEN typed
  ELSE IF Len(typed) + KeyLen[k] > MAX_INFO_LAST THEN NameOf(k)
  ELSE typed \o NameOf(k)

Interrupt(k, what) ==
  /\ oops = "none"
  /\ Paced => Drained
  /\ KeysWhileLoading \/ mod \in {"live", "absent"}
  /\ port' = <<k, what>>
  /\ oops' = HandlerDiesOf
  /\ queued' = IF irq /\ oops' = "none" THEN Works ELSE queued
  /\ typed' = IF irq /\ what = "pressed" /\ oops' = "none" THEN Remembered(k) ELSE typed
  /\ UNCHANGED <<module, running, wpc, work, buffer, report>>

(***************************************************************************)
(* The works.  One that starts after the module went is an oops.           *)
(***************************************************************************)
Start(w) ==
  /\ oops = "none" /\ w \in queued \ running
  /\ queued' = queued \ {w} /\ running' = running \cup {w}
  /\ wpc' = IF w = "my_work" THEN "inb" ELSE wpc
  /\ oops' = IF mod = "absent" THEN "no module" ELSE "none"
  /\ UNCHANGED <<module, port, work, buffer, report, typed>>

\* my_wq_function2 prints and leaves.
Function2 ==
  /\ oops = "none" /\ "my_work2" \in running
  /\ running' = running \ {"my_work2"}
  /\ UNCHANGED <<module, port, queued, wpc, work, buffer, report, typed, oops>>

EndFunction1 == running' = running \ {"my_work"} /\ wpc' = "idle" /\ work' = NoWork

\* scancode = inb(KBD_DATA_REG); a released key is not logged.
ReadPort ==
  /\ oops = "none" /\ wpc = "inb"
  /\ \/ /\ port[2] = "pressed"
        /\ work' = [NoWork EXCEPT !.code = port] /\ wpc' = "strlen"
        /\ UNCHANGED running
     \/ port[2] # "pressed" /\ EndFunction1
  /\ UNCHANGED <<module, port, queued, buffer, report, typed, oops>>

\* Where the name goes: behind the last one, or at the start of the buffer.
Cursor_tight(len) == IF curr_index + len > MAX_INFO_LAST + 1 THEN 0 ELSE curr_index
Cursor(len) == IF curr_index + len > MAX_INFO_LAST THEN 0 ELSE curr_index

MeasureKey ==
  /\ oops = "none" /\ wpc = "strlen" /\ work.code[1] \in Keys
  /\ work' = [work EXCEPT !.len = KeyLen[work.code[1]]]
  /\ curr_index' = Cursor(work'.len)
  /\ wpc' = "copy"
  /\ UNCHANGED <<module, port, queue, info_last, report, typed, oops>>

\* A scan code above KEYS_COUNT is reported and then used all the same to
\* index keyboard_key.  What is found there is a text that fits, or no
\* address at all, and then the kernel dies.  A text longer than the buffer
\* is written over whatever follows it: nothing is said of what comes then,
\* and the model stops as for an oops.
MeasureUnknown ==
  /\ oops = "none" /\ wpc = "strlen" /\ work.code[1] = Unknown
  /\ \/ /\ \E n \in 0 .. MAX_INFO_LAST : work' = [work EXCEPT !.len = n]
        /\ curr_index' = Cursor(work'.len)
        /\ wpc' = "copy" /\ UNCHANGED oops
     \/ oops' = "unknown key" /\ UNCHANGED <<work, curr_index, wpc>>
  /\ UNCHANGED <<module, port, queue, info_last, report, typed>>

CopyChar ==
  /\ oops = "none" /\ wpc = "copy" /\ work.i < work.len
  /\ info_last' = [info_last EXCEPT ![curr_index] = work.code[1]]
  /\ curr_index' = curr_index + 1
  /\ work' = [work EXCEPT !.i = @ + 1]
  /\ UNCHANGED <<module, port, queue, wpc, report, typed, oops>>

\* info_last[curr_index] = '\0'.  When the buffer is full that is the byte
\* behind it, which belongs to who knows whom: the linker may put my_wq there.
Terminate_none == info_last
Terminated ==
  IF curr_index \in InBuffer THEN [info_last EXCEPT ![curr_index] = NUL] ELSE info_last

MayDamage ==
  IF curr_index \notin InBuffer /\ my_wq = "live" THEN {"live", "damaged"} ELSE {my_wq}

Seal ==
  /\ oops = "none" /\ wpc = "copy" /\ work.i = work.len
  /\ info_last' = Terminated /\ my_wq' \in MayDamage
  /\ EndFunction1
  /\ UNCHANGED <<mod, irq, proc, port, queued, curr_index, report, typed, oops>>

(***************************************************************************)
(* show(): strlen(info_last), then the string itself.                      *)
(***************************************************************************)
\* The characters of the buffer in front of its first NUL.
Text ==
  LET end == CHOOSE x \in 0 .. MAX_INFO_LAST :
               /\ \A y \in 0 .. x - 1 : info_last[y] # NUL
               /\ x \in InBuffer => info_last[x] = NUL
  IN  [x \in 1 .. end |-> info_last[x - 1]]

\* Without a NUL in the buffer the string goes on behind it: not at all if
\* there is a NUL just then, or by characters of others (one stands for any).
Strings == {Text} \cup (IF Len(Text) = MAX_INFO_LAST THEN {Append(Text, Foreign)} ELSE {})

ShowLength ==
  /\ oops = "none" /\ proc /\ report.len = -1
  /\ \E s \in Strings : report' = [len |-> Len(s), text |-> <<NUL>>]
  /\ UNCHANGED <<module, port, queue, wpc, work, buffer, typed, oops>>

ShowText ==
  /\ oops = "none" /\ report.text = <<NUL>>
  /\ \E s \in Strings : report' = [report EXCEPT !.text = s]
  /\ UNCHANGED <<module, port, queue, wpc, work, buffer, typed, oops>>

CloseProc ==
  /\ report.len >= 0 /\ report.text # <<NUL>>
  /\ report' = NoReport
  /\ UNCHANGED <<module, port, queue, wpc, work, buffer, typed, oops>>

Exit ==
  Unload \/ UseDamaged \/ FlushWorkqueue \/ DestroyWorkqueue \/ FreeIrq \/ RemoveProcEntry
Function1 == ReadPort \/ MeasureKey \/ MeasureUnknown \/ CopyChar \/ Seal
Kernel == (\E w \in Works : Start(w)) \/ Function1 \/ Function2
Reader == ShowText \/ CloseProc
Dead == oops # "none" /\ UNCHANGED vars

Next ==
  \/ Load \/ RequestIrq \/ CreateWorkqueue \/ ProcCreate \/ Exit
  \/ \E k \in Presses : Interrupt(k, "pressed") \/ Interrupt(k, "released")
  \/ Kernel \/ ShowLength \/ Reader \/ Dead

Spec == Init /\ [][Next]_vars

\* Works that are queued run, readers and rmmod go on when they can.
FairSpec == Spec /\ WF_vars(Kernel) /\ WF_vars(Reader) /\ WF_vars(Exit)
-----------------------------------------------------------------------------
(***************************************************************************)
(* Properties.                                                             *)
(***************************************************************************)
Steps == {"absent", "request_irq", "create_workqueue", "proc_create", "live",
          "flush_workqueue", "destroy_workqueue", "free_irq", "remove_proc_entry"}
Codes == {NoCode} \cup (Keys \cup {Unknown}) \X {"pressed", "released"}
Chars == Keys \cup {Unknown, Foreign, NUL}

\* Every variable keeps the type its declaration gives it.
TypeOK ==
  /\ mod \in Steps /\ irq \in BOOLEAN /\ proc \in BOOLEAN
  /\ my_wq \in {"null", "live", "destroyed", "damaged"}
  /\ port \in Codes
  /\ queued \subseteq Works /\ running \subseteq Works
  /\ wpc \in {"idle", "inb", "strlen", "copy"}
  /\ work \in [code : Codes, len : 0 .. MAX_INFO_LAST, i : 0 .. MAX_INFO_LAST]
  /\ curr_index \in 0 .. MAX_INFO_LAST
  /\ info_last \in [InBuffer -> Chars]
  /\ report \in [len : -1 .. MAX_INFO_LAST + 1, text : Seq(Chars)]
  /\ typed \in Seq(Keys)
  /\ oops \in {"none", "no module", "null queue", "destroyed queue", "damaged queue",
              "unknown key"}

\* When the module is gone nothing of it is: no handler, no file, no queue
\* and no work that would still run its code.
NothingLeftBehind ==
  mod = "absent" => ~irq /\ ~proc /\ my_wq \notin {"live", "damaged"} /\ queued \cup running = {}

\* The rest of a name that is being copied fits in front of the end of the
\* buffer, wherever earlier names of other lengths left the cursor.
NameFits == wpc = "copy" => curr_index + (work.len - work.i) <= MAX_INFO_LAST

\* Wherever names and their restarts left the cursor, the text in the buffer
\* reaches up to it; and when no name is being copied and the last one left
\* room, it ends there: a reader of /proc sees nothing of an older, longer
\* text and stays inside the buffer.  (While a name is copied, or when it has
\* filled the buffer, he may find no NUL in it.)
TextReachesCursor ==
  /\ Len(Text) >= curr_index
  /\ wpc # "copy" /\ curr_index < MAX_INFO_LAST => Len(Text) = curr_index

\* When no work is left the buffer spells the keys pressed since it started
\* over: each once, in order, and nothing of what it held before.  (A reader
\* who finds it full may see more than the buffer: see Strings.)
HoldsTypedKeys == mod = "live" /\ Drained => Text = typed

\* A key that was pressed is seen in the buffer in the end.
KeysAreLogged == typed # <<>> ~> Text = typed

\* The handler puts its works into a queue (md.c:212), one that md_init has
\* created (md.c:239) and that md_exit has not ended for good (md.c:263-264).
HandlerHasQueue == oops \notin {"null queue", "destroyed queue"}
=============================================================================
