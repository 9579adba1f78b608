------------------------------- MODULE Fortune -------------------------------
(***************************************************************************)
(* The fortune cookie module of lab 4 (part_02/fortune.c): /proc/fortune   *)
(* takes cookies into one page of memory and gives them back in turn.      *)
(* fortune_write and fortune_read share cookie_buf, both indices and tmp   *)
(* without a lock, so their statements interleave.  A cookie is abstracted *)
(* to a letter and its count of bytes.  The page is followed by a guard    *)
(* page: an access beyond its end is an oops, after which all stops.       *)
(***************************************************************************)
EXTENDS Integers, Sequences, FiniteSets

CONSTANTS Procs,            \* processes with /proc/fortune open
          Letters,          \* what cookies are made of
          NUL,              \* the character that ends a string
          COOKIE_BUF_SIZE,  \* bytes of cookie_buf
          TmpSize,          \* bytes of tmp
          MaxCount,         \* longest write() the users make
          Exclusive         \* TRUE: calls come one at a time, after fortune_init()

ASSUME SizesAssumption ==
  /\ COOKIE_BUF_SIZE \in Nat \ {0} /\ TmpSize \in Nat /\ MaxCount \in Nat
  /\ NUL \notin Letters

VARIABLES
  mod,          \* the step of fortune_init or fortune_exit, or live
  proc,         \* the /proc file exists
  cookie_buf,
  read_index, write_index,
  tmp,          \* the text in tmp
  pc,           \* process -> the statement it is at
  args,         \* process -> letter and count of its write, len of its read
  f_pos,        \* process -> it has read from its open file
  out,          \* the text the last read returned (history)
  acked,        \* writes that returned their count, since the reset (history)
  oops          \* what the kernel died of

module == <<mod, proc>>
indices == <<read_index, write_index>>
calls == <<pc, args, f_pos>>
history == <<out, acked>>
vars == <<module, cookie_buf, indices, tmp, calls, history, oops>>

Cells == 0 .. COOKIE_BUF_SIZE - 1
NoArgs == [letter |-> NUL, count |-> 0, len |-> 0]
Zeroed == [x \in Cells |-> NUL]

Init ==
  /\ mod = "absent" /\ proc = FALSE
  /\ cookie_buf = Zeroed /\ read_index = 0 /\ write_index = 0 /\ tmp = <<>>
  /\ pc = [p \in Procs |-> "idle"] /\ args = [p \in Procs |-> NoArgs]
  /\ f_pos = [p \in Procs |-> FALSE]
  /\ out = <<>> /\ acked = 0 /\ oops = "none"

(***************************************************************************)
(* fortune_init() and fortune_exit().                                      *)
(***************************************************************************)
At(step) == oops = "none" /\ mod = step

\* vmalloc() and memset(); the module is loaded anew.
Vmalloc ==
  /\ At("absent")
  /\ mod' = "proc_create"
  /\ cookie_buf' = Zeroed /\ read_index' = 0 /\ write_index' = 0
  /\ out' = <<>> /\ acked' = 0
  /\ UNCHANGED <<proc, tmp, calls, oops>>

ProcCreate ==
  /\ At("proc_create")
  /\ \/ mod' = "indices" /\ proc' = TRUE
     \/ mod' = "absent" /\ proc' = FALSE      \* vfree(), -ENOMEM
  /\ UNCHANGED <<cookie_buf, indices, tmp, calls, history, oops>>

\* read_index = 0; write_index = 0, when the file can be used already
ResetIndices ==
  /\ At("indices")
  /\ mod' = "live"
  /\ read_index' = 0 /\ write_index' = 0 /\ acked' = 0
  /\ UNCHANGED <<proc, cookie_buf, tmp, calls, out, oops>>

Idle == \A p \in Procs : pc[p] = "idle"

\* remove_proc_entry() waits for the calls that are in the module, vfree()
Remove ==
  /\ At("live") /\ Idle
  /\ mod' = "absent" /\ proc' = FALSE
  /\ cookie_buf' = Zeroed /\ read_index' = 0 /\ write_index' = 0
  /\ f_pos' = [p \in Procs |-> FALSE]
  /\ out' = <<>> /\ acked' = 0
  /\ UNCHANGED <<tmp, pc, args, oops>>

(***************************************************************************)
(* fortune_write(), one action per statement.                              *)
(***************************************************************************)
MayCall(p) ==
  /\ oops = "none" /\ proc /\ pc[p] = "idle"
  /\ Exclusive => Idle /\ mod = "live"

\* space_available < count: an int against a size_t, so that a negative
\* space_available is a huge number.
BufferFull_never(count) == FALSE
BufferFull(count) ==
  LET space_available == (COOKIE_BUF_SIZE - write_index) + 1
  IN  space_available >= 0 /\ space_available < count

Goto(p, step) == pc' = [pc EXCEPT ![p] = step]

Write(p, letter, count) ==
  /\ MayCall(p)
  /\ IF BufferFull(count) THEN UNCHANGED <<pc, args>>      \* -ENOSPC
     ELSE /\ Goto(p, "copy")
          /\ args' = [args EXCEPT ![p] = [NoArgs EXCEPT !.letter = letter, !.count = count]]
  /\ UNCHANGED <<module, cookie_buf, indices, tmp, f_pos, history, oops>>

\* copy_from_user(&cookie_buf[write_index], buf, count): when only the first
\* n bytes can be read the rest is zeroed and the call ends with -EFAULT.
Copy(p) ==
  /\ oops = "none" /\ pc[p] = "copy"
  /\ \E n \in 0 .. args[p].count :
       LET copied == write_index .. write_index + n - 1
           zeroed == write_index + n .. write_index + args[p].count - 1
       IN  /\ cookie_buf' = [x \in Cells |-> IF x \in copied THEN args[p].letter
                                             ELSE IF x \in zeroed THEN NUL ELSE cookie_buf[x]]
           /\ oops' = IF copied \cup zeroed \subseteq Cells THEN "none"
                      ELSE "write past the buffer"
           /\ IF n = args[p].count
                THEN Goto(p, "advance") /\ UNCHANGED args
                ELSE Goto(p, "idle") /\ args' = [args EXCEPT ![p] = NoArgs]
  /\ UNCHANGED <<module, indices, tmp, f_pos, history>>

Advance(p) ==
  /\ oops = "none" /\ pc[p] = "advance"
  /\ write_index' = write_index + args[p].count
  /\ Goto(p, "seal")
  /\ UNCHANGED <<module, cookie_buf, read_index, tmp, args, f_pos, history, oops>>

\* cookie_buf[write_index - 1] = 0
SealedAt_next == write_index
SealedAt == write_index - 1

Seal(p) ==
  /\ oops = "none" /\ pc[p] = "seal"
  /\ IF SealedAt \in Cells
       THEN cookie_buf' = [cookie_buf EXCEPT ![SealedAt] = NUL] /\ UNCHANGED oops
       ELSE oops' = "seal outside the buffer" /\ UNCHANGED cookie_buf
  /\ acked' = IF args[p].count > 0 THEN acked + 1 ELSE acked
  /\ Goto(p, "idle") /\ args' = [args EXCEPT ![p] = NoArgs]
  /\ UNCHANGED <<module, indices, tmp, f_pos, out>>

(***************************************************************************)
(* fortune_read().                                                         *)
(***************************************************************************)
Open(p) ==
  /\ oops = "none" /\ proc /\ pc[p] = "idle" /\ f_pos[p]
  /\ f_pos' = [f_pos EXCEPT ![p] = FALSE]
  /\ UNCHANGED <<module, cookie_buf, indices, tmp, pc, args, history, oops>>

\* Circular buffer: start over behind the last cookie.
Rewound_late == IF read_index > write_index THEN 0 ELSE read_index
Rewound == IF read_index >= write_index THEN 0 ELSE read_index

Read(p) ==
  /\ MayCall(p) /\ ~f_pos[p]
  /\ read_index' = Rewound
  /\ pc' = [pc EXCEPT ![p] = IF write_index > 0 THEN "format" ELSE "idle"]
  /\ UNCHANGED <<module, cookie_buf, write_index, tmp, args, f_pos, history, oops>>

Nuls == {x \in Cells : cookie_buf[x] = NUL}
Between(first, last) == [x \in 1 .. last - first + 1 |-> cookie_buf[first + x - 1]]
EndOfText == CHOOSE x \in Nuls : x >= read_index /\ \A y \in Nuls : y >= read_index => x <= y

\* len = sprintf(tmp, "%s\n", &cookie_buf[read_index])
Format(p) ==
  /\ oops = "none" /\ pc[p] = "format"
  /\ IF \E x \in Nuls : x >= read_index
       THEN LET text == Between(read_index, EndOfText - 1)
            IN  /\ tmp' = text
                /\ args' = [args EXCEPT ![p].len = Len(text) + 1]
                /\ oops' = IF Len(text) + 2 > TmpSize THEN "tmp overrun" ELSE "none"
       ELSE oops' = "read past the buffer" /\ UNCHANGED <<tmp, args>>
  /\ Goto(p, "copy_out")
  /\ UNCHANGED <<module, cookie_buf, indices, f_pos, history>>

Advanced_text(p) == read_index + args[p].len - 1
Advanced_nul(p) == read_index + args[p].len + 1
Advanced(p) == read_index + args[p].len

\* copy_to_user(buf, tmp, len) takes tmp as it is by then.
CopyOut(p) ==
  /\ oops = "none" /\ pc[p] = "copy_out"
  /\ out' = SubSeq(tmp, 1, IF args[p].len - 1 < Len(tmp) THEN args[p].len - 1 ELSE Len(tmp))
  /\ read_index' = Advanced(p)
  /\ f_pos' = [f_pos EXCEPT ![p] = TRUE]
  /\ Goto(p, "idle") /\ args' = [args EXCEPT ![p] = NoArgs]
  /\ UNCHANGED <<module, cookie_buf, write_index, tmp, acked, oops>>

Writer(p) ==
  \/ \E letter \in Letters, count \in 0 .. MaxCount : Write(p, letter, count)
  \/ Copy(p) \/ Advance(p) \/ Seal(p)

Reader(p) == Open(p) \/ Read(p) \/ Format(p) \/ CopyOut(p)

Dead == oops # "none" /\ UNCHANGED vars

Next ==
  \/ Vmalloc \/ ProcCreate \/ ResetIndices \/ Remove \/ Dead
  \/ \E p \in Procs : Writer(p) \/ Reader(p)

Spec == Init /\ [][Next]_vars
-----------------------------------------------------------------------------
(***************************************************************************)
(* Properties.                                                             *)
(***************************************************************************)
\* Every variable keeps the type its declaration gives it.
TypeOK ==
  /\ mod \in {"absent", "proc_create", "indices", "live"} /\ proc \in BOOLEAN
  /\ cookie_buf \in [Cells -> Letters \cup {NUL}]
  /\ read_index \in 0 .. COOKIE_BUF_SIZE
  /\ write_index \in 0 .. COOKIE_BUF_SIZE
  /\ tmp \in Seq(Letters)
  /\ pc \in [Procs -> {"idle", "copy", "advance", "seal", "format", "copy_out"}]
  /\ args \in [Procs -> [letter : Letters \cup {NUL}, count : 0 .. MaxCount,
                         len : 0 .. COOKIE_BUF_SIZE + 1]]
  /\ f_pos \in [Procs -> BOOLEAN]
  /\ out \in Seq(Letters) /\ acked \in 0 .. COOKIE_BUF_SIZE

\* With one call at a time the module dies only of three things: a write of
\* one byte more than there is room for, an empty write before any other,
\* and a cookie longer than tmp.  A read always finds the end of a cookie.
DiesOnlyAtTheEdges ==
  [][oops' # "none" /\ oops = "none" =>
       \E p \in Procs :
         \/ pc[p] = "copy" /\ args[p].count = COOKIE_BUF_SIZE - write_index + 1
         \/ pc[p] = "seal" /\ args[p].count = 0 /\ write_index = 0
         \/ pc[p] = "format" /\ args'[p].len + 1 > TmpSize]_vars

\* Between calls each index is at the start of a cookie or behind the last.
IndicesAtBounds ==
  Idle /\ oops = "none" =>
    /\ write_index = 0 \/ cookie_buf[write_index - 1] = NUL
    /\ read_index = 0 \/ cookie_buf[read_index - 1] = NUL
    /\ read_index <= write_index

WrittenNuls == {x \in Nuls : x < write_index}
Place(S, x) == Cardinality({y \in S : y <= x})
InOrder(S) == [k \in 1 .. Cardinality(S) |-> CHOOSE x \in S : Place(S, x) = k]
Ends == InOrder(WrittenNuls)
Cookies == [k \in 1 .. Len(Ends) |->
              Between(IF k = 1 THEN 0 ELSE Ends[k - 1] + 1, Ends[k] - 1)]

\* When a write has returned its count everything is written (fortune.c:65):
\* the buffer holds a cookie for each write that was acknowledged.
AcknowledgedCookiesKept == Idle /\ oops = "none" => Len(Cookies) >= acked

(***************************************************************************)
(* With one call at a time the module is a ring of cookies: FortuneRing.   *)
(***************************************************************************)
Ring == INSTANCE FortuneRing
          WITH Texts <- UNION {[1 .. n -> Letters] : n \in 0 .. MaxCount},
               cookies <- Cookies,
               pos <- Cardinality({x \in Nuls : x < read_index}) + 1,
               up <- mod = "live"
\* Cookies come back whole and in turn, unless the kernel dies.
ImplementsRing == Ring!Spec
=============================================================================
