---------------------------- MODULE FortuneProofs ----------------------------
(***************************************************************************)
(* What TLAPS proves of Fortune for a page and cookies of any size and any *)
(* number of processes that make one call at a time: the indices stay at   *)
(* the bounds of cookies, the module dies only at the three edges, and it  *)
(* is a ring of the cookies that were written (FortuneRing).               *)
(***************************************************************************)
EXTENDS Fortune, SequenceTheorems, FiniteSetTheorems, WellFoundedInduction, TLAPS

-----------------------------------------------------------------------------
(***************************************************************************)
(* Where a text ends.                                                      *)
(***************************************************************************)
\* Numbers, if there are any, have a least one: the ranges that end at them
\* have a smallest one.
LEMMA FirstExists ==
  ASSUME NEW S \in SUBSET Nat, S # {}
  PROVE  \E first \in S : \A x \in S : first <= x
<1> DEFINE Ranges == {0 .. x : x \in S}
<1>1. ASSUME NEW x \in S PROVE 0 .. x \in FiniteSubsetsOf(Nat)
  <2>1. 0 \in Int /\ x \in Int
    OBVIOUS
  <2> QED BY <2>1, FS_Interval DEF FiniteSubsetsOf
<1>2. Ranges \subseteq FiniteSubsetsOf(Nat) /\ Ranges # {}
  BY <1>1
<1>3. PICK least \in Ranges :
        \A r \in Ranges : <<r, least>> \notin StrictSubsetOrdering(Nat)
  BY <1>2, FS_StrictSubsetOrderingWellFounded, WFMin
<1>4. PICK first \in S : least = 0 .. first
  BY <1>3
<1>5. ASSUME NEW x \in S PROVE first <= x
  <2>1. SUFFICES ASSUME x < first PROVE FALSE
    OBVIOUS
  <2>2. <<0 .. x, 0 .. first>> \notin StrictSubsetOrdering(Nat)
    BY <1>3, <1>4
  <2>3. 0 .. x \subseteq 0 .. first /\ first \in 0 .. first /\ first \notin 0 .. x
    BY <2>1
  <2> QED BY <2>2, <2>3 DEF StrictSubsetOrdering
<1>6. QED BY <1>5

\* A text that starts in front of a NUL is that far as long at the most, and
\* nothing in it is a NUL: it ends at the first one.
LEMMA TextEnds ==
  ASSUME TypeOK, NEW last \in Nuls, last >= read_index
  PROVE  LET text == Between(read_index, EndOfText - 1)
         IN  /\ EndOfText \in Nuls /\ read_index <= EndOfText /\ EndOfText <= last
             /\ \A x \in Nuls : x >= read_index => EndOfText <= x
             /\ text \in Seq(Letters)
             /\ Len(text) = EndOfText - read_index
<1> USE SizesAssumption
<1> DEFINE Candidates == {x \in Nuls : x >= read_index}
<1>1. Nuls \in SUBSET Nat /\ last \in Candidates /\ read_index \in Nat
  BY DEF Nuls, Cells, TypeOK
<1>2. PICK first \in Candidates : \A x \in Candidates : first <= x
  BY <1>1, FirstExists
<1>3. /\ EndOfText \in Nuls /\ EndOfText >= read_index
      /\ \A y \in Nuls : y >= read_index => EndOfText <= y
  BY <1>2 DEF EndOfText
<1> DEFINE end == EndOfText
<1>4. end \in Nat /\ end \in Cells /\ read_index <= end /\ end <= last
  BY <1>1, <1>3 DEF Nuls
<1> HIDE DEF end
<1>5. \A x \in 1 .. end - read_index : cookie_buf[read_index + x - 1] \in Letters
  <2>1. ASSUME NEW x \in 1 .. end - read_index
        PROVE  cookie_buf[read_index + x - 1] \in Letters
    <3>1. read_index + x - 1 \in Cells /\ read_index + x - 1 >= read_index
          /\ read_index + x - 1 < end
      BY <1>1, <1>4 DEF Cells
    <3>2. read_index + x - 1 \notin Nuls
      BY <1>1, <1>3, <1>4, <3>1 DEF end
    <3> QED BY <3>1, <3>2 DEF Nuls, TypeOK
  <2> QED BY <2>1
<1>6. Between(read_index, end - 1) = [x \in 1 .. end - read_index |-> cookie_buf[read_index + x - 1]]
  BY <1>1, <1>4 DEF Between
<1>7. end - read_index \in Nat
  BY <1>1, <1>4
<1>8. Between(read_index, end - 1) \in Seq(Letters)
  BY <1>5, <1>6, <1>7, IsASeq
<1>9. Len(Between(read_index, end - 1)) = end - read_index
  BY <1>6, <1>7
<1>10. QED BY <1>3, <1>4, <1>8, <1>9 DEF end

-----------------------------------------------------------------------------
(***************************************************************************)
(* The invariant.  While the kernel lives there is room for what a writer  *)
(* brings, the last cookie is ended unless a writer is about to end it,    *)
(* and a reader is in front of the end of a cookie.                        *)
(***************************************************************************)
Turns ==
  /\ \A p, q \in Procs : pc[p] # "idle" /\ pc[q] # "idle" => p = q
  /\ mod # "live" => Idle

WritersFit ==
  \A p \in Procs :
    /\ pc[p] = "copy" => args[p].count <= COOKIE_BUF_SIZE - write_index + 1
    /\ pc[p] = "advance" => write_index + args[p].count <= COOKIE_BUF_SIZE
    /\ pc[p] = "seal" => acked <= write_index - args[p].count

ReadersStop ==
  \A p \in Procs :
    /\ pc[p] = "format" => read_index < write_index
    /\ pc[p] = "copy_out" =>
         /\ args[p].len >= 1 /\ read_index + args[p].len <= write_index
         /\ cookie_buf[read_index + args[p].len - 1] = NUL

CookiesEnd ==
  /\ (\A p \in Procs : pc[p] # "seal") => write_index = 0 \/ cookie_buf[write_index - 1] = NUL
  /\ read_index = 0 \/ cookie_buf[read_index - 1] = NUL
  /\ read_index <= write_index /\ acked <= write_index

TurnInv ==
  /\ TypeOK /\ Turns
  /\ oops = "none" => WritersFit /\ ReadersStop /\ CookiesEnd

\* While one process is in a call the others are in none, before and after
\* the next step of that process.
LEMMA OneCall ==
  ASSUME TypeOK, Turns, NEW p \in Procs, pc[p] # "idle" \/ Idle,
         NEW step \in {"idle", "copy", "advance", "seal", "format", "copy_out"},
         pc' = [pc EXCEPT ![p] = step], mod' = mod, step = "idle" \/ mod = "live"
  PROVE  /\ Turns' /\ pc'[p] = step
         /\ pc' \in [Procs -> {"idle", "copy", "advance", "seal", "format", "copy_out"}]
         /\ \A q \in Procs \ {p} : pc[q] = "idle" /\ pc'[q] = "idle"
<1>1. \A q \in Procs \ {p} : pc[q] = "idle"
  BY DEF Turns, Idle
<1>2. pc'[p] = step /\ \A q \in Procs \ {p} : pc'[q] = pc[q]
  BY DEF TypeOK
<1>3. Turns'
  BY <1>1, <1>2 DEF Turns, Idle
<1>4. QED BY <1>1, <1>2, <1>3 DEF TypeOK

\* The arguments of a call are within their bounds.
Args == [letter : Letters \cup {NUL}, count : 0 .. MaxCount, len : 0 .. COOKIE_BUF_SIZE + 1]

LEMMA NoArgsType == NoArgs \in Args /\ NoArgs.count = 0 /\ NoArgs.len = 0
  BY SizesAssumption DEF NoArgs, Args

-----------------------------------------------------------------------------
(***************************************************************************)
(* The module comes and goes when no call is in it.                        *)
(***************************************************************************)
LEMMA ModuleKeepsTurns ==
  ASSUME TurnInv, Vmalloc \/ ProcCreate \/ ResetIndices \/ Remove
  PROVE  TurnInv'
<1> USE SizesAssumption DEF TurnInv
<1>1. oops = "none" /\ Idle /\ UNCHANGED <<pc, args, tmp, oops>>
  BY DEF Vmalloc, ProcCreate, ResetIndices, Remove, At, Turns, calls, history
<1>2. Idle' /\ Turns'
  BY <1>1 DEF Idle, Turns
<1>3. ASSUME read_index' = 0, write_index' = 0, acked' = 0,
             cookie_buf' = Zeroed \/ cookie_buf' = cookie_buf,
             out' = <<>> \/ out' = out,
             f_pos' = f_pos \/ f_pos' = [p \in Procs |-> FALSE],
             mod' \in {"absent", "proc_create", "indices", "live"}, proc' \in BOOLEAN
      PROVE  TurnInv'
  <2>1. out' \in Seq(Letters)
    <3>1. <<>> \in Seq(Letters) /\ out \in Seq(Letters)
      BY DEF TypeOK
    <3> QED BY <1>3, <3>1
  <2>2. cookie_buf' \in [Cells -> Letters \cup {NUL}]
    BY <1>3 DEF TypeOK, Zeroed
  <2>3. f_pos' \in [Procs -> BOOLEAN]
    BY <1>3 DEF TypeOK
  <2>4. 0 \in 0 .. COOKIE_BUF_SIZE
    OBVIOUS
  <2>5. TypeOK'
    BY <1>1, <1>3, <2>1, <2>2, <2>3, <2>4 DEF TypeOK, Cells
  <2>6. CookiesEnd'
    BY <1>3 DEF CookiesEnd
  <2>7. WritersFit' /\ ReadersStop'
    BY <1>2 DEF WritersFit, ReadersStop, Idle
  <2> QED BY <1>2, <2>5, <2>6, <2>7
<1>4. CASE Vmalloc
  BY <1>3, <1>4 DEF Vmalloc, TypeOK, calls
<1>5. CASE ProcCreate
  <2>1. /\ UNCHANGED <<cookie_buf, read_index, write_index, f_pos, out, acked>>
        /\ mod' \in {"indices", "absent"} /\ proc' \in BOOLEAN
    BY <1>5 DEF ProcCreate, indices, calls, history
  <2>2. TypeOK'
    BY <1>1, <2>1 DEF TypeOK, Cells
  <2>3. CookiesEnd' /\ WritersFit' /\ ReadersStop'
    BY <1>1, <1>2, <2>1 DEF CookiesEnd, WritersFit, ReadersStop, Idle
  <2> QED BY <1>2, <2>2, <2>3
<1>6. CASE ResetIndices
  BY <1>3, <1>6 DEF ResetIndices, TypeOK, calls
<1>7. CASE Remove
  BY <1>3, <1>7 DEF Remove
<1>8. QED BY <1>4, <1>5, <1>6, <1>7

-----------------------------------------------------------------------------
(***************************************************************************)
(* A write.                                                                *)
(***************************************************************************)
LEMMA WriteKeepsTurns ==
  ASSUME Exclusive, TurnInv, NEW p \in Procs, NEW letter \in Letters,
         NEW count \in 0 .. MaxCount, Write(p, letter, count)
  PROVE  TurnInv'
<1> USE SizesAssumption DEF TurnInv
<1>1. /\ oops = "none" /\ Idle /\ mod = "live"
      /\ UNCHANGED <<mod, proc, cookie_buf, read_index, write_index, tmp, f_pos, out, acked, oops>>
  BY DEF Write, MayCall, module, indices, history
<1>2. CASE BufferFull(count)
  <2>1. UNCHANGED <<pc, args>>
    BY <1>2 DEF Write
  <2> QED BY <1>1, <2>1 DEF TypeOK, Turns, Idle, WritersFit, ReadersStop, CookiesEnd, Cells
<1>3. CASE ~BufferFull(count)
  <2>1. /\ pc' = [pc EXCEPT ![p] = "copy"]
        /\ args' = [args EXCEPT ![p] = [NoArgs EXCEPT !.letter = letter, !.count = count]]
    BY <1>3 DEF Write, Goto
  <2>2. /\ Turns' /\ pc'[p] = "copy"
        /\ pc' \in [Procs -> {"idle", "copy", "advance", "seal", "format", "copy_out"}]
        /\ \A q \in Procs \ {p} : pc'[q] = "idle"
    BY <1>1, <2>1, OneCall
  <2>3. args' \in [Procs -> Args] /\ args'[p].count = count
    BY <2>1, NoArgsType DEF TypeOK, Args
  <2>4. TypeOK'
    BY <1>1, <2>2, <2>3 DEF TypeOK, Args, Cells
  <2>5. count <= COOKIE_BUF_SIZE - write_index + 1
    BY <1>3 DEF BufferFull, TypeOK
  <2>6. WritersFit' /\ ReadersStop'
    BY <1>1, <2>2, <2>3, <2>5 DEF WritersFit, ReadersStop
  <2>7. CookiesEnd'
    BY <1>1 DEF CookiesEnd, Idle
  <2> QED BY <2>2, <2>4, <2>6, <2>7
<1>4. QED BY <1>2, <1>3

\* A copy stays in front of the cells that hold cookies.
LEMMA CopyKeepsTurns ==
  ASSUME TurnInv, NEW p \in Procs, Copy(p)
  PROVE  /\ TurnInv'
         /\ oops' # "none" => args[p].count = COOKIE_BUF_SIZE - write_index + 1
<1> USE SizesAssumption DEF TurnInv
<1>1. /\ oops = "none" /\ pc[p] = "copy" /\ mod = "live"
      /\ UNCHANGED <<mod, proc, read_index, write_index, tmp, f_pos, out, acked>>
  BY DEF Copy, module, indices, history, Turns, Idle
<1> DEFINE count == args[p].count
<1>2. count \in 0 .. MaxCount /\ count <= COOKIE_BUF_SIZE - write_index + 1
      /\ args[p].letter \in Letters \cup {NUL} /\ write_index \in 0 .. COOKIE_BUF_SIZE
  BY <1>1 DEF TypeOK, WritersFit
<1>3. PICK n \in 0 .. count :
        LET copied == write_index .. write_index + n - 1
            zeroed == write_index + n .. write_index + count - 1
        IN  /\ cookie_buf' = [x \in Cells |-> IF x \in copied THEN args[p].letter
                                              ELSE IF x \in zeroed THEN NUL ELSE cookie_buf[x]]
            /\ oops' = IF copied \cup zeroed \subseteq Cells THEN "none"
                       ELSE "write past the buffer"
            /\ IF n = count
                 THEN Goto(p, "advance") /\ UNCHANGED args
                 ELSE Goto(p, "idle") /\ args' = [args EXCEPT ![p] = NoArgs]
  BY DEF Copy
<1>4. cookie_buf' \in [Cells -> Letters \cup {NUL}]
  BY <1>2, <1>3 DEF TypeOK
<1>5. \A x \in Cells : x < write_index => cookie_buf'[x] = cookie_buf[x]
  <2>1. ASSUME NEW x \in Cells, x < write_index PROVE cookie_buf'[x] = cookie_buf[x]
    <3>1. /\ x \notin write_index .. write_index + n - 1
          /\ x \notin write_index + n .. write_index + count - 1
      BY <1>2, <2>1 DEF Cells
    <3> QED BY <1>3, <3>1
  <2> QED BY <2>1
<1>6. PICK step \in {"advance", "idle"} : pc' = [pc EXCEPT ![p] = step]
  BY <1>3 DEF Goto
<1>7. /\ Turns' /\ pc'[p] = step
      /\ pc' \in [Procs -> {"idle", "copy", "advance", "seal", "format", "copy_out"}]
      /\ \A q \in Procs \ {p} : pc[q] = "idle" /\ pc'[q] = "idle"
  BY <1>1, <1>6, OneCall
<1>8. args' \in [Procs -> Args]
  BY <1>3, NoArgsType DEF TypeOK, Args
<1>9. TypeOK'
  BY <1>1, <1>4, <1>7, <1>8 DEF TypeOK, Args, Cells
<1>10. oops' = "none" /\ step = "advance" => write_index' + args'[p].count <= COOKIE_BUF_SIZE
  <2> SUFFICES ASSUME oops' = "none", step = "advance"
               PROVE  write_index + args'[p].count <= COOKIE_BUF_SIZE
    BY <1>1
  <2>1. n = count /\ args' = args
    BY <1>3, <1>6, <1>7 DEF Goto, TypeOK
  <2>2. write_index .. write_index + count - 1 \subseteq Cells
    BY <1>3, <2>1
  <2>3. count = 0 \/ write_index + count - 1 \in write_index .. write_index + count - 1
    BY <1>2
  <2>4. count = 0 \/ write_index + count - 1 \in Cells
    BY <2>2, <2>3
  <2> QED BY <1>2, <2>1, <2>4 DEF Cells
<1>11. oops' = "none" => WritersFit' /\ ReadersStop'
  BY <1>7, <1>10 DEF WritersFit, ReadersStop
<1>12. CookiesEnd'
  <2>1. /\ write_index = 0 \/ cookie_buf[write_index - 1] = NUL
        /\ read_index = 0 \/ cookie_buf[read_index - 1] = NUL
        /\ read_index <= write_index /\ acked <= write_index
    BY <1>1, <1>7 DEF CookiesEnd
  <2>2. read_index \in 0 .. COOKIE_BUF_SIZE
    BY DEF TypeOK
  <2>3. write_index = 0 \/ write_index - 1 \in Cells
    BY <1>2 DEF Cells
  <2>4. read_index = 0 \/ read_index - 1 \in Cells
    BY <2>2 DEF Cells
  <2> QED BY <1>1, <1>2, <1>5, <2>1, <2>2, <2>3, <2>4 DEF CookiesEnd
<1>13. oops' # "none" => count = COOKIE_BUF_SIZE - write_index + 1
  <2> SUFFICES ASSUME count # COOKIE_BUF_SIZE - write_index + 1 PROVE oops' = "none"
    OBVIOUS
  <2>1. write_index + count <= COOKIE_BUF_SIZE
    BY <1>2
  <2>2. /\ write_index .. write_index + n - 1 \subseteq Cells
        /\ write_index + n .. write_index + count - 1 \subseteq Cells
    BY <1>2, <2>1 DEF Cells
  <2> QED BY <1>3, <2>2
<1>14. QED BY <1>7, <1>9, <1>11, <1>12, <1>13

LEMMA AdvanceKeepsTurns ==
  ASSUME TurnInv, NEW p \in Procs, Advance(p)
  PROVE  TurnInv'
<1> USE SizesAssumption DEF TurnInv
<1>1. /\ oops = "none" /\ pc[p] = "advance" /\ mod = "live"
      /\ UNCHANGED <<mod, proc, cookie_buf, read_index, tmp, args, f_pos, out, acked, oops>>
      /\ pc' = [pc EXCEPT ![p] = "seal"] /\ write_index' = write_index + args[p].count
  BY DEF Advance, Goto, module, history, Turns, Idle
<1>2. /\ Turns' /\ pc'[p] = "seal"
      /\ pc' \in [Procs -> {"idle", "copy", "advance", "seal", "format", "copy_out"}]
      /\ \A q \in Procs \ {p} : pc[q] = "idle" /\ pc'[q] = "idle"
  BY <1>1, OneCall
<1>3. /\ args[p].count \in Nat /\ write_index \in Nat /\ read_index \in Nat /\ acked \in Nat
      /\ write_index' <= COOKIE_BUF_SIZE
  BY <1>1 DEF TypeOK, WritersFit
<1>4. TypeOK'
  BY <1>1, <1>2, <1>3 DEF TypeOK, Cells
<1>5. read_index <= write_index /\ acked <= write_index
      /\ (read_index = 0 \/ cookie_buf[read_index - 1] = NUL)
  BY <1>1 DEF CookiesEnd
<1>6. CookiesEnd'
  BY <1>1, <1>2, <1>3, <1>5 DEF CookiesEnd
<1>7. WritersFit' /\ ReadersStop'
  BY <1>1, <1>2, <1>3, <1>5 DEF WritersFit, ReadersStop
<1>8. QED BY <1>1, <1>2, <1>4, <1>6, <1>7

LEMMA SealKeepsTurns ==
  ASSUME TurnInv, NEW p \in Procs, Seal(p)
  PROVE  TurnInv' /\ (oops' # "none" => args[p].count = 0 /\ write_index = 0)
<1> USE SizesAssumption DEF TurnInv
<1>1. /\ oops = "none" /\ pc[p] = "seal" /\ mod = "live"
      /\ UNCHANGED <<mod, proc, read_index, write_index, tmp, f_pos, out>>
      /\ pc' = [pc EXCEPT ![p] = "idle"] /\ args' = [args EXCEPT ![p] = NoArgs]
      /\ acked' = IF args[p].count > 0 THEN acked + 1 ELSE acked
  BY DEF Seal, Goto, module, indices, Turns, Idle
<1>2. /\ Turns' /\ pc'[p] = "idle"
      /\ pc' \in [Procs -> {"idle", "copy", "advance", "seal", "format", "copy_out"}]
      /\ \A q \in Procs \ {p} : pc[q] = "idle" /\ pc'[q] = "idle"
  BY <1>1, OneCall
<1>3. /\ args[p].count \in Nat /\ write_index \in 0 .. COOKIE_BUF_SIZE
      /\ read_index \in 0 .. COOKIE_BUF_SIZE /\ acked \in Nat
      /\ acked <= write_index - args[p].count
  BY <1>1 DEF TypeOK, WritersFit
<1>4. acked' \in 0 .. COOKIE_BUF_SIZE /\ acked' <= write_index
  BY <1>1, <1>3
<1>5. args' \in [Procs -> Args]
  BY <1>1, NoArgsType DEF TypeOK, Args
<1>6. CASE write_index = 0
  <2>1. args[p].count = 0
    BY <1>3, <1>6
  <2>2. write_index - 1 \notin Cells
    BY <1>6 DEF Cells
  <2>3. oops' # "none" /\ cookie_buf' = cookie_buf
    BY <2>2 DEF Seal, SealedAt
  <2>4. TypeOK'
    BY <1>1, <1>2, <1>4, <1>5, <2>3 DEF TypeOK, Args, Cells
  <2> QED BY <1>2, <1>6, <2>1, <2>3, <2>4
<1>7. CASE write_index # 0
  <2>1. write_index - 1 \in Cells
    BY <1>3, <1>7 DEF Cells
  <2>2. oops' = oops /\ cookie_buf' = [cookie_buf EXCEPT ![write_index - 1] = NUL]
    BY <2>1 DEF Seal, SealedAt
  <2>3. TypeOK'
    BY <1>1, <1>2, <1>4, <1>5, <2>2 DEF TypeOK, Args, Cells
  <2>4. cookie_buf'[write_index - 1] = NUL
    BY <2>1, <2>2 DEF TypeOK
  <2>5. read_index = 0 \/ cookie_buf'[read_index - 1] = NUL
    <3>1. read_index = 0 \/ (read_index - 1 \in Cells /\ cookie_buf[read_index - 1] = NUL)
      BY <1>1, <1>3 DEF CookiesEnd, Cells
    <3> QED BY <2>2, <3>1 DEF TypeOK
  <2>6. CookiesEnd'
    BY <1>1, <1>4, <2>4, <2>5 DEF CookiesEnd
  <2>7. WritersFit' /\ ReadersStop'
    BY <1>2 DEF WritersFit, ReadersStop
  <2> QED BY <1>1, <1>2, <2>2, <2>3, <2>6, <2>7
<1>8. QED BY <1>6, <1>7

-----------------------------------------------------------------------------
(***************************************************************************)
(* A read.                                                                 *)
(***************************************************************************)
LEMMA ReadKeepsTurns ==
  ASSUME Exclusive, TurnInv, NEW p \in Procs, Read(p)
  PROVE  TurnInv'
<1> USE SizesAssumption DEF TurnInv
<1>1. /\ oops = "none" /\ Idle /\ mod = "live" /\ read_index' = Rewound
      /\ UNCHANGED <<mod, proc, cookie_buf, write_index, tmp, args, f_pos, out, acked, oops>>
  BY DEF Read, MayCall, module, history
<1>2. PICK step \in {"format", "idle"} :
        /\ pc' = [pc EXCEPT ![p] = step]
        /\ step = "format" => write_index > 0
  BY DEF Read
<1>3. /\ Turns' /\ pc'[p] = step
      /\ pc' \in [Procs -> {"idle", "copy", "advance", "seal", "format", "copy_out"}]
      /\ \A q \in Procs \ {p} : pc[q] = "idle" /\ pc'[q] = "idle"
  BY <1>1, <1>2, OneCall
<1>4. /\ read_index \in 0 .. COOKIE_BUF_SIZE /\ write_index \in 0 .. COOKIE_BUF_SIZE
      /\ (write_index = 0 \/ cookie_buf[write_index - 1] = NUL)
      /\ (read_index = 0 \/ cookie_buf[read_index - 1] = NUL)
      /\ acked <= write_index
  BY <1>1 DEF TypeOK, CookiesEnd, Idle
<1>5. /\ read_index' = 0 \/ read_index' = read_index
      /\ read_index' <= write_index
      /\ write_index > 0 => read_index' < write_index
  BY <1>1, <1>4 DEF Rewound
<1>6. TypeOK'
  BY <1>1, <1>3, <1>4, <1>5 DEF TypeOK, Cells
<1>7. CookiesEnd'
  BY <1>1, <1>4, <1>5 DEF CookiesEnd
<1>8. WritersFit' /\ ReadersStop'
  BY <1>1, <1>2, <1>3, <1>5 DEF WritersFit, ReadersStop
<1>9. QED BY <1>3, <1>6, <1>7, <1>8

LEMMA FormatKeepsTurns ==
  ASSUME TurnInv, NEW p \in Procs, Format(p)
  PROVE  TurnInv' /\ (oops' # "none" => args'[p].len + 1 > TmpSize)
<1> USE SizesAssumption DEF TurnInv
<1>1. /\ oops = "none" /\ pc[p] = "format" /\ mod = "live"
      /\ UNCHANGED <<mod, proc, cookie_buf, read_index, write_index, f_pos, out, acked>>
      /\ pc' = [pc EXCEPT ![p] = "copy_out"]
  BY DEF Format, Goto, module, indices, history, Turns, Idle
<1>2. /\ Turns' /\ pc'[p] = "copy_out"
      /\ pc' \in [Procs -> {"idle", "copy", "advance", "seal", "format", "copy_out"}]
      /\ \A q \in Procs \ {p} : pc[q] = "idle" /\ pc'[q] = "idle"
  BY <1>1, OneCall
<1>3. /\ read_index \in 0 .. COOKIE_BUF_SIZE /\ write_index \in 0 .. COOKIE_BUF_SIZE
      /\ read_index < write_index
  BY <1>1 DEF TypeOK, ReadersStop
<1>4. write_index - 1 \in Nuls /\ write_index - 1 >= read_index
  <2>1. write_index = 0 \/ cookie_buf[write_index - 1] = NUL
    BY <1>1, <1>2 DEF CookiesEnd
  <2> QED BY <1>3, <2>1 DEF Nuls, Cells
<1> DEFINE text == Between(read_index, EndOfText - 1)
<1>5. /\ EndOfText \in Nuls /\ read_index <= EndOfText /\ EndOfText <= write_index - 1
      /\ text \in Seq(Letters) /\ Len(text) = EndOfText - read_index
  BY <1>4, TextEnds
<1>6. /\ tmp' = text /\ args' = [args EXCEPT ![p].len = Len(text) + 1]
      /\ oops' = IF Len(text) + 2 > TmpSize THEN "tmp overrun" ELSE "none"
  BY <1>4 DEF Format
<1> DEFINE len == EndOfText - read_index
<1>7. EndOfText \in 0 .. COOKIE_BUF_SIZE - 1 /\ cookie_buf[EndOfText] = NUL
  BY <1>5 DEF Nuls, Cells
<1>8. len \in 0 .. COOKIE_BUF_SIZE /\ read_index + (len + 1) <= write_index
      /\ read_index + (len + 1) - 1 = EndOfText
  BY <1>3, <1>5, <1>7
<1> HIDE DEF text
<1>9. args' = [args EXCEPT ![p].len = len + 1]
  BY <1>5, <1>6
<1> HIDE DEF len
<1>10. args'[p].len = len + 1 /\ args' \in [Procs -> Args]
  <2>1. args \in [Procs -> Args] /\ args[p] \in Args
    BY DEF TypeOK, Args
  <2>2. [args[p] EXCEPT !.len = len + 1] \in Args
    BY <1>8, <2>1 DEF Args
  <2>3. args' = [args EXCEPT ![p] = [args[p] EXCEPT !.len = len + 1]]
    BY <1>9, <2>1
  <2>4. [args[p] EXCEPT !.len = len + 1].len = len + 1
    BY <2>1 DEF Args
  <2> QED BY <2>1, <2>2, <2>3, <2>4
<1>11. TypeOK'
  BY <1>1, <1>2, <1>5, <1>6, <1>10 DEF TypeOK, Args, Cells
<1>12. CookiesEnd'
  <2>1. \A q \in Procs : pc[q] # "seal"
    BY <1>1, <1>2
  <2> QED BY <1>1, <2>1 DEF CookiesEnd
<1>13. WritersFit' /\ ReadersStop'
  BY <1>1, <1>2, <1>7, <1>8, <1>10 DEF WritersFit, ReadersStop
<1>14. oops' # "none" => args'[p].len + 1 > TmpSize
  <2>1. oops' # "none" => len + 2 > TmpSize
    BY <1>5, <1>6 DEF len
  <2>2. args'[p].len + 1 = len + 2
    BY <1>8, <1>10
  <2> QED BY <2>1, <2>2
<1>15. QED BY <1>2, <1>11, <1>12, <1>13, <1>14

LEMMA CopyOutKeepsTurns ==
  ASSUME TurnInv, NEW p \in Procs, CopyOut(p)
  PROVE  TurnInv'
<1> USE SizesAssumption DEF TurnInv
<1>1. /\ oops = "none" /\ pc[p] = "copy_out" /\ mod = "live"
      /\ UNCHANGED <<mod, proc, cookie_buf, write_index, tmp, acked, oops>>
      /\ pc' = [pc EXCEPT ![p] = "idle"] /\ args' = [args EXCEPT ![p] = NoArgs]
      /\ f_pos' = [f_pos EXCEPT ![p] = TRUE]
      /\ read_index' = read_index + args[p].len
  BY DEF CopyOut, Goto, Advanced, module, Turns, Idle
<1>2. /\ Turns' /\ pc'[p] = "idle"
      /\ pc' \in [Procs -> {"idle", "copy", "advance", "seal", "format", "copy_out"}]
      /\ \A q \in Procs \ {p} : pc[q] = "idle" /\ pc'[q] = "idle"
  BY <1>1, OneCall
<1>3. /\ args[p].len \in Nat /\ read_index \in Nat /\ write_index \in 0 .. COOKIE_BUF_SIZE
      /\ args[p].len >= 1 /\ read_index + args[p].len <= write_index
      /\ cookie_buf[read_index + args[p].len - 1] = NUL
  BY <1>1 DEF TypeOK, ReadersStop
<1>4. read_index' \in 0 .. COOKIE_BUF_SIZE /\ read_index' <= write_index
      /\ cookie_buf[read_index' - 1] = NUL
  BY <1>1, <1>3
<1>5. out' \in Seq(Letters)
  <2> DEFINE n == IF args[p].len - 1 < Len(tmp) THEN args[p].len - 1 ELSE Len(tmp)
  <2>1. tmp \in Seq(Letters) /\ n \in 0 .. Len(tmp)
    BY <1>3, LenProperties DEF TypeOK
  <2>2. SubSeq(tmp, 1, n) \in Seq(Letters)
    BY <2>1, SubSeqProperties
  <2> QED BY <2>2 DEF CopyOut
<1>6. args' \in [Procs -> Args] /\ f_pos' \in [Procs -> BOOLEAN]
  BY <1>1, NoArgsType DEF TypeOK, Args
<1>7. TypeOK'
  BY <1>1, <1>2, <1>4, <1>5, <1>6 DEF TypeOK, Args, Cells
<1>8. CookiesEnd'
  <2>1. \A q \in Procs : pc[q] # "seal"
    BY <1>1, <1>2
  <2> QED BY <1>1, <1>4, <2>1 DEF CookiesEnd
<1>9. WritersFit' /\ ReadersStop'
  BY <1>2 DEF WritersFit, ReadersStop
<1>10. QED BY <1>2, <1>7, <1>8, <1>9

-----------------------------------------------------------------------------
(***************************************************************************)
(* The theorems.                                                           *)
(***************************************************************************)
LEMMA StepKeepsTurns ==
  ASSUME Exclusive, TurnInv, [Next]_vars
  PROVE  TurnInv'
<1>1. ASSUME NEW p \in Procs, Open(p) PROVE TurnInv'
  <2>1. /\ f_pos' = [f_pos EXCEPT ![p] = FALSE]
        /\ UNCHANGED <<mod, proc, cookie_buf, read_index, write_index, tmp, pc, args, out, acked, oops>>
    BY <1>1 DEF Open, module, indices, history
  <2>2. TypeOK'
    BY <2>1 DEF TurnInv, TypeOK, Cells
  <2>3. Turns' /\ (WritersFit /\ ReadersStop /\ CookiesEnd => WritersFit' /\ ReadersStop' /\ CookiesEnd')
    BY <2>1 DEF TurnInv, Turns, Idle, WritersFit, ReadersStop, CookiesEnd
  <2> QED BY <2>1, <2>2, <2>3 DEF TurnInv
<1>2. ASSUME UNCHANGED vars PROVE TurnInv'
  BY <1>2 DEF vars, module, indices, calls, history, TurnInv, TypeOK, Turns, Idle, Cells,
     WritersFit, ReadersStop, CookiesEnd
<1>3. QED
  BY <1>1, <1>2, ModuleKeepsTurns, WriteKeepsTurns, CopyKeepsTurns, AdvanceKeepsTurns,
     SealKeepsTurns, ReadKeepsTurns, FormatKeepsTurns, CopyOutKeepsTurns
     DEF Next, Writer, Reader, Dead

\* With one call at a time there is always room for what is copied and a NUL
\* in front of the place a read starts from would go too far.
THEOREM TurnInvCorrect == Exclusive /\ Spec => []TurnInv
<1> SUFFICES ASSUME Exclusive PROVE Spec => []TurnInv
  OBVIOUS
<1>1. Init => TurnInv
  <2> SUFFICES ASSUME Init PROVE TurnInv
    OBVIOUS
  <2>1. Zeroed \in [Cells -> Letters \cup {NUL}] /\ 0 \in 0 .. COOKIE_BUF_SIZE
    BY SizesAssumption DEF Zeroed
  <2>2. <<>> \in Seq(Letters)
    OBVIOUS
  <2>3. pc = [p \in Procs |-> "idle"] /\ args = [p \in Procs |-> NoArgs]
        /\ f_pos = [p \in Procs |-> FALSE]
    BY DEF Init
  <2>4. TypeOK
    BY <2>1, <2>2, <2>3, NoArgsType DEF Init, TypeOK, Args
  <2>5. Turns /\ WritersFit /\ ReadersStop
    BY <2>3 DEF Turns, Idle, WritersFit, ReadersStop
  <2>6. CookiesEnd
    BY DEF Init, CookiesEnd
  <2> QED BY <2>4, <2>5, <2>6 DEF TurnInv
<1>2. TurnInv /\ [Next]_vars => TurnInv'
  BY StepKeepsTurns
<1>3. QED BY <1>1, <1>2, PTL DEF Spec

\* The variables keep their types, the indices stay in the page.
THEOREM TypeCorrect == Exclusive /\ Spec => []TypeOK
<1>1. TurnInv => TypeOK
  BY DEF TurnInv
<1>2. QED BY <1>1, TurnInvCorrect, PTL

\* Between calls each index is at the start of a cookie or behind the last
\* (fortune.c:72-73, 87-88, 102).
THEOREM IndicesAtBoundsCorrect == Exclusive /\ Spec => []IndicesAtBounds
<1>1. TurnInv => IndicesAtBounds
  BY DEF TurnInv, IndicesAtBounds, CookiesEnd, Idle
<1>2. QED BY <1>1, TurnInvCorrect, PTL

\* The module dies only of a write of one byte too many (fortune.c:57), an
\* empty write before any other (:73) and a cookie longer than tmp (:94).
THEOREM DiesOnlyAtTheEdgesCorrect == Exclusive /\ Spec => DiesOnlyAtTheEdges
<1> SUFFICES ASSUME Exclusive PROVE Spec => DiesOnlyAtTheEdges
  OBVIOUS
<1> DEFINE Edge(p) ==
         \/ pc[p] = "copy" /\ args[p].count = COOKIE_BUF_SIZE - write_index + 1
         \/ pc[p] = "seal" /\ args[p].count = 0 /\ write_index = 0
         \/ pc[p] = "format" /\ args'[p].len + 1 > TmpSize
<1>1. TurnInv /\ [Next]_vars => [oops' # "none" /\ oops = "none" => \E p \in Procs : Edge(p)]_vars
  <2> SUFFICES ASSUME TurnInv, Next, oops' # "none", oops = "none"
               PROVE  \E p \in Procs : Edge(p)
    OBVIOUS
  <2>1. PICK p \in Procs : Copy(p) \/ Seal(p) \/ Format(p)
    BY DEF Next, Writer, Reader, Dead, Vmalloc, ProcCreate, ResetIndices, Remove, Write,
       Advance, Open, Read, CopyOut, history
  <2>2. Edge(p)
    BY <2>1, CopyKeepsTurns, SealKeepsTurns, FormatKeepsTurns DEF Copy, Seal, Format
  <2> QED BY <2>2
<1>2. QED BY <1>1, TurnInvCorrect, PTL DEF Spec, DiesOnlyAtTheEdges

-----------------------------------------------------------------------------
(***************************************************************************)
(* The cookies that NULs separate.                                         *)
(***************************************************************************)
\* The place of a number in a set grows with the number.
LEMMA PlacesDiffer ==
  ASSUME NEW S \in SUBSET Nat, IsFiniteSet(S), NEW x \in S
  PROVE  /\ Place(S, x) \in 1 .. Cardinality(S)
         /\ \A z \in S : x < z => Place(S, x) < Place(S, z)
<1> DEFINE UpTo(z) == {y \in S : y <= z}
<1>1. /\ Cardinality(S) \in Nat
      /\ \A z \in S : IsFiniteSet(UpTo(z)) /\ Cardinality(UpTo(z)) \in Nat
                      /\ Cardinality(UpTo(z)) <= Cardinality(S)
  <2>1. ASSUME NEW z \in S
        PROVE  IsFiniteSet(UpTo(z)) /\ Cardinality(UpTo(z)) <= Cardinality(S)
    <3>1. UpTo(z) \in SUBSET S
      OBVIOUS
    <3> QED BY <3>1, FS_Subset
  <2> QED BY <2>1, FS_CardinalityType
<1>2. Cardinality(UpTo(x)) # 0
  <2>1. x \in UpTo(x)
    OBVIOUS
  <2> QED BY <1>1, <2>1, FS_EmptySet
<1>3. ASSUME NEW z \in S, x < z PROVE Cardinality(UpTo(x)) < Cardinality(UpTo(z))
  <2>1. UpTo(x) \in SUBSET UpTo(z) /\ z \in UpTo(z) /\ z \notin UpTo(x)
    <3>1. z <= z /\ ~(z <= x) /\ \A y \in S : y <= x => y <= z
      BY <1>3
    <3> QED BY <3>1
  <2>2. /\ Cardinality(UpTo(x)) <= Cardinality(UpTo(z))
        /\ Cardinality(UpTo(z)) = Cardinality(UpTo(x)) => UpTo(z) = UpTo(x)
    BY <1>1, <2>1, FS_Subset
  <2>3. UpTo(z) # UpTo(x)
    BY <2>1
  <2>4. Cardinality(UpTo(x)) \in Nat /\ Cardinality(UpTo(z)) \in Nat
    BY <1>1
  <2> HIDE DEF UpTo
  <2> QED BY <2>2, <2>3, <2>4
<1>4. QED BY <1>1, <1>2, <1>3 DEF Place

\* InOrder(S) lists S: it gives each member at its place.
LEMMA InOrderLists ==
  ASSUME NEW S \in SUBSET Nat, IsFiniteSet(S)
  PROVE  /\ \A k \in 1 .. Cardinality(S) : InOrder(S)[k] \in S /\ Place(S, InOrder(S)[k]) = k
         /\ \A x \in S : InOrder(S)[Place(S, x)] = x
<1> DEFINE Places == 1 .. Cardinality(S)
           place == [x \in S |-> Place(S, x)]
<1>1. Cardinality(S) \in Nat
  BY FS_CardinalityType
<1>2. \A x, z \in S : Place(S, x) = Place(S, z) => x = z
  <2>1. ASSUME NEW x \in S, NEW z \in S, x # z PROVE Place(S, x) # Place(S, z)
    <3>1. Place(S, x) \in Nat /\ Place(S, z) \in Nat
      BY <1>1, PlacesDiffer
    <3>2. x < z \/ z < x
      BY <2>1
    <3>3. Place(S, x) < Place(S, z) \/ Place(S, z) < Place(S, x)
      BY <3>2, PlacesDiffer
    <3> QED BY <3>1, <3>3
  <2> QED BY <2>1
<1>3. place \in [S -> Places]
  BY PlacesDiffer
<1>4. place \in Injection(S, Places)
  BY <1>2, <1>3 DEF Injection, IsInjective
<1>5. IsFiniteSet(Places) /\ Cardinality(Places) = Cardinality(S)
  BY <1>1, FS_Interval
<1>6. place \in Surjection(S, Places)
  BY <1>4, <1>5, FS_Injection
<1>7. ASSUME NEW k \in Places PROVE InOrder(S)[k] \in S /\ Place(S, InOrder(S)[k]) = k
  <2>1. \E x \in S : Place(S, x) = k
    BY <1>6 DEF Surjection
  <2> QED BY <2>1 DEF InOrder
<1>8. ASSUME NEW x \in S PROVE InOrder(S)[Place(S, x)] = x
  BY <1>2, <1>7, PlacesDiffer
<1>9. QED BY <1>7, <1>8

\* A number behind all others comes last.
LEMMA InOrderAppends ==
  ASSUME NEW S \in SUBSET Nat, IsFiniteSet(S), NEW e \in Nat, \A x \in S : x < e
  PROVE  /\ IsFiniteSet(S \cup {e}) /\ S \cup {e} \in SUBSET Nat
         /\ Cardinality(S) \in Nat /\ Cardinality(S \cup {e}) = Cardinality(S) + 1
         /\ \A k \in 1 .. Cardinality(S) : InOrder(S \cup {e})[k] = InOrder(S)[k]
         /\ InOrder(S \cup {e})[Cardinality(S) + 1] = e
<1> DEFINE T == S \cup {e}
<1>1. e \notin S
  OBVIOUS
<1>2. /\ IsFiniteSet(T) /\ T \in SUBSET Nat
      /\ Cardinality(S) \in Nat /\ Cardinality(T) = Cardinality(S) + 1
  BY <1>1, FS_AddElement, FS_CardinalityType
<1>3. ASSUME NEW x \in S PROVE Place(T, x) = Place(S, x)
  <2>1. {y \in T : y <= x} = {y \in S : y <= x}
    OBVIOUS
  <2> QED BY <2>1 DEF Place
<1>4. Place(T, e) = Cardinality(T)
  <2>1. \A y \in T : y <= e
    OBVIOUS
  <2>2. {y \in T : y <= e} = T
    BY <2>1
  <2> QED BY <2>2 DEF Place
<1>5. ASSUME NEW k \in 1 .. Cardinality(S) PROVE InOrder(T)[k] = InOrder(S)[k]
  <2>1. InOrder(S)[k] \in S /\ Place(S, InOrder(S)[k]) = k
    BY <1>5, InOrderLists
  <2>2. Place(T, InOrder(S)[k]) = k /\ InOrder(S)[k] \in T
    BY <2>1, <1>3
  <2> HIDE DEF T
  <2> QED BY <1>2, <2>2, InOrderLists
<1>6. InOrder(T)[Cardinality(T)] = e
  <2>1. e \in T
    OBVIOUS
  <2> HIDE DEF T
  <2> QED BY <1>2, <1>4, <2>1, InOrderLists
<1>7. QED BY <1>2, <1>5, <1>6

\* The texts that the cells in S separate, and what stands in front of each.
Text(buf, first, last) == [x \in 1 .. last - first + 1 |-> buf[first + x - 1]]
TextStart(S, k) == IF k = 1 THEN 0 ELSE InOrder(S)[k - 1] + 1
TextsOf(buf, S) == [k \in 1 .. Cardinality(S) |-> Text(buf, TextStart(S, k), InOrder(S)[k] - 1)]

\* The cookies are the texts that the NULs in front of write_index separate.
LEMMA CookiesAreTexts ==
  ASSUME IsFiniteSet(WrittenNuls), IsFiniteSet(WrittenNuls')
  PROVE  /\ Cookies = TextsOf(cookie_buf, WrittenNuls)
         /\ Cookies' = TextsOf(cookie_buf', WrittenNuls')
<1>1. /\ Cardinality(WrittenNuls) \in Nat /\ DOMAIN Ends = 1 .. Cardinality(WrittenNuls)
      /\ Cardinality(WrittenNuls') \in Nat /\ DOMAIN Ends' = 1 .. Cardinality(WrittenNuls')
  BY FS_CardinalityType DEF Ends, InOrder
<1>2. Len(Ends) = Cardinality(WrittenNuls) /\ Len(Ends)' = Cardinality(WrittenNuls)'
  BY <1>1
<1>3. Cookies = TextsOf(cookie_buf, WrittenNuls)
  BY <1>2 DEF Cookies, Ends, Between, Text, TextStart, TextsOf
<1>4. Cookies' = TextsOf(cookie_buf', WrittenNuls')
  BY <1>2 DEF Cookies, Ends, Between, Text, TextStart, TextsOf
<1>5. QED BY <1>3, <1>4

\* A text lies below the cell that ends it.
LEMMA TextBelow ==
  ASSUME NEW S \in SUBSET Nat, IsFiniteSet(S), NEW k \in 1 .. Cardinality(S)
  PROVE  TextStart(S, k) \in Nat /\ InOrder(S)[k] \in S
<1>1. Cardinality(S) \in Nat
  BY FS_CardinalityType
<1>2. InOrder(S)[k] \in S /\ (k # 1 => InOrder(S)[k - 1] \in S)
  BY <1>1, InOrderLists
<1>3. TextStart(S, k) \in Nat
  <2>1. CASE k = 1
    BY <2>1 DEF TextStart
  <2>2. CASE k # 1
    <3>1. InOrder(S)[k - 1] \in Nat
      BY <1>2, <2>2
    <3> QED BY <2>2, <3>1 DEF TextStart
  <2> QED BY <2>1, <2>2
<1>4. QED BY <1>2, <1>3

\* Cells behind the last one in S do not matter to the texts.
LEMMA SameTexts ==
  ASSUME NEW S \in SUBSET Nat, IsFiniteSet(S), NEW buf, NEW other,
         \A x \in Nat : (\E e \in S : x < e) => other[x] = buf[x]
  PROVE  TextsOf(other, S) = TextsOf(buf, S)
<1>1. ASSUME NEW k \in 1 .. Cardinality(S)
      PROVE  Text(other, TextStart(S, k), InOrder(S)[k] - 1) = Text(buf, TextStart(S, k), InOrder(S)[k] - 1)
  <2> DEFINE first == TextStart(S, k)
             end == InOrder(S)[k]
  <2>1. first \in Nat /\ end \in S /\ end \in Nat
    BY TextBelow
  <2> HIDE DEF first, end
  <2>2. ASSUME NEW x \in 1 .. end - 1 - first + 1
        PROVE  other[first + x - 1] = buf[first + x - 1]
    <3>1. first + x - 1 \in Nat /\ first + x - 1 < end
      BY <2>1
    <3> QED BY <2>1, <3>1
  <2>3. Text(other, first, end - 1) = Text(buf, first, end - 1)
    BY <2>2 DEF Text
  <2> QED BY <2>3 DEF first, end
<1>2. QED BY <1>1 DEF TextsOf

\* A cell behind all others ends one text more.
LEMMA MoreTexts ==
  ASSUME NEW S \in SUBSET Nat, IsFiniteSet(S), NEW e \in Nat, \A x \in S : x < e,
         NEW first \in Nat, first = 0 \/ first - 1 \in S, \A x \in S : x < first,
         NEW buf
  PROVE  TextsOf(buf, S \cup {e}) = Append(TextsOf(buf, S), Text(buf, first, e - 1))
<1> DEFINE T == S \cup {e}
           n == Cardinality(S)
<1>1. /\ IsFiniteSet(T) /\ T \in SUBSET Nat /\ n \in Nat /\ Cardinality(T) = n + 1
      /\ \A k \in 1 .. n : InOrder(T)[k] = InOrder(S)[k]
      /\ InOrder(T)[n + 1] = e
  BY InOrderAppends
<1>2. \A k \in 1 .. n : TextStart(T, k) = TextStart(S, k)
  <2>1. ASSUME NEW k \in 1 .. n PROVE TextStart(T, k) = TextStart(S, k)
    <3>1. k = 1 \/ k - 1 \in 1 .. n
      BY <1>1
    <3> QED BY <1>1, <3>1 DEF TextStart
  <2> QED BY <2>1
<1>3. TextStart(T, n + 1) = first
  <2>1. CASE n = 0
    <3>1. S = {}
      BY <2>1, FS_EmptySet
    <3> QED BY <2>1, <3>1 DEF TextStart
  <2>2. CASE n # 0
    <3>1. n \in 1 .. n /\ n + 1 # 1 /\ n + 1 - 1 = n
      BY <1>1, <2>2
    <3>2. InOrder(S)[n] \in S /\ Place(S, InOrder(S)[n]) = n
      BY <3>1, InOrderLists
    <3>3. first - 1 \in S
      <4>1. \E x \in S : x < first
        BY <3>2
      <4> QED BY <4>1
    <3>4. Place(S, first - 1) = n
      <4>1. \A y \in S : y <= first - 1
        OBVIOUS
      <4>2. {y \in S : y <= first - 1} = S
        BY <4>1
      <4> QED BY <4>2 DEF Place
    <3>5. InOrder(S)[n] = first - 1
      BY <3>3, <3>4, InOrderLists
    <3>6. TextStart(T, n + 1) = InOrder(T)[n] + 1
      BY <3>1 DEF TextStart
    <3>7. InOrder(T)[n] = InOrder(S)[n]
      BY <1>1, <3>1
    <3> QED BY <3>5, <3>6, <3>7
  <2> QED BY <2>1, <2>2
<1> HIDE DEF T, n
<1>4. TextsOf(buf, T) = [k \in 1 .. n + 1 |-> IF k <= n THEN TextsOf(buf, S)[k]
                                               ELSE Text(buf, first, e - 1)]
  <2>1. ASSUME NEW k \in 1 .. n
        PROVE  Text(buf, TextStart(T, k), InOrder(T)[k] - 1) = TextsOf(buf, S)[k]
    <3>1. TextsOf(buf, S)[k] = Text(buf, TextStart(S, k), InOrder(S)[k] - 1)
      BY <2>1 DEF TextsOf, n
    <3> QED BY <1>1, <1>2, <3>1
  <2>2. \A k \in 1 .. n + 1 : k <= n \/ k = n + 1
    BY <1>1
  <2>3. \A k \in 1 .. n + 1 : k <= n => k \in 1 .. n
    BY <1>1
  <2>4. ~(n + 1 <= n)
    BY <1>1
  <2> QED BY <1>1, <1>3, <2>1, <2>2, <2>3, <2>4 DEF TextsOf
<1>5. DOMAIN TextsOf(buf, S) = 1 .. n /\ Len(TextsOf(buf, S)) = n
  BY <1>1 DEF TextsOf, n
<1> DEFINE text == Text(buf, first, e - 1)
           texts == TextsOf(buf, S)
           all == {texts[k] : k \in 1 .. n} \cup {text}
<1>6. texts \in Seq(all) /\ text \in all
  <2>1. texts = [k \in 1 .. n |-> texts[k]]
    BY <1>5 DEF TextsOf, n
  <2>2. \A k \in 1 .. n : texts[k] \in all
    OBVIOUS
  <2> HIDE DEF texts, all
  <2>3. texts \in Seq(all)
    BY <1>1, <2>1, <2>2, IsASeq
  <2> QED BY <2>3 DEF all
<1>7. TextsOf(buf, T) = Append(texts, text)
  <2> HIDE DEF texts, all, text
  <2>1. /\ Append(texts, text) \in Seq(all) /\ Len(Append(texts, text)) = n + 1
        /\ \A k \in 1 .. n : Append(texts, text)[k] = texts[k]
        /\ Append(texts, text)[n + 1] = text
    BY <1>5, <1>6, AppendProperties DEF texts
  <2>2. Append(texts, text) = [k \in 1 .. n + 1 |-> Append(texts, text)[k]]
    BY <2>1, LenProperties
  <2>3. \A k \in 1 .. n + 1 : (k \in 1 .. n /\ k <= n) \/ (k = n + 1 /\ ~(k <= n))
    BY <1>1
  <2>4. \A k \in 1 .. n + 1 : Append(texts, text)[k] = IF k <= n THEN texts[k] ELSE text
    BY <2>1, <2>3
  <2>5. TextsOf(buf, T) = [k \in 1 .. n + 1 |-> IF k <= n THEN texts[k] ELSE text]
    BY <1>4 DEF texts, text
  <2> QED BY <2>2, <2>4, <2>5
<1>8. QED BY <1>7 DEF T

\* The text that starts at first and ends at e comes behind as many as there
\* are cells in front of it.
LEMMA TextAt ==
  ASSUME NEW S \in SUBSET Nat, IsFiniteSet(S), NEW buf, NEW e \in S, NEW first \in Nat,
         first <= e, first = 0 \/ first - 1 \in S, \A x \in S : x < first \/ e <= x
  PROVE  LET k == Cardinality({x \in S : x < first}) + 1
         IN  /\ k \in 1 .. Cardinality(S)
             /\ TextsOf(buf, S)[k] = Text(buf, first, e - 1)
             /\ Cardinality({x \in S : x < e + 1}) = k
<1> DEFINE Before == {x \in S : x < first}
           k == Cardinality(Before) + 1
<1>1. IsFiniteSet(Before) /\ Cardinality(Before) \in Nat
  <2>1. Before \in SUBSET S
    OBVIOUS
  <2> QED BY <2>1, FS_Subset, FS_CardinalityType
<1>2. {x \in S : x < e + 1} = Before \cup {e} /\ {x \in S : x <= e} = Before \cup {e}
      /\ e \notin Before
  <2>1. \A x \in S : (x <= e <=> x < first \/ x = e) /\ (x < e + 1 <=> x < first \/ x = e)
    OBVIOUS
  <2>2. ~(e < first)
    OBVIOUS
  <2> QED BY <2>1, <2>2
<1>3. Cardinality(Before \cup {e}) = k
  BY <1>1, <1>2, FS_AddElement
<1>4. Place(S, e) = k
  BY <1>2, <1>3 DEF Place
<1>5. InOrder(S)[k] = e /\ k \in 1 .. Cardinality(S)
  BY <1>4, InOrderLists, PlacesDiffer
<1>6. TextStart(S, k) = first
  <2>1. CASE first = 0
    <3>1. Before = {}
      <4>1. \A x \in S : ~(x < first)
        BY <2>1
      <4> QED BY <4>1
    <3>2. Cardinality(Before) = 0
      BY <3>1, FS_EmptySet
    <3> QED BY <2>1, <3>2 DEF TextStart
  <2>2. CASE first # 0
    <3>1. first - 1 \in S
      BY <2>2
    <3>2. \A y \in S : y < first <=> y <= first - 1
      OBVIOUS
    <3>3. {y \in S : y <= first - 1} = Before
      BY <3>2
    <3>4. Place(S, first - 1) = Cardinality(Before)
      BY <3>3 DEF Place
    <3>5. Cardinality(Before) # 0
      BY <3>1, <3>4, PlacesDiffer, FS_CardinalityType
    <3>6. InOrder(S)[Cardinality(Before)] = first - 1
      BY <3>1, <3>4, InOrderLists
    <3>7. k # 1 /\ k - 1 = Cardinality(Before)
      BY <1>1, <3>5
    <3>8. TextStart(S, k) = InOrder(S)[Cardinality(Before)] + 1
      BY <3>7 DEF TextStart
    <3> QED BY <3>6, <3>8
  <2> QED BY <2>1, <2>2
<1> HIDE DEF k
<1>7. TextsOf(buf, S)[k] = Text(buf, first, e - 1)
  BY <1>5, <1>6 DEF TextsOf
<1>8. QED BY <1>2, <1>3, <1>5, <1>7 DEF k

-----------------------------------------------------------------------------
(***************************************************************************)
(* The second invariant: what a writer is about to end holds no NUL and    *)
(* begins behind the last cookie, what a reader is about to get is the     *)
(* text up to the next NUL, and a write that was acknowledged is a cookie. *)
(***************************************************************************)
WritersWrite ==
  \A p \in Procs :
    /\ pc[p] \in {"copy", "advance", "seal"} => args[p].letter \in Letters
    /\ pc[p] = "advance" =>
         \A x \in Cells : write_index <= x /\ x < write_index + args[p].count =>
                            cookie_buf[x] = args[p].letter
    /\ pc[p] = "seal" =>
         LET first == write_index - args[p].count
         IN  /\ read_index <= first
             /\ first = 0 \/ cookie_buf[first - 1] = NUL
             /\ \A x \in Cells : first <= x /\ x < write_index =>
                                   cookie_buf[x] = args[p].letter

ReadersRead ==
  \A p \in Procs : pc[p] = "copy_out" =>
    /\ args[p].len = Len(tmp) + 1
    /\ tmp = Text(cookie_buf, read_index, read_index + Len(tmp) - 1)
    /\ \A x \in Cells : read_index <= x /\ x < read_index + Len(tmp) => cookie_buf[x] # NUL

RingInv ==
  /\ oops = "none" => WritersWrite /\ ReadersRead
  /\ mod # "live" => read_index = 0 /\ write_index = 0 /\ out = <<>>
  /\ acked = Cardinality(WrittenNuls)

Passed == {x \in Nuls : x < read_index}

\* NULs can be counted.
LEMMA NulsAreFinite ==
  /\ Nuls \in SUBSET Nat /\ WrittenNuls \in SUBSET Nat
  /\ IsFiniteSet(WrittenNuls) /\ IsFiniteSet(Passed)
  /\ Nuls' \in SUBSET Nat /\ WrittenNuls' \in SUBSET Nat
  /\ IsFiniteSet(WrittenNuls') /\ IsFiniteSet(Passed')
<1>1. IsFiniteSet(Cells) /\ Cells \in SUBSET Nat
  BY SizesAssumption, FS_Interval DEF Cells
<1>2. Nuls \in SUBSET Cells /\ WrittenNuls \in SUBSET Cells /\ Passed \in SUBSET Cells
  BY DEF Nuls, WrittenNuls, Passed
<1>3. Nuls' \in SUBSET Cells /\ WrittenNuls' \in SUBSET Cells /\ Passed' \in SUBSET Cells
  BY DEF Nuls, WrittenNuls, Passed, Cells
<1>4. QED BY <1>1, <1>2, <1>3, FS_Subset

\* There is a cookie for each NUL.
LEMMA LenOfCookies ==
  /\ Cardinality(WrittenNuls) \in Nat
  /\ Len(Cookies) = Cardinality(WrittenNuls)
<1>1. Cardinality(WrittenNuls) \in Nat
  BY NulsAreFinite, FS_CardinalityType
<1>2. Cookies = [k \in 1 .. Cardinality(WrittenNuls) |-> Cookies[k]]
  BY NulsAreFinite, CookiesAreTexts DEF TextsOf
<1>3. QED BY <1>1, <1>2

\* While nothing in front of write_index changes and no NUL comes between the
\* old and the new one, the ring stays as it is.
LEMMA SameRing ==
  ASSUME TypeOK, TypeOK', read_index <= write_index, write_index <= write_index',
         \A x \in Cells : x < write_index => cookie_buf'[x] = cookie_buf[x],
         \A x \in Cells : write_index <= x /\ x < write_index' => cookie_buf'[x] # NUL,
         read_index' = read_index, out' = out, mod' = mod
  PROVE  UNCHANGED Ring!vars /\ WrittenNuls' = WrittenNuls
<1>1. /\ write_index \in Nat /\ write_index' \in Nat /\ read_index \in Nat
      /\ Cells' = Cells /\ Cells \in SUBSET Nat
  BY SizesAssumption DEF TypeOK, Cells
<1>2. WrittenNuls' = WrittenNuls
  <2>1. \A x \in Cells : /\ x < write_index => x < write_index'
                         /\ x < write_index \/ write_index <= x
    BY <1>1, SizesAssumption DEF Cells
  <2>2. \A x \in Cells : (cookie_buf'[x] = NUL /\ x < write_index') <=>
                         (cookie_buf[x] = NUL /\ x < write_index)
    BY <2>1
  <2> QED BY <1>1, <2>2 DEF WrittenNuls, Nuls
<1>3. Passed' = Passed
  <2>1. \A x \in Cells : x < read_index => x < write_index
    BY <1>1, SizesAssumption DEF Cells
  <2>2. \A x \in Cells : (cookie_buf'[x] = NUL /\ x < read_index') <=>
                         (cookie_buf[x] = NUL /\ x < read_index)
    BY <2>1
  <2> QED BY <1>1, <2>2 DEF Passed, Nuls
<1>4. Cookies' = Cookies
  <2>1. ASSUME NEW x \in Nat, NEW e \in WrittenNuls, x < e
        PROVE  cookie_buf'[x] = cookie_buf[x]
    <3>1. e \in Cells /\ e < write_index
      BY DEF WrittenNuls, Nuls
    <3>2. x \in Cells /\ x < write_index
      BY <1>1, <2>1, <3>1, SizesAssumption DEF Cells
    <3> QED BY <3>2
  <2>2. TextsOf(cookie_buf', WrittenNuls) = TextsOf(cookie_buf, WrittenNuls)
    BY <2>1, NulsAreFinite, SameTexts
  <2> QED BY <1>2, <2>2, NulsAreFinite, CookiesAreTexts
<1>5. QED BY <1>2, <1>3, <1>4 DEF Ring!vars, Passed

\* An empty ring.
LEMMA EmptyRing ==
  /\ write_index = 0 => Cookies = <<>> /\ WrittenNuls = {} /\ Cardinality(WrittenNuls) = 0
  /\ write_index' = 0 => Cookies' = <<>> /\ WrittenNuls' = {} /\ Cardinality(WrittenNuls') = 0
  /\ read_index = 0 => Cardinality(Passed) = 0
  /\ read_index' = 0 => Cardinality(Passed') = 0
<1>1. /\ write_index = 0 => WrittenNuls = {}
      /\ write_index' = 0 => WrittenNuls' = {}
  BY NulsAreFinite DEF WrittenNuls
<1>2. /\ read_index = 0 => Passed = {}
      /\ read_index' = 0 => Passed' = {}
  <2>1. \A x \in Nuls : ~(x < 0)
    BY NulsAreFinite
  <2>2. \A x \in Nuls' : ~(x < 0)
    BY NulsAreFinite
  <2> QED BY <2>1, <2>2 DEF Passed
<1>3. \A buf : TextsOf(buf, {}) = <<>>
  BY FS_EmptySet DEF TextsOf
<1>4. QED BY <1>1, <1>2, <1>3, NulsAreFinite, CookiesAreTexts, FS_EmptySet

-----------------------------------------------------------------------------
(***************************************************************************)
(* Every step of the module is one of the ring or none.                    *)
(***************************************************************************)
RingStep == Ring!Next \/ UNCHANGED Ring!vars

\* fortune_init() loads an empty ring, fortune_exit() drops what was in it.
LEMMA ModuleIsRing ==
  ASSUME TurnInv, RingInv, Vmalloc \/ ProcCreate \/ ResetIndices \/ Remove
  PROVE  RingInv' /\ RingStep
<1>1. Idle /\ pc' = pc
  BY DEF Vmalloc, ProcCreate, ResetIndices, Remove, At, Turns, TurnInv, calls
<1>2. WritersWrite' /\ ReadersRead'
  BY <1>1 DEF Idle, WritersWrite, ReadersRead
<1>3. CASE Vmalloc \/ ProcCreate \/ ResetIndices
  <2>1. mod # "live" /\ read_index = 0 /\ write_index = 0 /\ out = <<>> /\ acked = 0
    BY <1>3, EmptyRing DEF RingInv, Vmalloc, ProcCreate, ResetIndices, At
  <2>2. read_index' = 0 /\ write_index' = 0 /\ out' = <<>> /\ acked' = 0
    BY <1>3, <2>1 DEF Vmalloc, ProcCreate, ResetIndices, indices, history
  <2>3. RingInv'
    BY <1>2, <2>2, EmptyRing DEF RingInv
  <2>4. /\ Cookies' = Cookies /\ out' = out
        /\ Cardinality({x \in Nuls : x < read_index})' = Cardinality({x \in Nuls : x < read_index})
    BY <2>1, <2>2, EmptyRing DEF Passed
  <2>5. RingStep
    BY <2>1, <2>4 DEF RingStep, Ring!Next, Ring!Load, Ring!vars
  <2> QED BY <2>3, <2>5
<1>4. CASE Remove
  <2>1. /\ mod = "live" /\ mod' = "absent"
        /\ read_index' = 0 /\ write_index' = 0 /\ out' = <<>> /\ acked' = 0
    BY <1>4 DEF Remove, At
  <2>2. RingInv'
    BY <1>2, <2>1, EmptyRing DEF RingInv
  <2>3. Ring!Unload
    <3>1. Cookies' = <<>> /\ Cardinality({x \in Nuls : x < read_index})' = 0
      BY <2>1, EmptyRing DEF Passed
    <3> QED BY <2>1, <3>1 DEF Ring!Unload
  <2> QED BY <2>2, <2>3 DEF RingStep, Ring!Next
<1>5. QED BY <1>3, <1>4

\* The start of a write is none of the ring's business.
LEMMA WriteIsRing ==
  ASSUME Exclusive, TurnInv, TurnInv', RingInv, NEW p \in Procs, NEW letter \in Letters,
         NEW count \in 0 .. MaxCount, Write(p, letter, count)
  PROVE  RingInv' /\ RingStep
<1>1. /\ oops = "none" /\ Idle /\ mod = "live"
      /\ UNCHANGED <<mod, proc, cookie_buf, read_index, write_index, tmp, f_pos, out, acked, oops>>
  BY DEF Write, MayCall, module, indices, history
<1>2. read_index <= write_index /\ write_index \in Nat
  BY <1>1 DEF TurnInv, CookiesEnd, TypeOK
<1>3. UNCHANGED Ring!vars /\ WrittenNuls' = WrittenNuls
  <2>1. \A x \in Cells : ~(write_index <= x /\ x < write_index')
    BY <1>1, <1>2, SizesAssumption DEF Cells
  <2>2. write_index <= write_index'
    BY <1>1, <1>2
  <2> QED BY <1>1, <1>2, <2>1, <2>2, SameRing DEF TurnInv
<1>4. WritersWrite' /\ ReadersRead'
  <2>1. CASE BufferFull(count)
    <3>1. UNCHANGED <<pc, args>>
      BY <2>1 DEF Write
    <3> QED BY <1>1, <3>1 DEF Idle, WritersWrite, ReadersRead
  <2>2. CASE ~BufferFull(count)
    <3>1. /\ pc' = [pc EXCEPT ![p] = "copy"]
          /\ args' = [args EXCEPT ![p] = [NoArgs EXCEPT !.letter = letter, !.count = count]]
      BY <2>2 DEF Write, Goto
    <3>2. pc'[p] = "copy" /\ \A q \in Procs \ {p} : pc'[q] = "idle"
      BY <1>1, <3>1 DEF TurnInv, TypeOK, Idle
    <3>3. args'[p].letter = letter
      BY <3>1 DEF TurnInv, TypeOK, NoArgs
    <3> QED BY <3>2, <3>3 DEF WritersWrite, ReadersRead
  <2> QED BY <2>1, <2>2
<1>5. QED BY <1>1, <1>3, <1>4 DEF RingInv, RingStep

\* A copy, whole or cut short, is behind all cookies.
LEMMA CopyIsRing ==
  ASSUME TurnInv, TurnInv', RingInv, NEW p \in Procs, Copy(p)
  PROVE  RingInv' /\ RingStep
<1> USE SizesAssumption
<1>1. /\ oops = "none" /\ pc[p] = "copy" /\ mod = "live"
      /\ UNCHANGED <<mod, proc, read_index, write_index, tmp, f_pos, out, acked>>
  BY DEF Copy, module, indices, history, TurnInv, Turns, Idle
<1> DEFINE count == args[p].count
<1>2. /\ read_index <= write_index /\ write_index \in Nat /\ count \in Nat
      /\ args[p].letter \in Letters
  BY <1>1 DEF TurnInv, CookiesEnd, TypeOK, RingInv, WritersWrite
<1>3. PICK n \in 0 .. count :
        LET copied == write_index .. write_index + n - 1
            zeroed == write_index + n .. write_index + count - 1
        IN  /\ cookie_buf' = [x \in Cells |-> IF x \in copied THEN args[p].letter
                                              ELSE IF x \in zeroed THEN NUL ELSE cookie_buf[x]]
            /\ IF n = count
                 THEN Goto(p, "advance") /\ UNCHANGED args
                 ELSE Goto(p, "idle") /\ args' = [args EXCEPT ![p] = NoArgs]
  BY DEF Copy
<1>4. UNCHANGED Ring!vars /\ WrittenNuls' = WrittenNuls
  <2>1. ASSUME NEW x \in Cells, x < write_index PROVE cookie_buf'[x] = cookie_buf[x]
    <3>1. /\ x \notin write_index .. write_index + n - 1
          /\ x \notin write_index + n .. write_index + count - 1
      BY <1>2, <2>1 DEF Cells
    <3> QED BY <1>3, <3>1
  <2>2. \A x \in Cells : ~(write_index <= x /\ x < write_index')
    BY <1>1, <1>2 DEF Cells
  <2>3. write_index <= write_index'
    BY <1>1, <1>2
  <2> QED BY <1>1, <1>2, <2>1, <2>2, <2>3, SameRing DEF TurnInv
<1>5. PICK step \in {"advance", "idle"} :
        /\ pc' = [pc EXCEPT ![p] = step]
        /\ step = "advance" => n = count /\ args' = args
  BY <1>3 DEF Goto
<1>6. pc'[p] = step /\ \A q \in Procs \ {p} : pc'[q] = "idle"
  BY <1>1, <1>5 DEF TurnInv, TypeOK, Turns
<1>7. ASSUME step = "advance", NEW x \in Cells, write_index <= x, x < write_index + count
      PROVE  cookie_buf'[x] = args[p].letter
  <2>1. x \in write_index .. write_index + n - 1
    BY <1>2, <1>5, <1>7 DEF Cells
  <2> QED BY <1>3, <2>1
<1>8. WritersWrite' /\ ReadersRead'
  <2>1. Cells' = Cells
    BY DEF Cells
  <2> QED BY <1>1, <1>2, <1>5, <1>6, <1>7, <2>1 DEF WritersWrite, ReadersRead
<1>9. QED BY <1>1, <1>4, <1>8 DEF RingInv, RingStep

\* No NUL is in what write_index passes.
LEMMA AdvanceIsRing ==
  ASSUME TurnInv, TurnInv', RingInv, NEW p \in Procs, Advance(p)
  PROVE  RingInv' /\ RingStep
<1> USE SizesAssumption
<1>1. /\ oops = "none" /\ pc[p] = "advance" /\ mod = "live"
      /\ UNCHANGED <<mod, proc, cookie_buf, read_index, tmp, args, f_pos, out, acked, oops>>
      /\ pc' = [pc EXCEPT ![p] = "seal"] /\ write_index' = write_index + args[p].count
  BY DEF Advance, Goto, module, history, TurnInv, Turns, Idle
<1> DEFINE count == args[p].count
           letter == args[p].letter
<1>2. pc'[p] = "seal" /\ \A q \in Procs \ {p} : pc[q] = "idle" /\ pc'[q] = "idle"
  BY <1>1 DEF TurnInv, TypeOK, Turns
<1>3. /\ count \in Nat /\ write_index \in Nat /\ read_index \in Nat
      /\ letter \in Letters /\ letter # NUL
      /\ read_index <= write_index
      /\ write_index = 0 \/ cookie_buf[write_index - 1] = NUL
      /\ \A x \in Cells : write_index <= x /\ x < write_index + count => cookie_buf[x] = letter
  <2>1. \A q \in Procs : pc[q] # "seal"
    BY <1>1, <1>2
  <2> QED BY <1>1, <2>1 DEF TurnInv, CookiesEnd, TypeOK, RingInv, WritersWrite
<1> HIDE DEF count, letter
<1>4. UNCHANGED Ring!vars /\ WrittenNuls' = WrittenNuls
  <2>1. write_index <= write_index'
    BY <1>1, <1>3 DEF count
  <2>2. \A x \in Cells : write_index <= x /\ x < write_index' => cookie_buf'[x] # NUL
    BY <1>1, <1>3 DEF count
  <2> QED BY <1>1, <1>3, <2>1, <2>2, SameRing DEF TurnInv
<1>5. WritersWrite'
  <2>1. write_index' - count = write_index
    BY <1>1, <1>3 DEF count
  <2>2. Cells' = Cells
    BY DEF Cells
  <2>3. args'[p].count = count /\ args'[p].letter = letter
    BY <1>1 DEF count, letter
  <2>4. /\ read_index' <= write_index' - count
        /\ write_index' - count = 0 \/ cookie_buf'[write_index' - count - 1] = NUL
        /\ \A x \in Cells' : write_index' - count <= x /\ x < write_index' => cookie_buf'[x] = letter
    BY <1>1, <1>3, <2>1, <2>2 DEF count
  <2> QED BY <1>2, <1>3, <2>3, <2>4 DEF WritersWrite
<1>6. ReadersRead'
  BY <1>2 DEF ReadersRead
<1>7. QED BY <1>1, <1>4, <1>5, <1>6 DEF RingInv, RingStep

\* The NUL makes a cookie of what was copied, or changes nothing when nothing
\* was.
LEMMA SealIsRing ==
  ASSUME TurnInv, TurnInv', RingInv, NEW p \in Procs, Seal(p)
  PROVE  RingInv' /\ RingStep
<1> USE SizesAssumption
<1>1. /\ oops = "none" /\ pc[p] = "seal" /\ mod = "live"
      /\ UNCHANGED <<mod, proc, read_index, write_index, tmp, f_pos, out>>
      /\ pc' = [pc EXCEPT ![p] = "idle"]
      /\ acked' = IF args[p].count > 0 THEN acked + 1 ELSE acked
  BY DEF Seal, Goto, module, indices, TurnInv, Turns, Idle
<1>2. \A q \in Procs : pc'[q] = "idle"
  BY <1>1 DEF TurnInv, TypeOK, Turns
<1>3. WritersWrite' /\ ReadersRead'
  BY <1>2 DEF WritersWrite, ReadersRead
<1> DEFINE count == args[p].count
           letter == args[p].letter
           first == write_index - count
           e == write_index - 1
<1>4. /\ count \in 0 .. MaxCount /\ write_index \in 0 .. COOKIE_BUF_SIZE /\ read_index \in Nat
      /\ letter \in Letters /\ letter # NUL
      /\ read_index <= first /\ first \in Nat
      /\ first = 0 \/ cookie_buf[first - 1] = NUL
      /\ \A x \in Cells : first <= x /\ x < write_index => cookie_buf[x] = letter
  <2>1. /\ count \in 0 .. MaxCount /\ write_index \in 0 .. COOKIE_BUF_SIZE /\ read_index \in Nat
        /\ letter \in Letters /\ letter # NUL
        /\ read_index <= first
        /\ first = 0 \/ cookie_buf[first - 1] = NUL
        /\ \A x \in Cells : first <= x /\ x < write_index => cookie_buf[x] = letter
    BY <1>1 DEF TurnInv, TypeOK, RingInv, WritersWrite
  <2> QED BY <2>1
<1> HIDE DEF letter
<1>5. CASE count = 0
  <2>1. cookie_buf' = cookie_buf /\ acked' = acked
    <3>1. e \in Cells => cookie_buf[e] = NUL
      BY <1>4, <1>5 DEF Cells
    <3>2. cookie_buf' = cookie_buf \/ (e \in Cells /\ cookie_buf' = [cookie_buf EXCEPT ![e] = NUL])
      BY DEF Seal, SealedAt
    <3> QED BY <1>1, <1>5, <3>1, <3>2 DEF TurnInv, TypeOK
  <2>2. \A x \in Cells : ~(write_index <= x /\ x < write_index')
    BY <1>1, <1>4 DEF Cells
  <2>3. write_index <= write_index' /\ read_index <= write_index
    BY <1>1, <1>4, <1>5
  <2>4. UNCHANGED Ring!vars /\ WrittenNuls' = WrittenNuls
    BY <1>1, <2>1, <2>2, <2>3, SameRing DEF TurnInv
  <2> QED BY <1>1, <1>3, <2>1, <2>4 DEF RingInv, RingStep
<1>6. CASE count # 0
  <2>1. e \in Cells /\ e \in Nat /\ first <= e /\ e < write_index
    BY <1>4, <1>6 DEF Cells
  <2>2. cookie_buf' = [cookie_buf EXCEPT ![e] = NUL]
    BY <2>1 DEF Seal, SealedAt
  <2>3. /\ \A x \in Cells : x # e => cookie_buf'[x] = cookie_buf[x]
        /\ cookie_buf'[e] = NUL
    BY <2>1, <2>2 DEF TurnInv, TypeOK
  <2>4. \A x \in WrittenNuls : x < first
    <3>1. \A x \in Cells : x < write_index /\ cookie_buf[x] = NUL => ~(first <= x)
      BY <1>4
    <3>2. \A x \in Cells : ~(first <= x) => x < first
      BY <1>4 DEF Cells
    <3> QED BY <3>1, <3>2 DEF WrittenNuls, Nuls
  <2>5. first = 0 \/ first - 1 \in WrittenNuls
    <3>1. first = 0 \/ (first - 1 \in Cells /\ first - 1 < write_index)
      BY <1>4 DEF Cells
    <3> QED BY <1>4, <3>1 DEF WrittenNuls, Nuls
  <2>6. WrittenNuls' = WrittenNuls \cup {e}
    <3>1. \A x \in Cells : (cookie_buf'[x] = NUL /\ x < write_index') <=>
                           ((cookie_buf[x] = NUL /\ x < write_index) \/ x = e)
      BY <1>1, <2>1, <2>3
    <3>2. Cells' = Cells
      BY DEF Cells
    <3> QED BY <2>1, <3>1, <3>2 DEF WrittenNuls, Nuls
  <2>7. Passed' = Passed
    <3>1. \A x \in Cells : x < read_index => x # e
      BY <1>4, <2>1 DEF Cells
    <3>2. \A x \in Cells : (cookie_buf'[x] = NUL /\ x < read_index') <=>
                           (cookie_buf[x] = NUL /\ x < read_index)
      BY <1>1, <2>3, <3>1
    <3>3. Cells' = Cells
      BY DEF Cells
    <3> QED BY <3>2, <3>3 DEF Passed, Nuls
  <2> DEFINE text == Text(cookie_buf', first, e - 1)
  <2>8. Cookies' = Append(Cookies, text)
    <3>1. \A x \in WrittenNuls : x < e
      BY <1>4, <2>1, <2>4, NulsAreFinite
    <3>2. ASSUME NEW x \in Nat, NEW y \in WrittenNuls, x < y
          PROVE  cookie_buf'[x] = cookie_buf[x]
      <4>1. y \in Cells /\ y < e
        BY <3>1 DEF WrittenNuls, Nuls
      <4>2. x \in Cells /\ x # e
        BY <3>2, <4>1, <2>1 DEF Cells
      <4> QED BY <2>3, <4>2
    <3> HIDE DEF first, e
    <3>3. first \in Nat /\ e \in Nat
      BY <1>4, <2>1
    <3>4. TextsOf(cookie_buf', WrittenNuls \cup {e}) = Append(TextsOf(cookie_buf, WrittenNuls), text)
      <4>1. \A x \in Nat : (\E y \in WrittenNuls : x < y) => cookie_buf'[x] = cookie_buf[x]
        BY <3>2
      <4>2. WrittenNuls \in SUBSET Nat /\ IsFiniteSet(WrittenNuls)
        BY NulsAreFinite
      <4>3. TextsOf(cookie_buf', WrittenNuls) = TextsOf(cookie_buf, WrittenNuls)
        BY <4>1, <4>2, SameTexts
      <4>4. TextsOf(cookie_buf', WrittenNuls \cup {e}) = Append(TextsOf(cookie_buf', WrittenNuls), text)
        <5> DEFINE S == WrittenNuls
                   buf == cookie_buf'
        <5>1. /\ S \in SUBSET Nat /\ IsFiniteSet(S) /\ e \in Nat /\ first \in Nat
              /\ \A x \in S : x < e
              /\ \A x \in S : x < first
              /\ (first = 0 \/ first - 1 \in S)
          BY <2>4, <2>5, <3>1, <3>3, <4>2
        <5> HIDE DEF S, buf
        <5>2. TextsOf(buf, S \cup {e}) = Append(TextsOf(buf, S), Text(buf, first, e - 1))
          BY <5>1, MoreTexts, ZenonT(30)
        <5> QED BY <5>2 DEF S, buf
      <4> QED BY <4>3, <4>4
    <3> QED BY <2>6, <3>4, NulsAreFinite, CookiesAreTexts
  <2>9. text \in [1 .. count - 1 -> Letters] /\ count - 1 \in 0 .. MaxCount
    <3>1. ASSUME NEW x \in 1 .. count - 1 PROVE cookie_buf'[first + x - 1] \in Letters
      <4>1. first + x - 1 \in Cells /\ first <= first + x - 1 /\ first + x - 1 < write_index
            /\ first + x - 1 # e
        BY <1>4, <1>6, <3>1 DEF Cells
      <4> QED BY <1>4, <2>3, <4>1
    <3>2. e - 1 - first + 1 = count - 1
      BY <1>4
    <3>3. text = [x \in 1 .. count - 1 |-> cookie_buf'[first + x - 1]]
      BY <3>2 DEF Text
    <3> HIDE DEF text
    <3>4. text \in [1 .. count - 1 -> Letters]
      BY <3>1, <3>3
    <3> QED BY <1>4, <1>6, <3>4
  <2>10. Cardinality(WrittenNuls') = Cardinality(WrittenNuls) + 1
    <3>1. e \notin WrittenNuls
      BY <1>4, <2>1, <2>4
    <3> QED BY <2>6, <3>1, NulsAreFinite, FS_AddElement
  <2> HIDE DEF text
  <2>11. Ring!Next
    <3>1. Ring!Write(text)
      BY <1>1, <2>7, <2>8 DEF Ring!Write, Passed
    <3>2. text \in UNION {[1 .. n -> Letters] : n \in 0 .. MaxCount}
      BY <2>9
    <3> QED BY <3>1, <3>2 DEF Ring!Next
  <2>12. acked' = Cardinality(WrittenNuls')
    BY <1>1, <1>4, <1>6, <2>10 DEF RingInv
  <2> QED BY <1>1, <1>3, <2>11, <2>12 DEF RingInv, RingStep
<1>7. QED BY <1>5, <1>6

\* A read starts where the last one ended, or over when that was the end.
LEMMA ReadIsRing ==
  ASSUME Exclusive, TurnInv, TurnInv', RingInv, NEW p \in Procs, Read(p)
  PROVE  RingInv' /\ RingStep
<1> USE SizesAssumption
<1>1. /\ oops = "none" /\ Idle /\ mod = "live" /\ read_index' = Rewound
      /\ UNCHANGED <<mod, proc, cookie_buf, write_index, tmp, args, f_pos, out, acked, oops>>
  BY DEF Read, MayCall, module, history
<1>2. \A q \in Procs : pc'[q] \in {"format", "idle"}
  BY <1>1 DEF Read, Idle, TurnInv, TypeOK
<1>3. WritersWrite' /\ ReadersRead'
  BY <1>2 DEF WritersWrite, ReadersRead
<1>4. read_index <= write_index /\ write_index \in Nat /\ read_index \in Nat
  BY <1>1 DEF TurnInv, CookiesEnd, TypeOK
<1>5. CASE read_index' = read_index
  <2>1. \A x \in Cells : ~(write_index <= x /\ x < write_index')
    BY <1>1, <1>4 DEF Cells
  <2>2. write_index <= write_index'
    BY <1>1, <1>4
  <2>3. UNCHANGED Ring!vars /\ WrittenNuls' = WrittenNuls
    BY <1>1, <1>4, <1>5, <2>1, <2>2, SameRing DEF TurnInv
  <2> QED BY <1>1, <1>3, <2>3 DEF RingInv, RingStep
<1>6. CASE read_index' # read_index
  <2>1. read_index' = 0 /\ read_index = write_index
    BY <1>1, <1>4, <1>6 DEF Rewound
  <2>2. WrittenNuls' = WrittenNuls /\ Cookies' = Cookies
    <3>1. WrittenNuls' = WrittenNuls
      BY <1>1 DEF WrittenNuls, Nuls, Cells
    <3> QED BY <1>1, <3>1, NulsAreFinite, CookiesAreTexts
  <2>3. Passed = WrittenNuls
    BY <2>1 DEF Passed, WrittenNuls
  <2>4. Len(Cookies) = Cardinality(WrittenNuls) /\ Cardinality(WrittenNuls) \in Nat
    BY LenOfCookies
  <2>5. Cardinality(Passed) + 1 > Len(Cookies) /\ Cardinality(Passed') + 1 = 1
    BY <2>1, <2>3, <2>4, EmptyRing
  <2>6. Ring!Wrap
    BY <1>1, <2>2, <2>5 DEF Ring!Wrap, Passed
  <2> QED BY <1>1, <1>3, <2>2, <2>6 DEF RingInv, RingStep, Ring!Next
<1>7. QED BY <1>5, <1>6

\* The text in tmp is the cookie that the ring gives next.
LEMMA FormatIsRing ==
  ASSUME TurnInv, TurnInv', RingInv, NEW p \in Procs, Format(p)
  PROVE  RingInv' /\ RingStep
<1> USE SizesAssumption
<1>1. /\ oops = "none" /\ pc[p] = "format" /\ mod = "live"
      /\ UNCHANGED <<mod, proc, cookie_buf, read_index, write_index, f_pos, out, acked>>
      /\ pc' = [pc EXCEPT ![p] = "copy_out"]
  BY DEF Format, Goto, module, indices, history, TurnInv, Turns, Idle
<1>2. pc'[p] = "copy_out" /\ \A q \in Procs \ {p} : pc[q] = "idle" /\ pc'[q] = "idle"
  BY <1>1 DEF TurnInv, TypeOK, Turns
<1>3. /\ read_index \in 0 .. COOKIE_BUF_SIZE /\ write_index \in 0 .. COOKIE_BUF_SIZE
      /\ read_index < write_index
  BY <1>1 DEF TurnInv, TypeOK, ReadersStop
<1>4. write_index - 1 \in Nuls /\ write_index - 1 >= read_index
  <2>1. write_index = 0 \/ cookie_buf[write_index - 1] = NUL
    BY <1>1, <1>2 DEF TurnInv, CookiesEnd
  <2> QED BY <1>3, <2>1 DEF Nuls, Cells
<1> DEFINE end == EndOfText
           text == Between(read_index, end - 1)
<1>5. /\ end \in Nuls /\ read_index <= end
      /\ \A x \in Nuls : x >= read_index => end <= x
      /\ text \in Seq(Letters) /\ Len(text) = end - read_index
  BY <1>4, TextEnds DEF TurnInv
<1>6. tmp' = text /\ args' = [args EXCEPT ![p].len = Len(text) + 1]
  BY <1>4 DEF Format
<1>7. text = Text(cookie_buf, read_index, end - 1)
  BY DEF Between, Text
<1>8. end \in Cells /\ end \in Nat
  BY <1>5 DEF Nuls, Cells
<1> HIDE DEF text, end
<1>9. UNCHANGED Ring!vars /\ WrittenNuls' = WrittenNuls
  <2>1. \A x \in Cells : ~(write_index <= x /\ x < write_index')
    BY <1>1, <1>3 DEF Cells
  <2>2. write_index <= write_index' /\ read_index <= write_index
    BY <1>1, <1>3
  <2> QED BY <1>1, <2>1, <2>2, SameRing DEF TurnInv
<1>10. WritersWrite'
  BY <1>2 DEF WritersWrite
<1>11. ReadersRead'
  <2>1. args'[p].len = Len(text) + 1
    BY <1>6 DEF TurnInv, TypeOK
  <2>2. read_index + Len(text) - 1 = end - 1 /\ read_index + Len(text) = end
    BY <1>3, <1>5, <1>8
  <2>3. ASSUME NEW x \in Cells, read_index <= x, x < end PROVE cookie_buf[x] # NUL
    <3>1. x \notin Nuls
      BY <1>3, <1>5, <1>8, <2>3 DEF Cells
    <3> QED BY <3>1 DEF Nuls
  <2>4. /\ args'[p].len = Len(tmp') + 1
        /\ tmp' = Text(cookie_buf', read_index', read_index' + Len(tmp') - 1)
        /\ \A x \in Cells' : read_index' <= x /\ x < read_index' + Len(tmp') => cookie_buf'[x] # NUL
    BY <1>1, <1>6, <1>7, <2>1, <2>2, <2>3 DEF Cells
  <2> QED BY <1>2, <2>4 DEF ReadersRead
<1>12. QED BY <1>1, <1>9, <1>10, <1>11 DEF RingInv, RingStep

\* The cookie is handed over, and the next one is behind its NUL.
LEMMA CopyOutIsRing ==
  ASSUME TurnInv, TurnInv', RingInv, NEW p \in Procs, CopyOut(p)
  PROVE  RingInv' /\ RingStep
<1> USE SizesAssumption
<1>1. /\ oops = "none" /\ pc[p] = "copy_out" /\ mod = "live"
      /\ UNCHANGED <<mod, proc, cookie_buf, write_index, tmp, acked, oops>>
      /\ pc' = [pc EXCEPT ![p] = "idle"]
      /\ read_index' = read_index + args[p].len
  BY DEF CopyOut, Goto, Advanced, module, TurnInv, Turns, Idle
<1>2. \A q \in Procs : pc[q] # "seal" /\ pc'[q] = "idle"
  BY <1>1 DEF TurnInv, TypeOK, Turns
<1>3. WritersWrite' /\ ReadersRead'
  BY <1>2 DEF WritersWrite, ReadersRead
<1> DEFINE len == args[p].len
           e == read_index + Len(tmp)
<1>4. /\ tmp \in Seq(Letters) /\ Len(tmp) \in Nat /\ len = Len(tmp) + 1
      /\ read_index \in Nat /\ write_index \in 0 .. COOKIE_BUF_SIZE
      /\ read_index = 0 \/ cookie_buf[read_index - 1] = NUL
      /\ tmp = Text(cookie_buf, read_index, e - 1)
      /\ \A x \in Cells : read_index <= x /\ x < e => cookie_buf[x] # NUL
  <2>1. tmp \in Seq(Letters) /\ Len(tmp) \in Nat
    BY LenProperties DEF TurnInv, TypeOK
  <2>2. ReadersRead
    BY <1>1 DEF RingInv
  <2>3. /\ read_index \in Nat /\ write_index \in 0 .. COOKIE_BUF_SIZE
        /\ read_index = 0 \/ cookie_buf[read_index - 1] = NUL
    BY <1>1, <1>2 DEF TurnInv, TypeOK, CookiesEnd
  <2>4. /\ args[p].len = Len(tmp) + 1
        /\ tmp = Text(cookie_buf, read_index, e - 1)
        /\ \A x \in Cells : read_index <= x /\ x < e => cookie_buf[x] # NUL
    <3>1. /\ args[p].len = Len(tmp) + 1
          /\ tmp = Text(cookie_buf, read_index, read_index + Len(tmp) - 1)
          /\ \A x \in Cells : read_index <= x /\ x < read_index + Len(tmp) => cookie_buf[x] # NUL
      BY <1>1, <2>2 DEF ReadersRead
    <3> QED BY <2>1, <2>3, <3>1
  <2> QED BY <2>1, <2>3, <2>4
<1>5. /\ e \in Nat /\ read_index <= e /\ e < write_index /\ cookie_buf[e] = NUL
      /\ read_index' = e + 1
  <2>1. read_index + len <= write_index /\ cookie_buf[read_index + len - 1] = NUL
    BY <1>1 DEF TurnInv, ReadersStop
  <2>2. read_index + len - 1 = e
    BY <1>4
  <2> QED BY <1>1, <1>4, <2>1, <2>2
<1>6. out' = tmp
  <2>1. ~(len - 1 < Len(tmp))
    BY <1>4
  <2>2. out' = SubSeq(tmp, 1, Len(tmp))
    BY <2>1 DEF CopyOut
  <2> QED BY <1>4, <2>2, SubSeqFull
<1> HIDE DEF len, e
<1> DEFINE S == WrittenNuls
<1>7. /\ e \in S
      /\ read_index = 0 \/ read_index - 1 \in S
      /\ \A x \in S : x < read_index \/ e <= x
  <2>1. e \in Cells
    BY <1>4, <1>5 DEF Cells
  <2>2. read_index = 0 \/ (read_index - 1 \in Cells /\ read_index - 1 < write_index)
    BY <1>4, <1>5 DEF Cells
  <2>3. \A x \in Cells : x < read_index \/ e <= x \/ (read_index <= x /\ x < e)
    BY <1>4, <1>5 DEF Cells
  <2> QED BY <1>4, <1>5, <2>1, <2>2, <2>3 DEF WrittenNuls, Nuls
<1>8. {x \in S : x < read_index} = Passed /\ {x \in S : x < e + 1} = Passed'
  <2>1. \A x \in Cells : /\ x < read_index => x < write_index
                         /\ x < e + 1 => x < write_index
    BY <1>4, <1>5 DEF Cells
  <2>2. Nuls' = Nuls
    BY <1>1 DEF Nuls, Cells
  <2> QED BY <1>5, <2>1, <2>2 DEF Passed, WrittenNuls, Nuls
<1> DEFINE pos == Cardinality(Passed) + 1
<1>9. /\ pos \in 1 .. Cardinality(S) /\ TextsOf(cookie_buf, S)[pos] = tmp
      /\ Cardinality(Passed') = pos
  <2>1. LET k == Cardinality({x \in S : x < read_index}) + 1
        IN  /\ k \in 1 .. Cardinality(S)
            /\ TextsOf(cookie_buf, S)[k] = Text(cookie_buf, read_index, e - 1)
            /\ Cardinality({x \in S : x < e + 1}) = k
    <3> HIDE DEF S
    <3>1. S \in SUBSET Nat /\ IsFiniteSet(S)
      BY NulsAreFinite DEF S
    <3>2. e \in S /\ read_index \in Nat /\ read_index <= e
          /\ (read_index = 0 \/ read_index - 1 \in S)
          /\ \A x \in S : x < read_index \/ e <= x
      BY <1>4, <1>5, <1>7
    <3> QED BY <3>1, <3>2, TextAt
  <2> QED BY <1>4, <1>8, <2>1
<1>10. WrittenNuls' = WrittenNuls /\ Cookies' = Cookies
  <2>1. WrittenNuls' = WrittenNuls
    BY <1>1 DEF WrittenNuls, Nuls, Cells
  <2> QED BY <1>1, <2>1, NulsAreFinite, CookiesAreTexts
<1>11. Ring!Read
  <2>1. Cookies[pos] = tmp /\ pos <= Len(Cookies)
    BY <1>9, NulsAreFinite, CookiesAreTexts, LenOfCookies
  <2> QED BY <1>1, <1>6, <1>9, <1>10, <2>1 DEF Ring!Read, Passed
<1>12. QED BY <1>1, <1>3, <1>10, <1>11 DEF RingInv, RingStep, Ring!Next

\* All steps together.
LEMMA StepIsRing ==
  ASSUME Exclusive, TurnInv, TurnInv', RingInv, [Next]_vars
  PROVE  RingInv' /\ RingStep
<1>1. ASSUME UNCHANGED <<mod, cookie_buf, read_index, write_index, tmp, pc, args, out, acked, oops>>
      PROVE  RingInv' /\ RingStep
  <2>1. WrittenNuls' = WrittenNuls /\ Passed' = Passed
    BY <1>1 DEF WrittenNuls, Passed, Nuls, Cells
  <2>2. Cookies' = Cookies
    BY <1>1, <2>1, NulsAreFinite, CookiesAreTexts
  <2>3. UNCHANGED Ring!vars
    BY <1>1, <2>1, <2>2 DEF Ring!vars, Passed
  <2>4. Cells' = Cells
    BY DEF Cells
  <2>5. WritersWrite' = WritersWrite /\ ReadersRead' = ReadersRead
    BY <1>1, <2>4 DEF WritersWrite, ReadersRead
  <2> QED BY <1>1, <2>1, <2>3, <2>5 DEF RingInv, RingStep
<1>2. ASSUME NEW p \in Procs, Open(p) PROVE RingInv' /\ RingStep
  BY <1>1, <1>2 DEF Open, module, indices, history
<1>3. ASSUME Dead \/ UNCHANGED vars PROVE RingInv' /\ RingStep
  BY <1>1, <1>3 DEF Dead, vars, module, indices, calls, history
<1>4. QED
  BY <1>2, <1>3, ModuleIsRing, WriteIsRing, CopyIsRing, AdvanceIsRing, SealIsRing,
     ReadIsRing, FormatIsRing, CopyOutIsRing DEF Next, Writer, Reader

\* With one call at a time a reader is in front of a whole text, a writer
\* behind the last one, and cookies are counted right.
THEOREM RingInvCorrect == Exclusive /\ Spec => []RingInv
<1> SUFFICES ASSUME Exclusive PROVE Spec => []RingInv
  OBVIOUS
<1>1. Init => RingInv
  <2> SUFFICES ASSUME Init PROVE RingInv
    OBVIOUS
  <2>1. \A p \in Procs : pc[p] = "idle"
    BY DEF Init
  <2> QED BY <2>1, EmptyRing DEF Init, RingInv, WritersWrite, ReadersRead
<1>2. TurnInv /\ TurnInv' /\ RingInv /\ [Next]_vars => RingInv'
  BY StepIsRing
<1>3. QED BY <1>1, <1>2, TurnInvCorrect, PTL DEF Spec

\* With one call at a time a write that returned its count is a cookie of its
\* own from then on (fortune.c:65-76).
THEOREM AcknowledgedCookiesKeptCorrect == Exclusive /\ Spec => []AcknowledgedCookiesKept
<1>1. RingInv => AcknowledgedCookiesKept
  BY LenOfCookies DEF RingInv, AcknowledgedCookiesKept
<1>2. QED BY <1>1, RingInvCorrect, PTL

\* With one call at a time the module is the ring: a write adds its cookie
\* behind all others when its NUL is put, a read takes the next one when it
\* is copied out, and the first after the last (fortune.c:52-76, 83-104).
THEOREM ImplementsRingCorrect == Exclusive /\ Spec => ImplementsRing
<1> SUFFICES ASSUME Exclusive PROVE Spec => ImplementsRing
  OBVIOUS
<1>1. Init => Ring!Init
  BY EmptyRing DEF Init, Ring!Init, Passed
<1>2. TurnInv /\ TurnInv' /\ RingInv /\ [Next]_vars => [Ring!Next]_(Ring!vars)
  BY StepIsRing DEF RingStep
<1>3. QED BY <1>1, <1>2, TurnInvCorrect, RingInvCorrect, PTL DEF Spec, ImplementsRing, Ring!Spec
=============================================================================
