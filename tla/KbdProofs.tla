----------------------------- MODULE KbdProofs -----------------------------
(***************************************************************************)
(* What TLAPS proves of KbdWorkqueue for any keys with names of any        *)
(* lengths, a buffer of any length, any memory behind it and interrupts at *)
(* any moment: names fit, the text ends where the cursor is, and a module  *)
(* that is unloaded leaves nothing behind.  Of keys no faster than the     *)
(* works: the buffer spells them, each once and in order.                  *)
(***************************************************************************)
EXTENDS KbdWorkqueue, SequenceTheorems, FiniteSetTheorems,
        WellFoundedInduction, TLAPS

-----------------------------------------------------------------------------
(***************************************************************************)
(* The end of the text.  A text ends at its first NUL, so there has to be  *)
(* a first one.                                                            *)
(***************************************************************************)
\* A set of natural numbers that is not empty has a least one.
LEMMA FirstExists ==
  ASSUME NEW S \in SUBSET Nat, S # {}
  PROVE  \E x \in S : \A y \in S : x <= y
<1> DEFINE Below == {0 .. x : x \in S}
           R == StrictSubsetOrdering(Nat)
<1>1. Below \subseteq FiniteSubsetsOf(Nat) /\ Below # {}
  <2>1. ASSUME NEW x \in S PROVE 0 .. x \in SUBSET Nat /\ IsFiniteSet(0 .. x)
    <3>1. x \in Int /\ 0 \in Int
      OBVIOUS
    <3> QED BY <3>1, FS_Interval
  <2> QED BY <2>1 DEF FiniteSubsetsOf
<1>2. PICK X \in Below : \A Y \in Below : <<Y, X>> \notin R
  BY <1>1, FS_StrictSubsetOrderingWellFounded, WFMin
<1>3. PICK x \in S : X = 0 .. x
  OBVIOUS
<1>4. ASSUME NEW y \in S, y < x PROVE FALSE
  <2>1. <<0 .. y, 0 .. x>> \notin R
    BY <1>2, <1>3
  <2>2. 0 .. y \subseteq 0 .. x /\ x \in 0 .. x /\ x \notin 0 .. y
    BY <1>4
  <2> QED BY <2>1, <2>2 DEF StrictSubsetOrdering
<1>5. QED BY <1>4

BufferTypes == info_last \in [InBuffer -> Chars]

\* x is where the text in the buffer ends.
IsEnd(x) ==
  /\ \A y \in 0 .. x - 1 : info_last[y] # NUL
  /\ x \in InBuffer => info_last[x] = NUL

\* The text in the buffer ends at the first NUL or with the buffer.
LEMMA TextEnds ==
  ASSUME BufferTypes
  PROVE  /\ Text \in Seq(Chars) /\ Len(Text) \in 0 .. MAX_INFO_LAST /\ IsEnd(Len(Text))
         /\ \A x \in 1 .. Len(Text) : Text[x] = info_last[x - 1]
<1> USE SizesAssumption DEF InBuffer
<1> DEFINE Nuls == {x \in InBuffer : info_last[x] = NUL}
           end == CHOOSE x \in 0 .. MAX_INFO_LAST : IsEnd(x)
<1>1. \E x \in 0 .. MAX_INFO_LAST : IsEnd(x)
  <2>1. CASE Nuls = {}
    <3>1. MAX_INFO_LAST \in 0 .. MAX_INFO_LAST /\ IsEnd(MAX_INFO_LAST)
      BY <2>1 DEF IsEnd
    <3> QED BY <3>1
  <2>2. CASE Nuls # {}
    <3>1. Nuls \in SUBSET Nat
      OBVIOUS
    <3>2. PICK x \in Nuls : \A y \in Nuls : x <= y
      BY <2>2, <3>1, FirstExists
    <3>3. x \in 0 .. MAX_INFO_LAST /\ IsEnd(x)
      BY <3>1, <3>2 DEF IsEnd
    <3> QED BY <3>3
  <2> QED BY <2>1, <2>2
<1>2. end \in 0 .. MAX_INFO_LAST /\ IsEnd(end)
  BY <1>1
<1>3. Text = [x \in 1 .. end |-> info_last[x - 1]]
  BY DEF Text, IsEnd
<1> HIDE DEF end
<1>4. \A x \in 1 .. end : info_last[x - 1] \in Chars
  BY <1>2 DEF BufferTypes
<1>5. [x \in 1 .. end |-> info_last[x - 1]] \in Seq(Chars)
  BY <1>2, <1>4, IsASeq
<1>6. Len([x \in 1 .. end |-> info_last[x - 1]]) = end
  BY <1>2
<1>7. \A x \in 1 .. end : Text[x] = info_last[x - 1]
  BY <1>3
<1>8. Len(Text) = end
  BY <1>3, <1>6
<1>9. QED BY <1>2, <1>3, <1>5, <1>7, <1>8

\* There is no other place where it ends.
LEMMA TextEndsOnce ==
  ASSUME BufferTypes, NEW x \in 0 .. MAX_INFO_LAST, IsEnd(x)
  PROVE  Len(Text) = x
<1>1. PICK end : end = Len(Text)
  OBVIOUS
<1>2. end \in 0 .. MAX_INFO_LAST /\ IsEnd(end)
  BY <1>1, TextEnds
<1>3. ~(end < x)
  BY <1>2, SizesAssumption DEF IsEnd, InBuffer
<1>4. ~(x < end)
  BY <1>2, SizesAssumption DEF IsEnd, InBuffer
<1>5. QED BY <1>1, <1>2, <1>3, <1>4, SizesAssumption

\* What a reader finds has at most the one character that stands for more.
LEMMA StringTypes ==
  ASSUME BufferTypes, NEW str \in Strings
  PROVE  str \in Seq(Chars) /\ Len(str) \in -1 .. MAX_INFO_LAST + 1
<1>1. Text \in Seq(Chars) /\ Len(Text) \in 0 .. MAX_INFO_LAST
  BY TextEnds
<1>2. Foreign \in Chars
  BY DEF Chars
<1>3. Append(Text, Foreign) \in Seq(Chars) /\ Len(Append(Text, Foreign)) = Len(Text) + 1
  BY <1>1, <1>2, AppendProperties
<1>4. str = Text \/ str = Append(Text, Foreign)
  BY DEF Strings
<1>5. QED BY <1>1, <1>3, <1>4, SizesAssumption

-----------------------------------------------------------------------------
(***************************************************************************)
(* The buffer.  The test in front of a copy (md.c:151) leaves room for the *)
(* whole name, so the copy stays in the buffer and only the NUL behind a   *)
(* name that fills it may be written outside.                              *)
(***************************************************************************)
\* The part of TypeOK that does not depend on the buffer
KernelTypes ==
  /\ mod \in Steps /\ irq \in BOOLEAN /\ proc \in BOOLEAN
  /\ my_wq \in {"null", "live", "destroyed", "damaged"}
  /\ port \in Codes
  /\ queued \subseteq Works /\ running \subseteq Works
  /\ typed \in Seq(Keys)
  /\ oops \in {"none", "no module", "null queue", "destroyed queue", "damaged queue",
              "unknown key"}

WorkTypes ==
  /\ wpc \in {"idle", "inb", "strlen", "copy"}
  /\ work \in [code : Codes, len : 0 .. MAX_INFO_LAST, i : 0 .. MAX_INFO_LAST]

CopyInv ==
  /\ curr_index \in 0 .. MAX_INFO_LAST
  /\ wpc = "strlen" => work.i = 0
  /\ wpc = "copy" => curr_index + (work.len - work.i) <= MAX_INFO_LAST /\ work.i <= work.len

ReportTypes == report \in [len : -1 .. MAX_INFO_LAST + 1, text : Seq(Chars)]

BufferInv == KernelTypes /\ WorkTypes /\ CopyInv /\ BufferTypes /\ ReportTypes

\* A scan code is that of a key or of none.
LEMMA CodeTypes ==
  /\ NoCode \in Codes
  /\ \A code \in Codes : code[1] \in Chars
<1>1. NoCode \in Codes /\ NoCode[1] \in Chars
  BY DEF Codes, NoCode, Chars
<1>2. ASSUME NEW k \in Keys \cup {Unknown}, NEW what \in {"pressed", "released"}
      PROVE  <<k, what>>[1] \in Chars
  BY DEF Chars
<1>3. QED BY <1>1, <1>2 DEF Codes

LEMMA NoWorkType ==
  NoWork \in [code : Codes, len : 0 .. MAX_INFO_LAST, i : 0 .. MAX_INFO_LAST]
  BY CodeTypes, SizesAssumption DEF NoWork

LEMMA NoReportType == NoReport \in [len : -1 .. MAX_INFO_LAST + 1, text : Seq(Chars)]
<1>1. <<>> \in Seq(Chars)
  OBVIOUS
<1>2. -1 \in -1 .. MAX_INFO_LAST + 1
  BY SizesAssumption
<1>3. QED BY <1>1, <1>2 DEF NoReport

\* A name has at least one character and at most as many as the buffer.
LEMMA NamesFit ==
  ASSUME NEW k \in Keys
  PROVE  /\ KeyLen[k] \in Nat /\ KeyLen[k] >= 1 /\ KeyLen[k] <= MAX_INFO_LAST
         /\ NameOf(k) \in Seq(Keys) /\ Len(NameOf(k)) = KeyLen[k]
         /\ \A x \in 1 .. KeyLen[k] : NameOf(k)[x] = k
<1>1. KeyLen[k] \in Nat /\ KeyLen[k] >= 1 /\ KeyLen[k] <= MAX_INFO_LAST
  BY SizesAssumption
<1>2. NameOf(k) \in Seq(Keys) /\ Len(NameOf(k)) = KeyLen[k]
  BY <1>1, IsASeq DEF NameOf
<1>3. QED BY <1>1, <1>2 DEF NameOf

\* A name whose length is known fits behind the cursor or at the start.
LEMMA CursorFits ==
  ASSUME NEW len \in 0 .. MAX_INFO_LAST, curr_index \in 0 .. MAX_INFO_LAST
  PROVE  Cursor(len) \in 0 .. MAX_INFO_LAST /\ Cursor(len) + len <= MAX_INFO_LAST
  BY SizesAssumption DEF Cursor

LEMMA ZeroedType == Zeroed \in [InBuffer -> Chars] /\ 0 \in 0 .. MAX_INFO_LAST
  BY SizesAssumption DEF Zeroed, Chars

\* Steps of others leave the buffer and the works alone.
LEMMA OthersKeepBuffer ==
  ASSUME BufferInv, KernelTypes', ReportTypes', UNCHANGED <<work, curr_index, info_last>>,
         wpc' = wpc \/ wpc' = "inb"
  PROVE  BufferInv'
  BY DEF BufferInv, WorkTypes, CopyInv, BufferTypes

\* The works read, measure and copy within the buffer.
LEMMA WorksKeepBuffer ==
  ASSUME BufferInv, Function1
  PROVE  BufferInv'
<1> USE DEF BufferInv
<1>1. KernelTypes'
  <2>1. UNCHANGED <<mod, irq, proc, port, queued, typed>>
    BY DEF Function1, ReadPort, MeasureKey, MeasureUnknown, CopyChar, Seal, module, queue
  <2>4. my_wq' = my_wq \/ my_wq' = "damaged"
    BY DEF Function1, ReadPort, MeasureKey, MeasureUnknown, CopyChar, Seal, MayDamage, module
  <2>2. running' \subseteq running
    BY DEF Function1, ReadPort, MeasureKey, MeasureUnknown, CopyChar, Seal, EndFunction1, queue
  <2>3. oops' = oops \/ oops' = "unknown key"
    BY DEF Function1, ReadPort, MeasureKey, MeasureUnknown, CopyChar, Seal
  <2> QED BY <2>1, <2>2, <2>3, <2>4 DEF KernelTypes
<1>2. ReportTypes'
  BY DEF ReportTypes, Function1, ReadPort, MeasureKey, MeasureUnknown, CopyChar, Seal
<1>3. CASE ReadPort
  <2>1. WorkTypes' /\ wpc' # "copy" /\ (wpc' = "strlen" => work'.i = 0)
    <3>1. CASE EndFunction1
      BY <3>1, NoWorkType DEF EndFunction1, WorkTypes
    <3>2. CASE work' = [NoWork EXCEPT !.code = port] /\ wpc' = "strlen"
      <4>1. port \in Codes /\ NoWork.i = 0
        BY DEF KernelTypes, NoWork
      <4> QED BY <3>2, <4>1, NoWorkType DEF WorkTypes
    <3> QED BY <1>3, <3>1, <3>2 DEF ReadPort
  <2>2. UNCHANGED <<curr_index, info_last>>
    BY <1>3 DEF ReadPort, buffer
  <2> QED BY <1>1, <1>2, <2>1, <2>2 DEF CopyInv, BufferTypes
<1>4. ASSUME NEW len \in 0 .. MAX_INFO_LAST, wpc = "strlen", wpc' = "copy",
             work' = [work EXCEPT !.len = len],
             curr_index' = Cursor(len), info_last' = info_last
      PROVE  BufferInv'
  <2>1. WorkTypes' /\ work'.len = len /\ work'.i = 0
    BY <1>4 DEF WorkTypes, CopyInv
  <2>2. CopyInv'
    BY <1>4, <2>1, CursorFits DEF CopyInv
  <2> QED BY <1>1, <1>2, <1>4, <2>1, <2>2 DEF BufferTypes
<1>5. CASE MeasureKey
  <2>1. KeyLen[work.code[1]] \in 0 .. MAX_INFO_LAST
    BY <1>5, SizesAssumption DEF MeasureKey
  <2>2. work' = [work EXCEPT !.len = KeyLen[work.code[1]]] /\ work'.len = KeyLen[work.code[1]]
    BY <1>5 DEF MeasureKey, WorkTypes
  <2> QED BY <1>4, <1>5, <2>1, <2>2 DEF MeasureKey
<1>6. CASE MeasureUnknown
  <2>1. CASE oops' = "unknown key" /\ UNCHANGED <<work, curr_index, wpc>>
    BY <1>1, <1>2, <1>6, <2>1 DEF MeasureUnknown, WorkTypes, CopyInv, BufferTypes
  <2>2. ASSUME NEW n \in 0 .. MAX_INFO_LAST, work' = [work EXCEPT !.len = n],
               curr_index' = Cursor(work'.len), wpc' = "copy"
        PROVE  BufferInv'
    <3>1. work'.len = n
      BY <2>2 DEF WorkTypes
    <3> QED BY <1>4, <1>6, <2>2, <3>1 DEF MeasureUnknown
  <2> QED BY <1>6, <2>1, <2>2 DEF MeasureUnknown
<1>7. CASE CopyChar
  <2>1. work.code[1] \in Chars
    BY CodeTypes DEF WorkTypes
  <2>2. /\ wpc = "copy" /\ work.i < work.len /\ wpc' = wpc
        /\ work.i \in Int /\ work.len \in 0 .. MAX_INFO_LAST
        /\ work' = [work EXCEPT !.i = @ + 1] /\ curr_index' = curr_index + 1
        /\ info_last' = [info_last EXCEPT ![curr_index] = work.code[1]]
    BY <1>7 DEF CopyChar, WorkTypes
  <2>3. curr_index < MAX_INFO_LAST /\ curr_index \in 0 .. MAX_INFO_LAST
    BY <2>2, SizesAssumption DEF CopyInv
  <2>4. BufferTypes'
    BY <2>1, <2>2, <2>3, SizesAssumption DEF BufferTypes, InBuffer
  <2>5. WorkTypes' /\ work'.i = work.i + 1 /\ work'.len = work.len
    BY <2>2, SizesAssumption DEF WorkTypes
  <2>6. CopyInv'
    BY <2>2, <2>3, <2>5, SizesAssumption DEF CopyInv
  <2> QED BY <1>1, <1>2, <2>4, <2>5, <2>6
<1>8. CASE Seal
  <2>1. wpc' = "idle" /\ work' = NoWork /\ curr_index' = curr_index /\ info_last' = Terminated
    BY <1>8 DEF Seal, EndFunction1
  <2>2. WorkTypes' /\ CopyInv'
    BY <2>1, NoWorkType DEF WorkTypes, CopyInv
  <2>3. BufferTypes'
    BY <2>1 DEF Terminated, BufferTypes, Chars
  <2> QED BY <1>1, <1>2, <2>2, <2>3
<1>9. QED BY <1>3, <1>5, <1>6, <1>7, <1>8 DEF Function1

\* The buffer holds what it should hold at every step of the works.
THEOREM BufferInvCorrect == Spec => []BufferInv
<1> USE DEF module, queue, buffer
<1>1. Init => BufferInv
  <2> SUFFICES ASSUME Init PROVE BufferInv
    OBVIOUS
  <2>1. KernelTypes
    <3>1. port \in Codes
      BY CodeTypes DEF Init
    <3>2. typed \in Seq(Keys)
      BY DEF Init
    <3>3. mod \in Steps /\ irq \in BOOLEAN /\ proc \in BOOLEAN /\ my_wq \in {"null", "live", "destroyed", "damaged"}
      BY DEF Init, Steps
    <3>4. queued \subseteq Works /\ running \subseteq Works
      BY DEF Init
    <3>5. oops = "none"
      BY DEF Init
    <3> QED BY <3>1, <3>2, <3>3, <3>4, <3>5 DEF KernelTypes
  <2>2. WorkTypes /\ CopyInv /\ BufferTypes /\ ReportTypes
    BY NoWorkType, NoReportType, ZeroedType
       DEF Init, WorkTypes, CopyInv, BufferTypes, ReportTypes
  <2> QED BY <2>1, <2>2 DEF BufferInv
<1>2. BufferInv /\ [Next]_vars => BufferInv'
  <2> SUFFICES ASSUME BufferInv, [Next]_vars PROVE BufferInv'
    OBVIOUS
  <2>1. CASE Load
    <3>1. KernelTypes' /\ ReportTypes' /\ WorkTypes'
      <4>1. typed' \in Seq(Keys)
        BY <2>1 DEF Load
      <4>2. mod' \in Steps /\ my_wq' \in {"null", "live", "destroyed", "damaged"}
        BY <2>1 DEF Load, Steps
      <4>3. UNCHANGED <<irq, proc, port, queued, running, wpc, work, report, oops>>
        BY <2>1 DEF Load
      <4> QED BY <4>1, <4>2, <4>3 DEF BufferInv, KernelTypes, ReportTypes, WorkTypes
    <3>2. BufferTypes'
      BY <2>1, ZeroedType DEF Load, BufferTypes
    <3>3. CopyInv'
      <4>1. wpc' = wpc /\ work' = work /\ curr_index' = 0
        BY <2>1 DEF Load
      <4>2. work.len \in Int /\ work.i \in Int /\ curr_index \in 0 .. MAX_INFO_LAST
        BY DEF BufferInv, WorkTypes, CopyInv
      <4> QED BY <4>1, <4>2, SizesAssumption DEF BufferInv, CopyInv
    <3> QED BY <3>1, <3>2, <3>3 DEF BufferInv
  <2>2. CASE RequestIrq \/ CreateWorkqueue \/ ProcCreate
             \/ Unload \/ FlushWorkqueue \/ DestroyWorkqueue \/ FreeIrq
    <3>1. Quiet
      BY <2>2 DEF RequestIrq, CreateWorkqueue, ProcCreate, Unload, FlushWorkqueue,
         DestroyWorkqueue, FreeIrq
    <3>2. KernelTypes'
      BY <2>2, <3>1 DEF RequestIrq, CreateWorkqueue, ProcCreate, Unload, FlushWorkqueue,
         DestroyWorkqueue, FreeIrq, Quiet, KernelTypes, Steps, BufferInv
    <3> QED BY <3>1, <3>2, OthersKeepBuffer DEF Quiet, BufferInv, ReportTypes
  <2>3. CASE RemoveProcEntry
    <3>1. KernelTypes' /\ ReportTypes'
      BY <2>3, NoReportType DEF RemoveProcEntry, BufferInv, KernelTypes, ReportTypes, Steps
    <3> QED BY <2>3, <3>1, OthersKeepBuffer DEF RemoveProcEntry
  <2>4. ASSUME NEW k \in Presses, NEW what \in {"pressed", "released"}, Interrupt(k, what)
        PROVE  BufferInv'
    <3>1. port' \in Codes
      BY <2>4, KeysAssumption DEF Interrupt, Codes
    <3>2. typed' \in Seq(Keys)
      <4>1. typed \in Seq(Keys) /\ (k \in Keys => NameOf(k) \in Seq(Keys))
        BY NamesFit DEF BufferInv, KernelTypes
      <4>2. k \in Keys => typed \o NameOf(k) \in Seq(Keys)
        BY <4>1, ConcatProperties
      <4>3. Remembered(k) \in Seq(Keys)
        BY <4>1, <4>2 DEF Remembered
      <4> QED BY <2>4, <4>1, <4>3 DEF Interrupt
    <3>3. oops' \in {"none", "no module", "null queue", "destroyed queue", "damaged queue"}
      BY <2>4 DEF Interrupt, HandlerDiesOf
    <3>4. queued' \subseteq Works
      BY <2>4 DEF Interrupt, BufferInv, KernelTypes
    <3>5. KernelTypes' /\ ReportTypes'
      BY <2>4, <3>1, <3>2, <3>3, <3>4 DEF Interrupt, BufferInv, KernelTypes, ReportTypes
    <3> QED BY <2>4, <3>5, OthersKeepBuffer DEF Interrupt
  <2>5. ASSUME NEW w \in Works, Start(w) PROVE BufferInv'
    <3>1. KernelTypes' /\ ReportTypes'
      BY <2>5 DEF Start, BufferInv, KernelTypes, ReportTypes
    <3> QED BY <2>5, <3>1, OthersKeepBuffer DEF Start
  <2>6. CASE Function1
    BY <2>6, WorksKeepBuffer
  <2>7. CASE Function2
    <3>1. KernelTypes' /\ ReportTypes'
      BY <2>7 DEF Function2, BufferInv, KernelTypes, ReportTypes
    <3> QED BY <2>7, <3>1, OthersKeepBuffer DEF Function2
  <2>8. CASE UseDamaged
    <3>1. KernelTypes' /\ ReportTypes'
      BY <2>8 DEF UseDamaged, BufferInv, KernelTypes, ReportTypes
    <3> QED BY <2>8, <3>1, OthersKeepBuffer DEF UseDamaged
  <2>9. CASE ShowLength \/ ShowText \/ CloseProc
    <3>1. ASSUME NEW str \in Strings
          PROVE  str \in Seq(Chars) /\ Len(str) \in -1 .. MAX_INFO_LAST + 1
      BY StringTypes DEF BufferInv
    <3>2. <<NUL>> \in Seq(Chars)
      BY DEF Chars
    <3>3. ReportTypes'
      <4>1. CASE ShowLength
        BY <3>1, <3>2, <4>1 DEF ShowLength, ReportTypes
      <4>2. CASE ShowText
        BY <3>1, <4>2 DEF ShowText, BufferInv, ReportTypes
      <4>3. CASE CloseProc
        BY <4>3, NoReportType DEF CloseProc, ReportTypes
      <4> QED BY <2>9, <4>1, <4>2, <4>3
    <3>4. KernelTypes' /\ UNCHANGED <<wpc, work, curr_index, info_last>>
      BY <2>9 DEF ShowLength, ShowText, CloseProc, BufferInv, KernelTypes
    <3> QED BY <3>3, <3>4, OthersKeepBuffer
  <2>10. CASE Dead \/ UNCHANGED vars
    BY <2>10 DEF Dead, vars, BufferInv, KernelTypes, WorkTypes, CopyInv, BufferTypes, ReportTypes
  <2> QED BY <2>1, <2>2, <2>3, <2>4, <2>5, <2>6, <2>7, <2>8, <2>9, <2>10
     DEF Next, Exit, Kernel, Reader
<1>3. QED BY <1>1, <1>2, PTL DEF Spec

\* The variables keep their types, the cursor its place in the buffer.
THEOREM TypeCorrect == Spec => []TypeOK
<1>1. BufferInv => TypeOK
  BY DEF BufferInv, KernelTypes, WorkTypes, CopyInv, BufferTypes, ReportTypes, TypeOK
<1>2. QED BY <1>1, BufferInvCorrect, PTL

\* What is left of a name fits in front of the end (md.c:151-159).
THEOREM NameFitsCorrect == Spec => []NameFits
<1>1. BufferInv => NameFits
  BY DEF BufferInv, CopyInv, NameFits
<1>2. QED BY <1>1, BufferInvCorrect, PTL

(***************************************************************************)
(* The end of the text.  No character of a name is a NUL, so all in front  *)
(* of the cursor belongs to the text; and a name that left room was closed *)
(* where the cursor is.                                                    *)
(***************************************************************************)
CursorInv ==
  /\ \A x \in 0 .. curr_index - 1 : info_last[x] # NUL
  /\ wpc # "copy" /\ curr_index < MAX_INFO_LAST => info_last[curr_index] = NUL
  /\ wpc \in {"strlen", "copy"} => work.code[1] # NUL
  /\ wpc # "idle" => "my_work" \in running

\* Steps of others leave the text and the works alone.
LEMMA OthersKeepCursor ==
  ASSUME CursorInv, UNCHANGED <<wpc, work, curr_index, info_last>>,
         "my_work" \in running => "my_work" \in running'
  PROVE  CursorInv'
  BY DEF CursorInv

\* A key that is pressed has a code.
LEMMA PressedCode ==
  ASSUME NEW code \in Codes, code[2] = "pressed"
  PROVE  code[1] # NUL
<1>1. code \in (Keys \cup {Unknown}) \X {"pressed", "released"}
  BY DEF Codes, NoCode
<1>2. QED BY <1>1, KeysAssumption

\* The works put no NUL in front of the cursor, and one where they leave it.
LEMMA WorksKeepCursor ==
  ASSUME BufferInv, CursorInv, Function1
  PROVE  CursorInv'
<1> USE SizesAssumption DEF CursorInv
<1>1. /\ curr_index \in 0 .. MAX_INFO_LAST /\ info_last \in [InBuffer -> Chars]
      /\ work \in [code : Codes, len : 0 .. MAX_INFO_LAST, i : 0 .. MAX_INFO_LAST]
      /\ port \in Codes
  BY DEF BufferInv, CopyInv, BufferTypes, WorkTypes, KernelTypes
<1>2. CASE ReadPort
  <2>1. UNCHANGED <<curr_index, info_last>> /\ wpc = "inb"
    BY <1>2 DEF ReadPort, buffer
  <2>2. CASE EndFunction1
    BY <2>1, <2>2 DEF EndFunction1
  <2>3. CASE port[2] = "pressed" /\ work' = [NoWork EXCEPT !.code = port] /\ wpc' = "strlen"
             /\ running' = running
    <3>1. work'.code = port
      BY <2>3 DEF NoWork
    <3>2. work'.code[1] # NUL
      BY <1>1, <2>3, <3>1, PressedCode
    <3> QED BY <2>1, <2>3, <3>2
  <2> QED BY <1>2, <2>2, <2>3 DEF ReadPort
<1>3. ASSUME NEW len \in 0 .. MAX_INFO_LAST, wpc = "strlen", wpc' = "copy",
             work' = [work EXCEPT !.len = len], curr_index' = Cursor(len),
             UNCHANGED <<info_last, running>>
      PROVE  CursorInv'
  <2>1. work'.code = work.code
    BY <1>1, <1>3
  <2>2. curr_index' = 0 \/ curr_index' = curr_index
    BY <1>3 DEF Cursor
  <2> QED BY <1>1, <1>3, <2>1, <2>2
<1>4. CASE MeasureKey
  <2>1. KeyLen[work.code[1]] \in 0 .. MAX_INFO_LAST
    BY <1>4 DEF MeasureKey
  <2>2. work' = [work EXCEPT !.len = KeyLen[work.code[1]]] /\ work'.len = KeyLen[work.code[1]]
    BY <1>1, <1>4 DEF MeasureKey
  <2> QED BY <1>3, <1>4, <2>1, <2>2 DEF MeasureKey, queue
<1>5. CASE MeasureUnknown
  <2>1. CASE UNCHANGED <<work, curr_index, wpc>>
    BY <1>5, <2>1 DEF MeasureUnknown, queue
  <2>2. ASSUME NEW n \in 0 .. MAX_INFO_LAST, work' = [work EXCEPT !.len = n],
               curr_index' = Cursor(work'.len), wpc' = "copy"
        PROVE  CursorInv'
    <3>1. work'.len = n
      BY <1>1, <2>2
    <3> QED BY <1>3, <1>5, <2>2, <3>1 DEF MeasureUnknown, queue
  <2> QED BY <1>5, <2>1, <2>2 DEF MeasureUnknown
<1>6. CASE CopyChar
  <2>1. /\ wpc = "copy" /\ wpc' = "copy" /\ curr_index' = curr_index + 1
        /\ info_last' = [info_last EXCEPT ![curr_index] = work.code[1]]
        /\ work' = [work EXCEPT !.i = @ + 1] /\ running' = running
    BY <1>6 DEF CopyChar, queue
  <2>2. work'.code = work.code /\ work.code[1] # NUL
    BY <1>1, <2>1
  <2>3. work.i < work.len /\ curr_index + (work.len - work.i) <= MAX_INFO_LAST
    BY <1>6, <2>1 DEF CopyChar, BufferInv, CopyInv
  <2>4. curr_index < MAX_INFO_LAST
    BY <1>1, <2>3
  <2>5. \A x \in 0 .. curr_index : info_last'[x] # NUL
    BY <1>1, <2>1, <2>2, <2>4 DEF InBuffer
  <2>6. \A x \in 0 .. curr_index' - 1 : info_last'[x] # NUL
    BY <1>1, <2>1, <2>5
  <2> QED BY <2>1, <2>2, <2>6
<1>7. CASE Seal
  <2>1. /\ wpc' = "idle" /\ curr_index' = curr_index /\ info_last' = Terminated
    BY <1>7 DEF Seal, EndFunction1
  <2> QED BY <1>1, <2>1 DEF Terminated, InBuffer
<1>8. QED BY <1>2, <1>4, <1>5, <1>6, <1>7 DEF Function1

\* The text ends where the cursor is, whatever the works have done.
THEOREM CursorInvCorrect == Spec => []CursorInv
<1> USE DEF module, queue, buffer
<1>1. Init => CursorInv
  BY SizesAssumption DEF Init, CursorInv, Zeroed, InBuffer
<1>2. BufferInv /\ CursorInv /\ [Next]_vars => CursorInv'
  <2> SUFFICES ASSUME BufferInv, CursorInv, [Next]_vars PROVE CursorInv'
    OBVIOUS
  <2>1. CASE Load
    <3>1. /\ curr_index' = 0 /\ info_last' = Zeroed /\ UNCHANGED <<wpc, work, running>>
      BY <2>1 DEF Load
    <3> QED BY <3>1, SizesAssumption DEF CursorInv, Zeroed, InBuffer
  <2>2. ASSUME NEW w \in Works, Start(w) PROVE CursorInv'
    <3>1. UNCHANGED <<work, curr_index, info_last>> /\ ("my_work" \in running' \/ w # "my_work")
      BY <2>2 DEF Start
    <3>2. CASE w = "my_work"
      <4>1. wpc = "idle" /\ wpc' = "inb" /\ "my_work" \in running'
        BY <2>2, <3>2 DEF Start, CursorInv
      <4>2. UNCHANGED <<work, curr_index, info_last>>
        BY <2>2 DEF Start
      <4> QED BY <4>1, <4>2 DEF CursorInv
    <3>3. CASE w # "my_work"
      BY <2>2, <3>3, OthersKeepCursor DEF Start
    <3> QED BY <3>2, <3>3
  <2>3. CASE Function1
    BY <2>3, WorksKeepCursor
  <2>4. CASE RequestIrq \/ CreateWorkqueue \/ ProcCreate \/ Exit \/ Function2
             \/ ShowLength \/ Reader \/ Dead \/ UNCHANGED vars
    <3>1. UNCHANGED <<wpc, work, curr_index, info_last>>
      BY <2>4 DEF RequestIrq, CreateWorkqueue, ProcCreate, Exit, Unload, UseDamaged,
         FlushWorkqueue, DestroyWorkqueue, FreeIrq, RemoveProcEntry, Quiet, Function2,
         ShowLength, Reader, ShowText, CloseProc, Dead, vars
    <3>2. "my_work" \in running => "my_work" \in running'
      BY <2>4 DEF RequestIrq, CreateWorkqueue, ProcCreate, Exit, Unload, UseDamaged,
         FlushWorkqueue, DestroyWorkqueue, FreeIrq, RemoveProcEntry, Quiet, Function2,
         ShowLength, Reader, ShowText, CloseProc, Dead, vars
    <3> QED BY <3>1, <3>2, OthersKeepCursor
  <2>5. ASSUME NEW k \in Presses, NEW what \in {"pressed", "released"}, Interrupt(k, what)
        PROVE  CursorInv'
    BY <2>5, OthersKeepCursor DEF Interrupt
  <2> QED BY <2>1, <2>2, <2>3, <2>4, <2>5 DEF Next, Kernel
<1>3. QED BY <1>1, <1>2, BufferInvCorrect, PTL DEF Spec

\* The text reaches up to the cursor, and ends there when no name is being
\* copied and the last one left room (md.c:151-160, read at md.c:186).
THEOREM TextReachesCursorCorrect == Spec => []TextReachesCursor
<1>1. BufferInv /\ CursorInv => TextReachesCursor
  <2> SUFFICES ASSUME BufferInv, CursorInv PROVE TextReachesCursor
    OBVIOUS
  <2>1. BufferTypes /\ curr_index \in 0 .. MAX_INFO_LAST
    BY DEF BufferInv, CopyInv
  <2>2. PICK end : end = Len(Text)
    OBVIOUS
  <2>3. end \in 0 .. MAX_INFO_LAST /\ IsEnd(end)
    BY <2>1, <2>2, TextEnds
  <2>4. end >= curr_index
    BY <2>1, <2>3, SizesAssumption DEF IsEnd, CursorInv, InBuffer
  <2>5. ASSUME wpc # "copy", curr_index < MAX_INFO_LAST PROVE Len(Text) = curr_index
    <3>1. IsEnd(curr_index)
      BY <2>5 DEF IsEnd, CursorInv
    <3> QED BY <2>1, <3>1, TextEndsOnce
  <2> QED BY <2>2, <2>4, <2>5 DEF TextReachesCursor
<1>2. QED BY <1>1, BufferInvCorrect, CursorInvCorrect, PTL

-----------------------------------------------------------------------------
(***************************************************************************)
(* Loading and unloading.  Works are queued only by a handler that finds a *)
(* queue; from the end of the flush to the end of the module there is none *)
(* that could be found.                                                    *)
(***************************************************************************)
NoWorks == queued = {} /\ running = {}

LoadInv ==
  /\ mod \in {"absent", "request_irq", "remove_proc_entry"} => ~irq
  /\ mod \in {"absent", "request_irq", "create_workqueue", "free_irq", "remove_proc_entry"} =>
       NoWorks
  /\ mod \in {"absent", "request_irq", "create_workqueue", "proc_create"} => ~proc
  /\ mod \in {"request_irq", "create_workqueue"} => my_wq = "null"
  /\ mod \in {"free_irq", "remove_proc_entry"} => my_wq = "destroyed"
  /\ mod = "absent" => my_wq \notin {"live", "damaged"}

\* Each step of md_init() and md_exit() finds what the one before it left.
THEOREM LoadInvCorrect == "proc_create" \notin MayFail /\ Spec => []LoadInv
<1> SUFFICES ASSUME "proc_create" \notin MayFail PROVE Spec => []LoadInv
  OBVIOUS
<1> USE DEF module, queue, NoWorks
<1>1. Init => LoadInv
  BY DEF Init, LoadInv
<1>2. LoadInv /\ [Next]_vars => LoadInv'
  <2> SUFFICES ASSUME LoadInv, [Next]_vars PROVE LoadInv'
    OBVIOUS
  <2> USE DEF LoadInv
  <2>1. CASE Load \/ RequestIrq \/ CreateWorkqueue \/ ProcCreate
    BY <2>1 DEF Load, RequestIrq, CreateWorkqueue, ProcCreate, Quiet, At
  <2>2. CASE Exit
    <3>1. CASE Unload \/ UseDamaged
      BY <3>1 DEF Unload, UseDamaged, Quiet, At
    <3>2. CASE FlushWorkqueue \/ DestroyWorkqueue
      BY <3>2 DEF FlushWorkqueue, DestroyWorkqueue, Quiet, At, Drained
    <3>3. CASE FreeIrq \/ RemoveProcEntry
      BY <3>3 DEF FreeIrq, RemoveProcEntry, Quiet, At
    <3> QED BY <2>2, <3>1, <3>2, <3>3 DEF Exit
  <2>3. ASSUME NEW k \in Presses, NEW what \in {"pressed", "released"}, Interrupt(k, what)
        PROVE  LoadInv'
    BY <2>3 DEF Interrupt, HandlerDiesOf
  <2>4. ASSUME NEW w \in Works, Start(w) PROVE LoadInv'
    BY <2>4 DEF Start
  <2>5. CASE Function1 \/ Function2
    <3>1. UNCHANGED <<mod, irq, proc, queued>>
      BY <2>5 DEF Function1, ReadPort, MeasureKey, MeasureUnknown, CopyChar, Seal, Function2
    <3>3. my_wq' = my_wq \/ (my_wq = "live" /\ my_wq' = "damaged")
      BY <2>5 DEF Function1, ReadPort, MeasureKey, MeasureUnknown, CopyChar, Seal, MayDamage,
         Function2
    <3>2. running' \subseteq running
      BY <2>5 DEF Function1, ReadPort, MeasureKey, MeasureUnknown, CopyChar, Seal, EndFunction1,
         Function2
    <3> QED BY <3>1, <3>2, <3>3
  <2>6. CASE ShowLength \/ Reader
    BY <2>6 DEF ShowLength, Reader, ShowText, CloseProc
  <2>7. CASE Dead \/ UNCHANGED vars
    BY <2>7 DEF Dead, vars
  <2> QED BY <2>1, <2>2, <2>3, <2>4, <2>5, <2>6, <2>7 DEF Next, Kernel
<1>3. QED BY <1>1, <1>2, PTL DEF Spec

\* When proc_create() does not fail, a module that is gone has left no
\* handler, no file, no queue and no work (md.c:225-276).
THEOREM NothingLeftBehindCorrect ==
  "proc_create" \notin MayFail /\ Spec => []NothingLeftBehind
<1>1. LoadInv => NothingLeftBehind
  BY DEF LoadInv, NothingLeftBehind, NoWorks
<1>2. QED BY <1>1, LoadInvCorrect, PTL

-----------------------------------------------------------------------------
(***************************************************************************)
(* The text.  While keys come no faster than the works end, the buffer     *)
(* holds what was typed up to the cursor, and what is typed beyond it is   *)
(* the rest of the name of the one key that is on its way: in the port,    *)
(* then in the scan code the work has read, then half copied.              *)
(***************************************************************************)
PacedKeys == Paced /\ Presses \subseteq Keys

Awaited == wpc # "idle" \/ "my_work" \in queued

\* The first n characters of the buffer are those of typed.
Holds(n) == \A x \in 0 .. n - 1 : info_last[x] = typed[x + 1]

\* The text ends with the name of k, which starts at index first.
EndsWith(k, first) ==
  /\ k \in Keys
  /\ Len(typed) = first + KeyLen[k]
  /\ \A x \in first + 1 .. Len(typed) : typed[x] = k

\* Nothing is on its way: the buffer spells what was typed.
Spelt ==
  /\ Holds(Len(typed)) /\ curr_index = Len(typed)
  /\ Len(typed) < MAX_INFO_LAST => info_last[Len(typed)] = NUL

\* The name of k will be copied to where the test at md.c:151 puts it.
Pending(k) == k \in Keys /\ EndsWith(k, Cursor(KeyLen[k])) /\ Holds(Cursor(KeyLen[k]))

InPort == wpc = "inb" \/ (wpc = "idle" /\ "my_work" \in queued)

TypedInv ==
  /\ Len(typed) <= MAX_INFO_LAST
  /\ "my_work" \in running <=> wpc # "idle"
  /\ ~Awaited => Spelt
  /\ InPort => IF port[2] = "pressed" THEN Pending(port[1]) ELSE Spelt
  /\ wpc # "idle" => "my_work" \notin queued
  /\ wpc = "strlen" => Pending(work.code[1]) /\ work.i = 0
  /\ wpc = "copy" => /\ EndsWith(work.code[1], curr_index - work.i)
                     /\ work.len = KeyLen[work.code[1]] /\ work.i <= work.len
                     /\ Holds(curr_index)

\* A buffer that spells what was typed shows just that: no character of a
\* name is a NUL, so the first NUL is the one behind the last name.
LEMMA SpeltIsText ==
  ASSUME BufferInv, Len(typed) <= MAX_INFO_LAST, Spelt
  PROVE  Text = typed
<1> USE SizesAssumption
<1>1. typed \in Seq(Keys) /\ Len(typed) \in 0 .. MAX_INFO_LAST /\ BufferTypes
  <2>1. typed \in Seq(Keys) /\ BufferTypes
    BY DEF BufferInv, KernelTypes
  <2> QED BY <2>1, LenProperties
<1>2. \A x \in 1 .. Len(typed) : typed[x] # NUL
  BY <1>1, ElementOfSeq, KeysAssumption
<1>3. \A x \in 1 .. Len(typed) : info_last[x - 1] = typed[x]
  <2> SUFFICES ASSUME NEW x \in 1 .. Len(typed) PROVE info_last[x - 1] = typed[x]
    OBVIOUS
  <2>1. x - 1 \in 0 .. Len(typed) - 1 /\ (x - 1) + 1 = x
    BY <1>1
  <2> QED BY <2>1 DEF Spelt, Holds
<1>4. \A y \in 0 .. Len(typed) - 1 : info_last[y] # NUL
  BY <1>1, <1>2 DEF Spelt, Holds
<1>5. IsEnd(Len(typed))
  BY <1>1, <1>4 DEF IsEnd, Spelt, InBuffer
<1>6. Len(Text) = Len(typed)
  BY <1>1, <1>5, TextEndsOnce
<1>7. Text \in Seq(Chars) /\ \A x \in 1 .. Len(Text) : Text[x] = info_last[x - 1]
  BY <1>1, TextEnds
<1>8. \A x \in 1 .. Len(typed) : Text[x] = typed[x]
  BY <1>3, <1>6, <1>7
<1>9. typed \in Seq(Chars)
  BY <1>1 DEF Chars
<1>10. QED BY <1>6, <1>7, <1>8, <1>9, SeqEqual

\* The key that is logged next is put where the test in front of the copy
\* will put it, and what stays in front of it is in the buffer.
LEMMA KeyBecomesPending ==
  ASSUME BufferInv, Len(typed) <= MAX_INFO_LAST, Spelt, NEW k \in Keys,
         typed' = Remembered(k), UNCHANGED buffer
  PROVE  Len(typed)' <= MAX_INFO_LAST /\ Pending(k)'
<1> DEFINE len == KeyLen[k]
           name == NameOf(k)
           first == Cursor(len)
<1>1. /\ len \in Nat /\ len >= 1 /\ len <= MAX_INFO_LAST /\ MAX_INFO_LAST \in Nat
      /\ name \in Seq(Keys) /\ Len(name) = len /\ \A x \in 1 .. len : name[x] = k
  BY NamesFit, SizesAssumption
<1>2. typed \in Seq(Keys) /\ Len(typed) \in Nat /\ curr_index = Len(typed)
  BY LenProperties DEF BufferInv, KernelTypes, Spelt
<1>3. UNCHANGED <<curr_index, info_last>> /\ first' = first
  BY DEF buffer, Cursor
<1> HIDE DEF name
<1>4. CASE Len(typed) + len > MAX_INFO_LAST
  <2>1. typed' = name /\ first = 0
    BY <1>2, <1>4 DEF Remembered, Cursor, name
  <2> QED BY <1>1, <1>3, <2>1 DEF Pending, EndsWith, Holds
<1>5. CASE ~(Len(typed) + len > MAX_INFO_LAST)
  <2>1. typed' = typed \o name /\ first = Len(typed)
    BY <1>2, <1>5 DEF Remembered, Cursor, name
  <2>2. /\ Len(typed') = Len(typed) + len
        /\ \A x \in 1 .. Len(typed') :
             typed'[x] = IF x <= Len(typed) THEN typed[x] ELSE name[x - Len(typed)]
    <3>1. /\ Len(typed \o name) = Len(typed) + Len(name)
          /\ \A x \in 1 .. Len(typed) + Len(name) :
               (typed \o name)[x] = IF x <= Len(typed) THEN typed[x] ELSE name[x - Len(typed)]
      BY <1>1, <1>2, ConcatProperties
    <3> QED BY <1>1, <2>1, <3>1
  <2>3. EndsWith(k, first)'
    <3>1. ASSUME NEW x \in first + 1 .. Len(typed') PROVE typed'[x] = k
      <4>1. x - Len(typed) \in 1 .. len /\ x \in 1 .. Len(typed') /\ ~(x <= Len(typed))
        BY <1>1, <1>2, <2>1, <2>2
      <4> QED BY <1>1, <2>2, <4>1
    <3> QED BY <1>3, <2>1, <2>2, <3>1 DEF EndsWith
  <2>4. Holds(first)'
    <3>1. ASSUME NEW x \in 0 .. first - 1 PROVE info_last[x] = typed'[x + 1]
      <4>1. x + 1 \in 1 .. Len(typed') /\ x + 1 <= Len(typed) /\ x \in 0 .. Len(typed) - 1
        BY <1>1, <1>2, <2>1, <2>2
      <4> QED BY <2>2, <4>1 DEF Spelt, Holds
    <3> QED BY <1>3, <3>1 DEF Holds
  <2> QED BY <1>1, <1>2, <1>3, <1>5, <2>2, <2>3, <2>4 DEF Pending
<1>6. QED BY <1>4, <1>5

\* What is shown of the buffer is what was typed unless my_work has yet to run.
LEMMA OthersKeepText ==
  ASSUME TypedInv, UNCHANGED <<port, wpc, work, buffer, typed>>,
         "my_work" \in queued <=> "my_work" \in queued',
         "my_work" \in running <=> "my_work" \in running'
  PROVE  TypedInv'
  BY DEF TypedInv, Awaited, Spelt, Holds, InPort, Pending, EndsWith, Cursor, buffer

\* my_work starts with the key in the port.
LEMMA StartKeepsText ==
  ASSUME BufferInv, TypedInv, NEW w \in Works, Start(w)
  PROVE  TypedInv'
<1>1. CASE w = "my_work"
  <2>1. /\ wpc = "idle" /\ "my_work" \in queued /\ wpc' = "inb"
        /\ "my_work" \notin queued' /\ "my_work" \in running'
        /\ UNCHANGED <<port, work, buffer, typed>>
    BY <1>1 DEF Start, TypedInv
  <2>2. InPort /\ InPort' /\ Awaited'
    BY <2>1 DEF InPort, Awaited
  <2>3. IF port[2] = "pressed" THEN Pending(port[1])' ELSE Spelt'
    BY <2>1, <2>2 DEF TypedInv, Pending, Spelt, EndsWith, Holds, Cursor, buffer
  <2> QED BY <2>1, <2>2, <2>3 DEF TypedInv
<1>2. CASE w # "my_work"
  <2>1. UNCHANGED <<port, wpc, work, buffer, typed>>
    BY <1>2 DEF Start
  <2>2. "my_work" \in queued <=> "my_work" \in queued'
    BY <1>2 DEF Start
  <2>3. "my_work" \in running <=> "my_work" \in running'
    BY <1>2 DEF Start
  <2> QED BY <2>1, <2>2, <2>3, OthersKeepText
<1>3. QED BY <1>1, <1>2

\* The work copies the name of the key it has read, character by character.
LEMMA WorksKeepText ==
  ASSUME BufferInv, TypedInv, Function1
  PROVE  TypedInv'
<1> USE SizesAssumption
<1>1. /\ typed \in Seq(Keys) /\ typed' = typed /\ Len(typed) \in Nat /\ queued' = queued
      /\ curr_index \in 0 .. MAX_INFO_LAST /\ info_last \in [InBuffer -> Chars]
      /\ work.i \in 0 .. MAX_INFO_LAST /\ work.len \in 0 .. MAX_INFO_LAST
      /\ Len(typed) <= MAX_INFO_LAST
  <2>1. typed \in Seq(Keys) /\ Len(typed) <= MAX_INFO_LAST
    BY DEF BufferInv, KernelTypes, TypedInv
  <2>2. UNCHANGED <<typed, queued>>
    BY DEF Function1, ReadPort, MeasureKey, MeasureUnknown, CopyChar, Seal, queue
  <2>3. /\ curr_index \in 0 .. MAX_INFO_LAST /\ info_last \in [InBuffer -> Chars]
        /\ work.i \in 0 .. MAX_INFO_LAST /\ work.len \in 0 .. MAX_INFO_LAST
    BY DEF BufferInv, WorkTypes, CopyInv, BufferTypes
  <2> QED BY <2>1, <2>2, <2>3, LenProperties
<1>2. wpc # "idle" /\ "my_work" \in running /\ "my_work" \notin queued
  BY DEF TypedInv, Function1, ReadPort, MeasureKey, MeasureUnknown, CopyChar, Seal
<1>3. ASSUME EndFunction1, Spelt' PROVE TypedInv'
  <2>1. wpc' = "idle" /\ "my_work" \notin running' /\ "my_work" \notin queued'
    BY <1>1, <1>2, <1>3 DEF EndFunction1
  <2>2. Len(typed)' <= MAX_INFO_LAST
    BY <1>1
  <2> QED BY <1>3, <2>1, <2>2 DEF TypedInv, InPort, Awaited
<1>4. CASE ReadPort
  <2>1. InPort /\ UNCHANGED <<curr_index, info_last>>
    BY <1>4 DEF ReadPort, InPort, buffer
  <2>2. CASE EndFunction1 /\ port[2] # "pressed"
    <3>1. Spelt'
      BY <1>1, <2>1, <2>2 DEF TypedInv, Spelt, Holds
    <3> QED BY <1>3, <2>2, <3>1
  <2>3. CASE port[2] = "pressed" /\ work' = [NoWork EXCEPT !.code = port] /\ wpc' = "strlen"
             /\ running' = running
    <3>1. work'.code = port /\ work'.i = 0
      BY <2>3 DEF NoWork
    <3>2. Pending(work.code[1])'
      BY <1>1, <2>1, <2>3, <3>1 DEF TypedInv, Pending, EndsWith, Holds, Cursor
    <3> QED BY <1>1, <1>2, <2>3, <3>1, <3>2 DEF TypedInv, InPort, Awaited
  <2> QED BY <1>4, <2>2, <2>3 DEF ReadPort
<1>5. CASE MeasureKey
  <2> DEFINE k == work.code[1]
             first == Cursor(KeyLen[k])
  <2>1. k \in Keys /\ Pending(k) /\ work.i = 0
    BY <1>5 DEF MeasureKey, TypedInv
  <2>2. KeyLen[k] \in Nat
    BY <2>1, NamesFit
  <2>3. work' = [work EXCEPT !.len = KeyLen[k]]
    BY <1>5 DEF MeasureKey
  <2>4. work'.len = KeyLen[k] /\ work'.i = work.i /\ work'.code = work.code
    BY <2>3 DEF BufferInv, WorkTypes
  <2>5. /\ curr_index' = first /\ first \in Nat /\ wpc' = "copy"
        /\ UNCHANGED <<running, info_last>>
    BY <1>1, <1>5, <2>4 DEF MeasureKey, Cursor, queue
  <2>6. Holds(curr_index)' /\ EndsWith(k, first)
    BY <1>1, <2>1, <2>5 DEF Pending, Holds
  <2>7. EndsWith(work.code[1], curr_index - work.i)'
    BY <1>1, <2>1, <2>4, <2>5, <2>6 DEF EndsWith
  <2> QED BY <1>1, <1>2, <2>1, <2>2, <2>4, <2>5, <2>6, <2>7 DEF TypedInv, InPort, Awaited
<1>6. CASE MeasureUnknown
  <2>1. work.code[1] \in Keys /\ work.code[1] = Unknown
    BY <1>6 DEF MeasureUnknown, TypedInv, Pending
  <2> QED BY <2>1, KeysAssumption
<1>7. CASE CopyChar
  <2> DEFINE k == work.code[1]
  <2>1. /\ wpc = "copy" /\ wpc' = "copy" /\ work.i < work.len
        /\ work' = [work EXCEPT !.i = @ + 1] /\ curr_index' = curr_index + 1
        /\ info_last' = [info_last EXCEPT ![curr_index] = k] /\ running' = running
    BY <1>7 DEF CopyChar, queue
  <2>2. work'.i = work.i + 1 /\ work'.len = work.len /\ work'.code = work.code
    BY <2>1 DEF BufferInv, WorkTypes
  <2>3. /\ EndsWith(k, curr_index - work.i) /\ work.len = KeyLen[k] /\ Holds(curr_index)
    BY <2>1 DEF TypedInv
  <2>4. curr_index + 1 \in (curr_index - work.i) + 1 .. Len(typed)
    BY <1>1, <2>1, <2>3 DEF EndsWith
  <2>5. typed[curr_index + 1] = k
    BY <2>3, <2>4 DEF EndsWith
  <2>9. curr_index < MAX_INFO_LAST
    BY <1>1, <2>4
  <2>6. Holds(curr_index)'
    <3> SUFFICES ASSUME NEW x \in 0 .. curr_index PROVE info_last'[x] = typed[x + 1]
      BY <1>1, <2>1 DEF Holds
    <3>1. CASE x = curr_index
      BY <1>1, <2>1, <2>4, <2>5, <2>9, <3>1 DEF InBuffer
    <3>2. CASE x # curr_index
      <4>1. x \in 0 .. curr_index - 1 /\ x \in InBuffer
        BY <1>1, <3>2 DEF InBuffer
      <4> QED BY <1>1, <2>1, <2>3, <3>2, <4>1 DEF Holds
    <3> QED BY <3>1, <3>2
  <2>7. EndsWith(work.code[1], curr_index - work.i)'
    <3>1. curr_index' - work'.i = curr_index - work.i
      <4>1. curr_index \in Int /\ work.i \in Int
        BY <1>1
      <4> QED BY <2>1, <2>2, <4>1
    <3> QED BY <1>1, <2>2, <2>3, <3>1 DEF EndsWith
  <2>8. work'.i <= work'.len
    BY <1>1, <2>1, <2>2
  <2> QED BY <1>1, <1>2, <2>1, <2>2, <2>3, <2>6, <2>7, <2>8 DEF TypedInv, InPort, Awaited
<1>8. CASE Seal
  <2>1. EndFunction1 /\ UNCHANGED <<curr_index, typed>> /\ info_last' = Terminated
        /\ wpc = "copy" /\ work.i = work.len
    BY <1>8 DEF Seal
  <2>2. curr_index = Len(typed) /\ Holds(curr_index)
    BY <1>1, <2>1 DEF TypedInv, EndsWith
  <2>3. Spelt'
    <3>1. \A x \in 0 .. curr_index - 1 : info_last'[x] = info_last[x]
      BY <1>1, <2>1 DEF Terminated, InBuffer
    <3>2. curr_index < MAX_INFO_LAST => info_last'[curr_index] = NUL
      BY <1>1, <2>1 DEF Terminated, InBuffer
    <3> QED BY <2>1, <2>2, <3>1, <3>2 DEF Spelt, Holds
  <2> QED BY <1>3, <2>1, <2>3
<1>9. QED BY <1>4, <1>5, <1>6, <1>7, <1>8 DEF Function1

\* A key comes when nothing is on its way.
LEMMA InterruptKeepsText ==
  ASSUME PacedKeys, BufferInv, TypedInv, NEW k \in Presses,
         NEW what \in {"pressed", "released"}, Interrupt(k, what)
  PROVE  TypedInv'
<1>1. /\ k \in Keys /\ port' = <<k, what>> /\ UNCHANGED <<running, wpc, work, buffer>>
      /\ queued = {} /\ running = {} /\ wpc = "idle"
  BY DEF PacedKeys, Interrupt, TypedInv, Drained
<1>2. Spelt /\ Len(typed) <= MAX_INFO_LAST
  BY <1>1 DEF TypedInv, Awaited
<1>3. CASE irq /\ oops' = "none" /\ what = "pressed"
  <2>1. typed' = Remembered(k) /\ "my_work" \in queued'
    BY <1>3 DEF Interrupt, Works
  <2>2. Len(typed)' <= MAX_INFO_LAST /\ Pending(k)'
    BY <1>1, <1>2, <2>1, KeyBecomesPending
  <2>3. port'[1] = k /\ port'[2] = "pressed"
    BY <1>1, <1>3
  <2>4. Pending(port[1])'
    BY <2>2, <2>3
  <2> QED BY <1>1, <2>1, <2>2, <2>3, <2>4 DEF TypedInv, InPort, Awaited
<1>4. CASE ~(irq /\ oops' = "none" /\ what = "pressed")
  <2>1. typed' = typed
    BY <1>4 DEF Interrupt
  <2>2. Spelt'
    BY <1>1, <1>2, <2>1 DEF Spelt, Holds, buffer
  <2>3. "my_work" \in queued' => port'[2] # "pressed"
    <3>1. CASE irq /\ oops' = "none"
      BY <1>1, <1>4, <3>1
    <3>2. CASE ~(irq /\ oops' = "none")
      BY <1>1, <3>2 DEF Interrupt
    <3> QED BY <3>1, <3>2
  <2> QED BY <1>1, <1>2, <2>1, <2>2, <2>3 DEF TypedInv, InPort, Awaited
<1>5. QED BY <1>3, <1>4

\* With keys no faster than the works, from Load to the last step of a work:
\* the buffer is what was typed, less the name that is on its way.
THEOREM TypedInvCorrect == PacedKeys /\ Spec => []TypedInv
<1> SUFFICES ASSUME PacedKeys PROVE Spec => []TypedInv
  OBVIOUS
<1>1. Init => TypedInv
  <2> SUFFICES ASSUME Init PROVE TypedInv
    OBVIOUS
  <2>1. Len(typed) = 0 /\ Spelt
    BY SizesAssumption DEF Init, Spelt, Holds, Zeroed, InBuffer
  <2> QED BY <2>1, SizesAssumption DEF Init, TypedInv, Awaited, InPort
<1>2. BufferInv /\ TypedInv /\ [Next]_vars => TypedInv'
  <2> SUFFICES ASSUME BufferInv, TypedInv, [Next]_vars PROVE TypedInv'
    OBVIOUS
  <2>1. CASE Load
    <3>1. /\ typed' = <<>> /\ curr_index' = 0 /\ info_last' = Zeroed
          /\ queued = {} /\ running = {} /\ UNCHANGED <<queued, running, wpc>>
      BY <2>1 DEF Load, queue
    <3>2. Len(typed') = 0 /\ Spelt'
      BY <3>1, SizesAssumption DEF Spelt, Holds, Zeroed, InBuffer
    <3> QED BY <3>1, <3>2, SizesAssumption DEF TypedInv, Awaited, InPort
  <2>2. ASSUME NEW k \in Presses, NEW what \in {"pressed", "released"}, Interrupt(k, what)
        PROVE  TypedInv'
    BY <2>2, InterruptKeepsText
  <2>3. ASSUME NEW w \in Works, Start(w) PROVE TypedInv'
    BY <2>3, StartKeepsText
  <2>4. CASE Function1
    BY <2>4, WorksKeepText
  <2>5. CASE RequestIrq \/ CreateWorkqueue \/ ProcCreate \/ Exit \/ Function2
             \/ ShowLength \/ Reader \/ Dead \/ UNCHANGED vars
    <3>1. UNCHANGED <<port, wpc, work, buffer, typed, queued>>
      BY <2>5 DEF RequestIrq, CreateWorkqueue, ProcCreate, Exit, Unload, UseDamaged, FlushWorkqueue,
         DestroyWorkqueue, FreeIrq, RemoveProcEntry, Quiet, Function2, ShowLength, Reader,
         ShowText, CloseProc, Dead, vars, queue
    <3>2. "my_work" \in running <=> "my_work" \in running'
      BY <2>5 DEF RequestIrq, CreateWorkqueue, ProcCreate, Exit, Unload, UseDamaged, FlushWorkqueue,
         DestroyWorkqueue, FreeIrq, RemoveProcEntry, Quiet, Function2, ShowLength, Reader,
         ShowText, CloseProc, Dead, vars, queue
    <3> QED BY <3>1, <3>2, OthersKeepText
  <2> QED BY <2>1, <2>2, <2>3, <2>4, <2>5 DEF Next, Kernel
<1>3. QED BY <1>1, <1>2, BufferInvCorrect, PTL DEF Spec

\* When the works have ended the buffer spells the keys pressed since it
\* started over, each once and in order (md.c:142-160).
THEOREM HoldsTypedKeysCorrect == PacedKeys /\ Spec => []HoldsTypedKeys
<1> SUFFICES ASSUME PacedKeys PROVE Spec => []HoldsTypedKeys
  OBVIOUS
<1>1. BufferInv /\ TypedInv => HoldsTypedKeys
  <2> SUFFICES ASSUME BufferInv, TypedInv, Drained PROVE Text = typed
    BY DEF HoldsTypedKeys
  <2>1. Spelt /\ Len(typed) <= MAX_INFO_LAST
    BY DEF TypedInv, Drained, Awaited
  <2> QED BY <2>1, SpeltIsText
<1>2. QED BY <1>1, BufferInvCorrect, TypedInvCorrect, PTL
=============================================================================
