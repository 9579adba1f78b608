---------------------------- MODULE ProgramProofs ----------------------------
(***************************************************************************)
(* What TLAPS proves of two of the programs on files: UnixDgram for any    *)
(* numbers of servers, clients and messages and any length of the queue,   *)
(* FileIO for an alphabet of any even length.                              *)
(***************************************************************************)
EXTENDS FileIO, UnixDgram, SequenceTheorems, TLAPS

-----------------------------------------------------------------------------
\* A server past bind() and not yet past its last unlink()
Bound(s) == srv[s] \in {"recvfrom", "close", "unlink"}

(***************************************************************************)
(* NameLeadsToServer is not inductive: a second server that is on its way  *)
(* through Cleanup() could remove the name.  It has to be known that the   *)
(* file exists as long as any server is past bind(), so that no second one *)
(* gets there.                                                             *)
(***************************************************************************)
NameInv ==
  /\ srv \in [Servers -> {"none", "bind", "recvfrom", "close", "unlink"}]
  /\ \A s \in Servers : srv[s] \in {"recvfrom", "close"} => sockFile = s
  /\ \A s \in Servers : srv[s] = "unlink" => sockFile = Stale
  /\ \A s, t \in Servers : Bound(s) /\ Bound(t) => s = t

\* The file is there for the one server that is past bind() (fsserver.c).
THEOREM NameInvCorrect == DgramSpec => []NameInv
<1>1. DgramInit => NameInv
  BY DEF DgramInit, NameInv, Bound
<1>2. NameInv /\ [DgramNext]_dgramVars => NameInv'
  <2> SUFFICES ASSUME NameInv, [DgramNext]_dgramVars PROVE NameInv'
    OBVIOUS
  <2> USE NamesAssumption DEF NameInv, Bound
  <2>1. ASSUME UNCHANGED <<srv, sockFile>> PROVE NameInv'
    BY <2>1
  <2>2. ASSUME NEW s \in Servers, Server(s) PROVE NameInv'
    <3>1. CASE Socket(s)
      BY <3>1 DEF Socket
    <3>2. CASE SocketFails(s) \/ Recvfrom(s)
      BY <3>2, <2>1 DEF SocketFails, Recvfrom
    <3>3. CASE Bind(s)
      BY <3>3 DEF Bind
    <3>4. CASE BindFails(s)
      BY <3>4 DEF BindFails, ReturnUnbound, CloseSocket
    <3>5. CASE RecvfromFails(s)
      BY <3>5 DEF RecvfromFails
    <3>6. CASE CleanupClose(s)
      BY <3>6 DEF CleanupClose, CloseSocket
    <3>7. CASE CleanupUnlink(s)
      BY <3>7 DEF CleanupUnlink
    <3>8. CASE KillServer(s)
      BY <3>8 DEF KillServer, CloseSocket
    <3> QED BY <2>2, <3>1, <3>2, <3>3, <3>4, <3>5, <3>6, <3>7, <3>8 DEF Server
  <2>3. ASSUME NEW cl \in Clients, Client(cl) PROVE NameInv'
    BY <2>3, <2>1 DEF Client, CreateMessage, Sendto, SendtoFails, Close, KillClient
  <2>4. CASE RemoveFile
    BY <2>4 DEF RemoveFile
  <2>5. CASE UNCHANGED dgramVars
    BY <2>5, <2>1 DEF dgramVars
  <2> QED BY <2>2, <2>3, <2>4, <2>5 DEF DgramNext
<1>3. QED BY <1>1, <1>2, PTL DEF DgramSpec

\* The server that waits in recvfrom() is the one the name leads to
\* (fsserver.c:44-60).
THEOREM NameLeadsToServerCorrect == DgramSpec => []NameLeadsToServer
<1>1. NameInv => NameLeadsToServer
  BY DEF NameInv, NameLeadsToServer
<1>2. QED BY <1>1, NameInvCorrect, PTL
-----------------------------------------------------------------------------
(***************************************************************************)
(* The invariant of FileIO, one part for each program that is followed.    *)
(***************************************************************************)
\* The first n of every second letter, beginning with t
Letters(t, n) == [i \in 1 .. n |-> 2 * i - 2 + t]
\* The first n letters, each twice, as thread 1 writes them
Twice(n) == [i \in 1 .. 2 * n |-> <<1, (i + 1) \div 2>>]
Half == LastLetter \div 2

Places ==
  {"none", "fdopen", "scan 1", "scan 2", "open both", "read both", "write twice", "open",
   "create", "read", "write", "fopen 1", "fopen 2", "fprintf both", "fclose 1", "fclose 2",
   "fopen", "fprintf", "fclose", "join", "end", "done", "no thread", "crashed", "endless"}

PlaceTypes == prog \in DOMAIN Entry \cup {"none"} /\ pc \in [Both -> Places]

\* Where the threads of each program can be
PlaceInv ==
  /\ PlaceTypes
  /\ prog = "none" => FilesInit
  /\ prog \in {"testCIO", "testKernelIO", "task3"} => pc[2] = "none"
  /\ prog = "testCIO" => pc[1] \in {"fdopen", "scan 1", "scan 2", "done", "crashed"}
  /\ prog = "testKernelIO" =>
       pc[1] \in {"open both", "read both", "write twice", "done", "endless"}
  /\ prog = "testKernelIO_pthread" =>
       /\ pc[1] \in {"open", "create", "read", "write", "join", "done", "no thread", "endless"}
       /\ pc[2] \in {"none", "open", "read", "write", "end", "endless"}
  /\ prog = "task3" =>
       pc[1] \in {"fopen 1", "fopen 2", "fprintf both", "fclose 1", "fclose 2", "done", "crashed"}
  /\ prog = "task3_pthread" =>
       /\ pc[1] = "create" => pc[2] = "none"
       /\ pc[1] \in {"create", "fopen", "fprintf", "fclose", "join", "done", "no thread", "crashed"}
       /\ pc[2] \in {"none", "fopen", "fprintf", "fclose", "end"}

\* Two descriptors: what was read, once by each, was written twice.
TwiceInv ==
  /\ file = Alphabet /\ offset \in [Both -> 0 .. LastLetter] /\ c \in [Both -> Nat]
  /\ offset[1] = offset[2]
  /\ pc[1] = "write twice" => /\ offset[1] # 0 /\ c[1] = offset[1]
                              /\ out = Twice(offset[1] - 1)
  /\ pc[1] \in {"open both", "read both", "done"} => out = Twice(offset[1])
  /\ pc[1] = "done" => offset[1] = LastLetter

\* Two streams of one thread: the letters so far, every second in each.
TurnsInv ==
  /\ offset = [d \in Both |-> 0] /\ c \in [Both -> Nat] /\ stream \in [Both -> Seq(Nat)]
  /\ pc[1] \in {"fopen 1", "fopen 2"} => stream = [s \in Both |-> <<>>]
  /\ pc[1] \notin {"fopen 1", "crashed"} => file \in {<<>>, Letters(1, Half), Letters(2, Half)}
  /\ pc[1] = "fprintf both" =>
       /\ \A s \in Both : stream[s] = Letters(s, Len(stream[s])) /\ Len(stream[s]) <= Half
       /\ c[1] = Len(stream[1]) + Len(stream[2]) + 1
       /\ Len(stream[1]) = Len(stream[2]) \/ Len(stream[1]) = Len(stream[2]) + 1
  /\ pc[1] = "fclose 1" => stream[1] = Letters(1, Half)
  /\ pc[1] \in {"fclose 1", "fclose 2"} => stream[2] = Letters(2, Half)
  /\ pc[1] = "done" => file = Letters(2, Half)

\* A thread that has a stream of its own: the file is empty or was closed by
\* one of the two.
ThreadInv(t) ==
  /\ pc[t] \in {"create", "none", "fopen"} => stream[t] = <<>>
  /\ pc[t] = "fprintf" => /\ stream[t] = Letters(t, Len(stream[t])) /\ Len(stream[t]) <= Half
                          /\ c[t] = 2 * Len(stream[t]) + t
  /\ pc[t] = "fclose" => stream[t] = Letters(t, Half)
  /\ pc[t] \in {"fprintf", "fclose"} => file \in {<<>>, Letters(1, Half), Letters(2, Half)}

\* A stream of each thread: when both are closed the file holds what was
\* closed last.
ThreadsInv ==
  /\ offset = [d \in Both |-> 0] /\ c \in [Both -> Nat] /\ stream \in [Both -> Seq(Nat)]
  /\ ThreadInv(1) /\ ThreadInv(2)
  /\ pc[1] \in {"join", "done"} /\ pc[2] = "end" => last \in Both /\ file = Letters(last, Half)
  /\ pc[1] = "done" => pc[2] = "end"

FilesInv ==
  /\ PlaceInv
  /\ prog = "testKernelIO" => TwiceInv
  /\ prog = "task3" => TurnsInv
  /\ prog = "task3_pthread" => ThreadsInv

\* Of the actions only those of the program that runs are possible.
LEMMA OneProgramActs ==
  ASSUME PlaceInv, FilesNext
  PROVE  \/ \E p \in DOMAIN Entry : Run(p)
         \/ Quit
         \/ prog = "testCIO" /\ (OpenStreams \/ \E s \in Both : Fscanf(s))
         \/ prog = "testKernelIO" /\ (OpenTwice \/ ReadBoth \/ WriteTwice \/ EndOfFile)
         \/ prog = "testKernelIO_pthread" /\
              \/ PthreadCreate \/ PthreadCreateFails \/ PthreadJoin
              \/ \E t \in Both : OpenInThread(t) \/ ReadFile(t) \/ WriteLetter(t)
         \/ prog = "task3" /\ (Task3 \/ FopenFails(1))
         \/ prog = "task3_pthread" /\
              \/ PthreadCreate \/ PthreadCreateFails \/ PthreadJoin
              \/ \E t \in Both : WriteToFile(t)
<1>1. /\ prog = "none" => pc = [t \in Both |-> "none"]
      /\ prog \in {"none", "testCIO", "testKernelIO", "testKernelIO_pthread", "task3", "task3_pthread"}
  BY DEF PlaceInv, PlaceTypes, FilesInit, AtRest, Entry
<1>2. ASSUME OpenStreams \/ \E s \in Both : Fscanf(s) PROVE prog = "testCIO"
  <2>1. pc[1] \in {"fdopen", "scan 1", "scan 2"}
    BY <1>2 DEF OpenStreams, Only, Step, Fscanf, Both
  <2> QED BY <1>1, <2>1 DEF PlaceInv, Both
<1>3. ASSUME OpenTwice \/ ReadBoth \/ WriteTwice \/ EndOfFile PROVE prog = "testKernelIO"
  <2>1. pc[1] \in {"open both", "read both", "write twice"}
    BY <1>3 DEF OpenTwice, ReadBoth, WriteTwice, EndOfFile, Only, Step
  <2> QED BY <1>1, <2>1 DEF PlaceInv, Both
<1>4. ASSUME NEW t \in Both, OpenInThread(t) \/ ReadFile(t) \/ WriteLetter(t)
      PROVE  prog = "testKernelIO_pthread"
  <2>1. pc[t] \in {"open", "read", "write"}
    BY <1>4 DEF OpenInThread, ReadFile, WriteLetter, Only, Step
  <2> QED BY <1>1, <2>1 DEF PlaceInv, Both
<1>5. ASSUME NEW t \in Both, WriteToFile(t)
      PROVE  prog = "task3_pthread" \/ (prog = "task3" /\ t = 1 /\ FopenFails(1))
  <2>1. pc[t] \in {"fopen 1", "fopen", "fprintf", "fclose"}
    BY <1>5 DEF WriteToFile, Fopen, FopenFails, Fprintf, LastFprintf, Fclose, Only, Step
  <2>2. prog = "task3" => t = 1 /\ pc[t] = "fopen 1"
    BY <2>1 DEF PlaceInv, Both
  <2>3. prog = "task3" => FopenFails(t)
    BY <1>5, <2>2 DEF WriteToFile, Fopen, Fprintf, LastFprintf, Fclose, Only, Step
  <2> QED BY <1>1, <2>1, <2>2, <2>3 DEF PlaceInv, Both
<1>6. ASSUME Task3 PROVE prog = "task3"
  <2>1. pc[1] \in {"fopen 1", "fopen 2", "fprintf both", "fclose 1", "fclose 2"}
    BY <1>6 DEF Task3, Fopen, Fprintf, LastFprintf, Fclose, Only, Step
  <2> QED BY <1>1, <2>1 DEF PlaceInv, Both
<1>7. ASSUME PthreadCreate \/ PthreadCreateFails \/ PthreadJoin
      PROVE  prog \in {"testKernelIO_pthread", "task3_pthread"}
  <2>1. pc[1] \in {"create", "join"}
    BY <1>7 DEF PthreadCreate, PthreadCreateFails, PthreadJoin, Only, Step
  <2> QED BY <1>1, <2>1 DEF PlaceInv, Both
<1>8. QED
  BY <1>2, <1>3, <1>4, <1>5, <1>6, <1>7 DEF FilesNext, Main, Thread, Both

\* Half of an even number of letters.
LEMMA HalfOfAlphabet == Half \in Nat /\ LastLetter = 2 * Half
BY LettersAssumption DEF Half

\* One more letter.
LEMMA MoreLetters ==
  ASSUME NEW t \in Nat, NEW n \in Nat
  PROVE  /\ Letters(t, n) \in Seq(Nat) /\ Len(Letters(t, n)) = n
         /\ Letters(t, 0) = <<>>
         /\ Append(Letters(t, n), 2 * n + t) = Letters(t, n + 1)
<1>1. ASSUME NEW k \in Nat
      PROVE  /\ Letters(t, k) \in Seq(Nat) /\ Len(Letters(t, k)) = k
             /\ \A i \in 1 .. k : Letters(t, k)[i] = 2 * i - 2 + t
  <2>1. \A i \in 1 .. k : 2 * i - 2 + t \in Nat
    OBVIOUS
  <2> QED BY <2>1, IsASeq DEF Letters
<1>2. Letters(t, 0) = <<>>
  <2>1. Letters(t, 0) \in Seq(Nat) /\ Len(Letters(t, 0)) = 0
    BY <1>1
  <2> QED BY <2>1, EmptySeq
<1> DEFINE a == Letters(t, n)
           e == 2 * n + t
           s == Append(a, e)
<1>3. e \in Nat /\ n + 1 \in Nat /\ 2 * (n + 1) - 2 + t = e /\ a \in Seq(Nat) /\ Len(a) = n
  BY <1>1
<1> HIDE DEF e, a
<1>4. /\ s \in Seq(Nat) /\ Len(s) = n + 1
      /\ \A i \in 1 .. n : s[i] = a[i]
      /\ s[n + 1] = e
  BY <1>3, AppendProperties
<1>5. \A i \in 1 .. n + 1 : i \in 1 .. n \/ i = n + 1
  OBVIOUS
<1>6. \A i \in 1 .. n + 1 : s[i] = Letters(t, n + 1)[i]
  <2> HIDE DEF s
  <2>1. \A i \in 1 .. n : s[i] = 2 * i - 2 + t
    BY <1>1, <1>4 DEF a
  <2>2. s[n + 1] = 2 * (n + 1) - 2 + t
    BY <1>3, <1>4
  <2>3. \A i \in 1 .. n + 1 : Letters(t, n + 1)[i] = 2 * i - 2 + t
    BY <1>1, <1>3
  <2> QED BY <1>5, <2>1, <2>2, <2>3
<1>7. s = Letters(t, n + 1)
  <2> HIDE DEF s
  <2> QED BY <1>1, <1>3, <1>4, <1>6, SeqEqual
<1>8. QED BY <1>1, <1>2, <1>7 DEF s, a, e

\* Both descriptors give one more letter, and thread 1 writes it twice.
LEMMA MoreTwice ==
  ASSUME NEW n \in Nat
  PROVE  /\ Twice(0) = <<>>
         /\ Twice(n) \o << <<1, n + 1>>, <<1, n + 1>> >> = Twice(n + 1)
<1> DEFINE E == {1} \X Nat
           pair == << <<1, n + 1>>, <<1, n + 1>> >>
<1>1. ASSUME NEW k \in Nat
      PROVE  /\ Twice(k) \in Seq(E) /\ Len(Twice(k)) = 2 * k
             /\ \A i \in 1 .. 2 * k : Twice(k)[i] = <<1, (i + 1) \div 2>>
  <2>1. 2 * k \in Nat /\ \A i \in 1 .. 2 * k : (i + 1) \div 2 \in Nat
    OBVIOUS
  <2>2. \A i \in 1 .. 2 * k : <<1, (i + 1) \div 2>> \in E
    BY <2>1
  <2> HIDE DEF E
  <2> QED BY <2>1, <2>2, IsASeq DEF Twice
<1>2. Twice(0) = <<>>
  <2>1. Twice(0) \in Seq(E) /\ Len(Twice(0)) = 0
    BY <1>1
  <2> QED BY <2>1, EmptySeq
<1>3. pair \in Seq(E) /\ Len(pair) = 2 /\ pair[1] = <<1, n + 1>> /\ pair[2] = <<1, n + 1>>
  OBVIOUS
<1> DEFINE a == Twice(n)
           b == Twice(n + 1)
           s == a \o pair
<1>4. /\ a \in Seq(E) /\ Len(a) = 2 * n /\ \A i \in 1 .. 2 * n : a[i] = <<1, (i + 1) \div 2>>
      /\ b \in Seq(E) /\ Len(b) = 2 * n + 2
      /\ \A i \in 1 .. 2 * n + 2 : b[i] = <<1, (i + 1) \div 2>>
  <2>1. n + 1 \in Nat /\ 2 * (n + 1) = 2 * n + 2
    OBVIOUS
  <2> HIDE DEF E
  <2> QED BY <1>1, <2>1
<1> HIDE DEF E, pair, a, b
<1>5. /\ s \in Seq(E) /\ Len(s) = 2 * n + 2
      /\ \A i \in 1 .. 2 * n + 2 : s[i] = IF i <= 2 * n THEN a[i] ELSE pair[i - 2 * n]
  <2>1. Len(a) + Len(pair) = 2 * n + 2
    BY <1>3, <1>4
  <2>2. s \in Seq(E) /\ Len(s) = Len(a) + Len(pair)
        /\ \A i \in 1 .. Len(a) + Len(pair) :
             s[i] = IF i <= Len(a) THEN a[i] ELSE pair[i - Len(a)]
    BY <1>3, <1>4, ConcatProperties
  <2> QED BY <1>4, <2>1, <2>2
<1> HIDE DEF s
<1>6. \A i \in 1 .. 2 * n + 2 : s[i] = b[i]
  <2> SUFFICES ASSUME NEW i \in 1 .. 2 * n + 2 PROVE s[i] = b[i]
    OBVIOUS
  <2>1. CASE i <= 2 * n
    <3>1. i \in 1 .. 2 * n
      BY <2>1
    <3> QED BY <1>4, <1>5, <2>1, <3>1
  <2>2. CASE i = 2 * n + 1 \/ i = 2 * n + 2
    <3>1. (i + 1) \div 2 = n + 1 /\ i - 2 * n \in {1, 2} /\ ~(i <= 2 * n)
      BY <2>2
    <3>2. s[i] = <<1, n + 1>>
      BY <1>3, <1>5, <3>1
    <3> QED BY <1>4, <3>1, <3>2
  <2>3. i <= 2 * n \/ i = 2 * n + 1 \/ i = 2 * n + 2
    <3>1. 2 * n \in Nat
      OBVIOUS
    <3> QED BY ONLY <3>1, i \in 1 .. 2 * n + 2
  <2> QED BY ONLY <2>1, <2>2, <2>3
<1>7. s = b
  BY <1>4, <1>5, <1>6, SeqEqual
<1>8. QED BY <1>2, <1>7 DEF s, a, b, pair

\* What is written over a text that is not longer leaves none of it.
LEMMA WrittenWhole ==
  ASSUME NEW data \in Seq(Nat), file \in Seq(Nat), Len(file) <= Len(data)
  PROVE  Written(data, 0) = data
<1> DEFINE n == Len(data)
<1>1. n \in Nat /\ Len(file) \in Nat
  BY LenProperties
<1>2. Max({0 + n, Len(file)}) = n
  BY <1>1 DEF Max
<1>3. Written(data, 0) = [i \in 1 .. n |-> data[i]]
  <2>1. \A i \in 1 .. n : i \in 0 + 1 .. 0 + n /\ i - 0 = i
    BY <1>1
  <2>2. Written(data, 0) = [i \in 1 .. n |->
          IF i \in 0 + 1 .. 0 + n THEN data[i - 0] ELSE IF i <= Len(file) THEN file[i] ELSE 0]
    BY <1>2 DEF Written
  <2> QED BY <2>1, <2>2
<1>4. [i \in 1 .. n |-> data[i]] = data
  BY <1>1, LenProperties
<1>5. QED BY <1>3, <1>4

\* A thread of a program goes from one place to another.
LEMMA ThreadMoves ==
  ASSUME PlaceTypes, prog' = prog, NEW t \in Both, NEW to \in Places, pc' = [pc EXCEPT ![t] = to]
  PROVE  /\ PlaceTypes'
         /\ t = 1 => pc'[1] = to /\ pc'[2] = pc[2]
         /\ t = 2 => pc'[2] = to /\ pc'[1] = pc[1]
<1>1. pc' \in [Both -> Places] /\ pc'[t] = to
  BY DEF PlaceTypes
<1>2. PlaceTypes' <=> prog' \in DOMAIN Entry \cup {"none"} /\ pc' \in [Both -> Places]
  BY DEF PlaceTypes, Entry, Both, Places
<1>3. /\ t = 1 => pc'[2] = pc[2]
      /\ t = 2 => pc'[1] = pc[1]
  BY DEF PlaceTypes, Both
<1>4. QED BY <1>1, <1>2, <1>3 DEF PlaceTypes

\* Every program stays at its own places.
LEMMA PlacesKept ==
  ASSUME PlaceInv, FilesNext
  PROVE  PlaceInv'
<1>1. /\ PlaceTypes /\ 1 \in Both /\ 2 \in Both
      /\ prog = "none" => pc = [t \in Both |-> "none"]
  <2>1. PlaceTypes /\ (prog = "none" => pc = [t \in Both |-> "none"])
    BY DEF PlaceInv, FilesInit, AtRest
  <2>2. 1 \in Both /\ 2 \in Both
    BY DEF Both
  <2> QED BY <2>1, <2>2
<1>2. ASSUME NEW p \in DOMAIN Entry, Run(p) PROVE PlaceInv'
  <2>1. prog = "none" /\ prog' = p /\ pc' = [pc EXCEPT ![1] = Entry[p]]
    BY <1>2 DEF Run
  <2>2. \/ p = "testCIO" /\ Entry[p] = "fdopen"
        \/ p = "testKernelIO" /\ Entry[p] = "open both"
        \/ p = "testKernelIO_pthread" /\ Entry[p] = "open"
        \/ p = "task3" /\ Entry[p] = "fopen 1"
        \/ p = "task3_pthread" /\ Entry[p] = "create"
    <3>1. p \in {"testCIO", "testKernelIO", "testKernelIO_pthread", "task3", "task3_pthread"}
      BY DEF Entry
    <3>2. /\ Entry["testCIO"] = "fdopen" /\ Entry["testKernelIO"] = "open both"
          /\ Entry["testKernelIO_pthread"] = "open" /\ Entry["task3"] = "fopen 1"
          /\ Entry["task3_pthread"] = "create"
      BY DEF Entry
    <3> QED BY <3>1, <3>2
  <2>3. PICK to : to = Entry[p]
    OBVIOUS
  <2>4. pc' \in [Both -> Places] /\ pc'[1] = to /\ pc'[2] = "none"
    <3>1. to \in Places /\ pc' = [pc EXCEPT ![1] = to]
      BY <2>1, <2>2, <2>3 DEF Places
    <3> QED BY <1>1, <2>1, <3>1 DEF Both, PlaceTypes
  <2>5. PlaceTypes'
    BY <2>1, <2>4 DEF PlaceTypes, Entry, Both, Places
  <2> QED BY <2>1, <2>2, <2>3, <2>4, <2>5 DEF PlaceInv
<1>3. CASE Quit
  <2>1. FilesInit' /\ prog' = "none" /\ pc' = [t \in Both |-> "none"]
    BY <1>3 DEF Quit, FilesInit, AtRest
  <2>2. PlaceTypes'
    BY <2>1 DEF PlaceTypes, Entry, Both, Places
  <2> QED BY <2>1, <2>2 DEF PlaceInv
<1>4. ASSUME prog = "testCIO", OpenStreams \/ \E s \in Both : Fscanf(s) PROVE PlaceInv'
  <2>1. prog' = prog
    BY <1>4 DEF OpenStreams, Fscanf, Only, program
  <2>2. PICK to \in {"scan 1", "crashed", "scan 2", "done"} : pc' = [pc EXCEPT ![1] = to]
    BY <1>4 DEF OpenStreams, Fscanf, Only, Step, Both
  <2>3. to \in Places
    BY DEF Places
  <2>4. PlaceTypes' /\ pc'[1] = to /\ pc'[2] = pc[2]
    BY <1>1, <2>1, <2>2, <2>3, ThreadMoves
  <2> QED BY <1>4, <2>1, <2>4 DEF PlaceInv
<1>5. ASSUME prog = "testKernelIO", OpenTwice \/ ReadBoth \/ WriteTwice \/ EndOfFile PROVE PlaceInv'
  <2>1. prog' = prog
    BY <1>5 DEF OpenTwice, ReadBoth, WriteTwice, EndOfFile, Only, program
  <2>2. PICK to \in {"read both", "endless", "write twice", "done"} : pc' = [pc EXCEPT ![1] = to]
    BY <1>5 DEF OpenTwice, ReadBoth, WriteTwice, EndOfFile, Only, Step
  <2>3. to \in Places
    BY DEF Places
  <2>4. PlaceTypes' /\ pc'[1] = to /\ pc'[2] = pc[2]
    BY <1>1, <2>1, <2>2, <2>3, ThreadMoves
  <2> QED BY <1>5, <2>1, <2>4 DEF PlaceInv
<1>6. ASSUME prog = "testKernelIO_pthread",
             NEW t \in Both, OpenInThread(t) \/ ReadFile(t) \/ WriteLetter(t)
      PROVE  PlaceInv'
  <2>1. prog' = prog
    BY <1>6 DEF OpenInThread, ReadFile, WriteLetter, Only, program
  <2>2. PICK to \in {"create", "read", "write", "join", "end", "endless"} :
             /\ pc' = [pc EXCEPT ![t] = to]
             /\ to \in {"create", "join"} => t = 1
             /\ to = "end" => t = 2
    BY <1>6 DEF OpenInThread, ReadFile, WriteLetter, Only, Step, After, Both
  <2>3. to \in Places
    BY DEF Places
  <2>4. PlaceTypes' /\ (t = 1 => pc'[1] = to /\ pc'[2] = pc[2]) /\ (t = 2 => pc'[2] = to /\ pc'[1] = pc[1])
    BY <1>1, <2>1, <2>2, <2>3, ThreadMoves
  <2>5. /\ pc[1] \in {"open", "create", "read", "write", "join", "done", "no thread", "endless"}
        /\ pc[2] \in {"none", "open", "read", "write", "end", "endless"}
    BY <1>6 DEF PlaceInv
  <2>6. /\ pc'[1] \in {"open", "create", "read", "write", "join", "done", "no thread", "endless"}
        /\ pc'[2] \in {"none", "open", "read", "write", "end", "endless"}
    <3>1. CASE t = 1
      BY <2>2, <2>4, <2>5, <3>1 DEF Both
    <3>2. CASE t = 2
      BY <2>2, <2>4, <2>5, <3>2 DEF Both
    <3> QED BY <3>1, <3>2 DEF Both
  <2> QED BY <1>6, <2>1, <2>4, <2>6 DEF PlaceInv
<1>7. ASSUME prog = "task3", Task3 \/ FopenFails(1) PROVE PlaceInv'
  <2>1. prog' = prog
    BY <1>7 DEF Task3, FopenFails, Fopen, Fprintf, LastFprintf, Fclose, Only, program
  <2>2. CASE pc' = pc
    BY <1>1, <1>7, <2>1, <2>2 DEF PlaceInv, PlaceTypes, Entry, Both, Places
  <2>3. CASE pc' # pc
    <3>1. PICK to \in {"fopen 2", "fprintf both", "fclose 1", "fclose 2", "done", "crashed"} :
             pc' = [pc EXCEPT ![1] = to]
      BY <1>7, <2>3 DEF Task3, FopenFails, Fopen, Fprintf, LastFprintf, Fclose, Only, Step
    <3>2. to \in Places
      BY DEF Places
    <3>3. PlaceTypes' /\ pc'[1] = to /\ pc'[2] = pc[2]
      BY <1>1, <2>1, <3>1, <3>2, ThreadMoves
    <3> QED BY <1>7, <2>1, <3>3 DEF PlaceInv
  <2> QED BY <2>2, <2>3
<1>8. ASSUME prog = "task3_pthread", NEW t \in Both, WriteToFile(t) PROVE PlaceInv'
  <2>1. prog' = prog
    BY <1>8 DEF WriteToFile, FopenFails, Fopen, Fprintf, LastFprintf, Fclose, Only, program
  <2>2. CASE pc' = pc
    BY <1>1, <1>8, <2>1, <2>2 DEF PlaceInv, PlaceTypes, Entry, Both, Places
  <2>3. CASE pc' = [pc EXCEPT ![1] = "crashed"]
    <3>1. "crashed" \in Places
      BY DEF Places
    <3>2. PlaceTypes' /\ pc'[1] = "crashed" /\ pc'[2] = pc[2]
      BY <1>1, <2>1, <2>3, <3>1, ThreadMoves
    <3> QED BY <1>8, <2>1, <3>2 DEF PlaceInv
  <2>4. CASE pc' # pc /\ pc' # [pc EXCEPT ![1] = "crashed"]
    <3>1. PICK to \in {"fprintf", "fclose", "join", "end"} :
            /\ pc[t] # "none" /\ pc' = [pc EXCEPT ![t] = to]
            /\ to = "join" => t = 1
            /\ to = "end" => t = 2
      BY <1>8, <2>4 DEF WriteToFile, FopenFails, Fopen, Fprintf, LastFprintf, Fclose, Only, Step,
                        After, Both
    <3>2. to \in Places
      BY DEF Places
    <3>3. PlaceTypes' /\ (t = 1 => pc'[1] = to /\ pc'[2] = pc[2]) /\ (t = 2 => pc'[2] = to /\ pc'[1] = pc[1])
      BY <1>1, <2>1, <3>1, <3>2, ThreadMoves
    <3>4. /\ pc[1] \in {"create", "fopen", "fprintf", "fclose", "join", "done", "no thread", "crashed"}
          /\ pc[2] \in {"none", "fopen", "fprintf", "fclose", "end"}
          /\ pc[1] = "create" => pc[2] = "none"
      BY <1>8 DEF PlaceInv
    <3>5. /\ pc'[1] \in {"create", "fopen", "fprintf", "fclose", "join", "done", "no thread", "crashed"}
          /\ pc'[2] \in {"none", "fopen", "fprintf", "fclose", "end"}
          /\ pc'[1] = "create" => pc'[2] = "none"
      <4>1. CASE t = 1
        BY <3>1, <3>3, <3>4, <4>1 DEF Both
      <4>2. CASE t = 2
        BY <3>1, <3>3, <3>4, <4>2 DEF Both
      <4> QED BY <4>1, <4>2 DEF Both
    <3> QED BY <1>8, <2>1, <3>3, <3>5 DEF PlaceInv
  <2> QED BY <2>2, <2>3, <2>4
<1>9. ASSUME prog \in {"testKernelIO_pthread", "task3_pthread"},
             PthreadCreate \/ PthreadCreateFails \/ PthreadJoin
      PROVE  PlaceInv'
  <2>1. CASE PthreadCreate
    <3>1. prog' = prog /\ pc' = IF prog = "task3_pthread" THEN [t \in Both |-> "fopen"]
                                ELSE [pc EXCEPT ![1] = "read", ![2] = "open"]
      BY <2>1 DEF PthreadCreate, program
    <3>2. /\ prog = "task3_pthread" => pc'[1] = "fopen" /\ pc'[2] = "fopen"
          /\ prog # "task3_pthread" => pc'[1] = "read" /\ pc'[2] = "open"
          /\ pc' \in [Both -> Places]
      <4>1. {"fopen", "read", "open"} \subseteq Places
        BY DEF Places
      <4>2. CASE prog = "task3_pthread"
        BY <3>1, <4>1, <4>2 DEF Both
      <4>3. CASE prog # "task3_pthread"
        BY <1>1, <3>1, <4>1, <4>3 DEF Both, PlaceTypes
      <4> QED BY <4>2, <4>3
    <3>3. PlaceTypes'
      BY <1>1, <3>1, <3>2 DEF PlaceTypes, Entry, Both, Places
    <3> QED BY <1>9, <3>1, <3>2, <3>3 DEF PlaceInv
  <2>2. CASE PthreadCreateFails \/ PthreadJoin
    <3>1. prog' = prog
      BY <2>2 DEF PthreadCreateFails, PthreadJoin, Only, program
    <3>2. PICK to \in {"no thread", "done"} : pc' = [pc EXCEPT ![1] = to]
      BY <2>2 DEF PthreadCreateFails, PthreadJoin, Only, Step
    <3>3. to \in Places
      BY DEF Places
    <3>4. PlaceTypes' /\ pc'[1] = to /\ pc'[2] = pc[2]
      BY <1>1, <3>1, <3>2, <3>3, ThreadMoves
    <3> QED BY <1>9, <3>1, <3>2, <3>4 DEF PlaceInv
  <2> QED BY <1>9, <2>1, <2>2
<1>10. QED
  BY <1>2, <1>3, <1>4, <1>5, <1>6, <1>7, <1>8, <1>9, OneProgramActs

\* Two descriptors with offsets of their own.
LEMMA TwiceKept ==
  ASSUME PlaceInv, prog = "testKernelIO", TwiceInv,
         OpenTwice \/ ReadBoth \/ WriteTwice \/ EndOfFile
  PROVE  TwiceInv'
<1>1. /\ LastLetter \in Nat /\ pc \in [Both -> Places] /\ 1 \in Both /\ 2 \in Both
      /\ Len(Alphabet) = LastLetter /\ \A i \in 1 .. LastLetter : Alphabet[i] = i
  <2>1. LastLetter \in Nat /\ pc \in [Both -> Places] /\ 1 \in Both /\ 2 \in Both
    BY LettersAssumption DEF PlaceInv, PlaceTypes, Both
  <2>2. /\ \A i \in 1 .. LastLetter : i \in Nat
        /\ Alphabet = [i \in 1 .. LastLetter |-> i]
    BY <2>1 DEF Alphabet
  <2>3. Len(Alphabet) = LastLetter /\ \A i \in 1 .. LastLetter : Alphabet[i] = i
    BY <2>1, <2>2, IsASeq
  <2> QED BY <2>1, <2>3
<1>2. PICK k \in 0 .. LastLetter : offset[1] = k /\ offset[2] = k
  BY <1>1 DEF TwiceInv
<1>3. CASE OpenTwice
  <2>1. /\ pc[1] = "open both" /\ \E to \in {"read both", "endless"} : pc' = [pc EXCEPT ![1] = to]
        /\ UNCHANGED <<file, offset, c, out>>
    BY <1>3 DEF OpenTwice, Only, Step
  <2> QED BY <1>1, <2>1 DEF TwiceInv
<1>4. CASE ReadBoth
  <2>1. /\ offset[1] < Len(file) /\ pc[1] = "read both" /\ pc' = [pc EXCEPT ![1] = "write twice"]
        /\ offset' = [d \in Both |-> offset[d] + 1]
        /\ c' = [c EXCEPT ![1] = file[offset'[2]]]
        /\ UNCHANGED <<file, out>>
    BY <1>1, <1>4 DEF ReadBoth, Step
  <2>2. k < LastLetter /\ out = Twice(k) /\ file = Alphabet /\ c \in [Both -> Nat]
    BY <1>1, <1>2, <2>1 DEF TwiceInv
  <2>3. offset' \in [Both -> 0 .. LastLetter] /\ offset'[1] = k + 1 /\ offset'[2] = k + 1
    <3>1. k + 1 \in 0 .. LastLetter
      BY <1>1, <1>2, <2>2
    <3>2. \A d \in Both : offset'[d] = k + 1
      BY <1>2, <2>1 DEF Both
    <3> QED BY <1>1, <2>1, <3>1, <3>2
  <2>4. c' \in [Both -> Nat] /\ c'[1] = k + 1
    <3>1. k + 1 \in 1 .. LastLetter
      BY <1>1, <1>2, <2>2
    <3>2. file[offset'[2]] = k + 1 /\ k + 1 \in Nat
      BY <1>1, <2>2, <2>3, <3>1
    <3> QED BY <1>1, <2>1, <2>2, <3>2
  <2>5. k + 1 - 1 = k /\ k + 1 # 0
    BY <1>2
  <2>6. pc'[1] = "write twice"
    BY <1>1, <2>1
  <2>7. (pc[1] = "write twice" => out = Twice(offset[1] - 1))'
    <3>1. out' = Twice(k)
      BY <2>1, <2>2
    <3>2. offset'[1] - 1 = k
      BY <2>3, <2>5
    <3> QED BY <3>1, <3>2 DEF Twice
  <2>8. file' = Alphabet' /\ (offset \in [Both -> 0 .. LastLetter] /\ c \in [Both -> Nat])'
    BY <2>1, <2>2, <2>3, <2>4 DEF Alphabet, Both
  <2> QED BY <2>3, <2>4, <2>5, <2>6, <2>7, <2>8 DEF TwiceInv
<1>5. CASE WriteTwice
  <2>1. /\ pc[1] = "write twice" /\ pc' = [pc EXCEPT ![1] = "read both"]
        /\ out' = out \o << <<1, c[1]>>, <<1, c[1]>> >>
        /\ UNCHANGED <<file, offset, c>>
    BY <1>5 DEF WriteTwice, Step
  <2>2. k # 0 /\ c[1] = k /\ out = Twice(k - 1)
    BY <1>1, <1>2, <2>1 DEF TwiceInv
  <2>3. out' = Twice(k)
    <3>1. PICK n \in Nat : n + 1 = k /\ k - 1 = n
      BY <1>1, <1>2, <2>2
    <3>2. Twice(n) \o << <<1, n + 1>>, <<1, n + 1>> >> = Twice(n + 1)
      BY <3>1, MoreTwice
    <3> QED BY <2>1, <2>2, <3>1, <3>2
  <2> QED BY <1>1, <1>2, <2>1, <2>3 DEF TwiceInv, Alphabet, Twice
<1>6. CASE EndOfFile
  <2>1. /\ \E d \in Both : offset[d] >= Len(file)
        /\ pc[1] = "read both" /\ pc' = [pc EXCEPT ![1] = "done"]
        /\ UNCHANGED <<file, offset, c, out>>
    BY <1>6 DEF EndOfFile, Only, Step
  <2>2. k = LastLetter
    <3>1. k >= LastLetter
      BY <1>1, <1>2, <2>1 DEF TwiceInv, Both
    <3> QED BY <1>1, <1>2, <3>1
  <2> QED BY <1>1, <1>2, <2>1, <2>2 DEF TwiceInv, Alphabet, Twice
<1>7. QED BY <1>3, <1>4, <1>5, <1>6

\* Every second letter, to its half, and the file that is written over.
LEMMA WholeFile ==
  ASSUME NEW s \in Both, file \in {<<>>, Letters(1, Half), Letters(2, Half)}
  PROVE  Written(Letters(s, Half), 0) = Letters(s, Half)
<1>1. Half \in Nat /\ 0 \in Nat /\ 1 \in Nat /\ 2 \in Nat /\ s \in Nat
  BY HalfOfAlphabet DEF Both
<1>2. \A t \in Nat : Letters(t, Half) \in Seq(Nat) /\ Len(Letters(t, Half)) = Half
  BY <1>1, MoreLetters
<1>3. <<>> \in Seq(Nat) /\ Len(<<>>) = 0
  OBVIOUS
<1>4. file \in Seq(Nat) /\ Len(file) <= Half
  <2>1. CASE file = <<>>
    BY <1>1, <1>3, <2>1
  <2>2. ASSUME NEW t \in {1, 2}, file = Letters(t, Half) PROVE file \in Seq(Nat) /\ Len(file) <= Half
    BY <1>1, <1>2, <2>2
  <2> QED BY <2>1, <2>2
<1>5. PICK data \in Seq(Nat) : data = Letters(s, Half)
  BY <1>1, <1>2
<1>6. Len(file) <= Len(data)
  BY <1>1, <1>2, <1>4, <1>5
<1>7. Written(data, 0) = data
  BY <1>4, <1>6, WrittenWhole
<1>8. QED BY <1>5, <1>7

\* Two streams that take turns: whose turn it is, and when all is written.
LEMMA WhoseTurn ==
  ASSUME NEW n \in Nat, NEW m \in Nat, NEW h \in Nat, n <= h, m <= h, n = m \/ n = m + 1
  PROVE  /\ (n + m + 1) % 2 = 1 /\ n + m + 1 <= 2 * h => n = m /\ n + m + 1 = 2 * n + 1 /\ n + 1 <= h
         /\ (n + m + 1) % 2 # 1 /\ n + m + 1 <= 2 * h => n = m + 1 /\ n + m + 1 = 2 * m + 2 /\ m + 1 <= h
         /\ n + m + 1 > 2 * h => n = h /\ m = h
<1>1. (2 * m + 1) % 2 = 1 /\ (2 * m + 2) % 2 = 0
  OBVIOUS
<1>2. CASE n = m
  BY <1>1, <1>2
<1>3. CASE n = m + 1
  BY <1>1, <1>3
<1>4. QED BY <1>2, <1>3

\* Two streams of one thread, opened, filled in turns and closed in order.
LEMMA TurnsKept ==
  ASSUME PlaceInv, prog = "task3", TurnsInv, Task3 \/ FopenFails(1)
  PROVE  TurnsInv'
<1>1. /\ Half \in Nat /\ LastLetter = 2 * Half /\ 1 \in Both /\ 2 \in Both
      /\ DOMAIN pc = Both /\ 1 \in Nat /\ 2 \in Nat /\ 0 \in Nat
  BY HalfOfAlphabet DEF PlaceInv, PlaceTypes, Both
<1>2. /\ offset = [d \in Both |-> 0] /\ c \in [Both -> Nat] /\ stream \in [Both -> Seq(Nat)]
      /\ \A s \in Both : stream[s] \in Seq(Nat) /\ Len(stream[s]) \in Nat
  BY LenProperties DEF TurnsInv
<1>3. Letters(1, 0) = <<>> /\ Letters(2, 0) = <<>> /\ Len(<<>>) = 0
  BY <1>1, MoreLetters
<1>4. ASSUME Fopen(1, 1, "fopen 1", "fopen 2") PROVE TurnsInv'
  <2>1. /\ pc[1] = "fopen 1" /\ pc'[1] = "fopen 2" /\ file' = <<>> /\ stream' = stream
        /\ offset' = [offset EXCEPT ![1] = 0] /\ c' = [c EXCEPT ![1] = 1]
    BY <1>1, <1>4 DEF Fopen, Step, Opened
  <2>2. offset' = [d \in Both |-> 0] /\ c' \in [Both -> Nat]
    BY <1>1, <1>2, <2>1
  <2>3. stream = [s \in Both |-> <<>>]
    BY <2>1 DEF TurnsInv
  <2> QED BY <1>2, <2>1, <2>2, <2>3 DEF TurnsInv, Letters, Half, Both
<1>5. ASSUME Fopen(1, 2, "fopen 2", "fprintf both") PROVE TurnsInv'
  <2>1. /\ pc[1] = "fopen 2" /\ pc'[1] = "fprintf both" /\ file' = <<>> /\ stream' = stream
        /\ offset' = [offset EXCEPT ![2] = 0] /\ c' = [c EXCEPT ![1] = 1]
    BY <1>1, <1>5 DEF Fopen, Step, Opened
  <2>2. offset' = [d \in Both |-> 0] /\ c' \in [Both -> Nat] /\ c'[1] = 1
    BY <1>1, <1>2, <2>1
  <2>3. stream = [s \in Both |-> <<>>]
    BY <2>1 DEF TurnsInv
  <2>4. \A s \in Both : stream'[s] = <<>> /\ Letters(s, 0) = <<>>
    BY <1>3, <2>1, <2>3 DEF Both
  <2>5. \A s \in Both : stream'[s] = Letters(s, Len(stream'[s])) /\ Len(stream'[s]) = 0
    BY <1>3, <2>4
  <2>6. (\A s \in Both : stream[s] = Letters(s, Len(stream[s])) /\ Len(stream[s]) <= Half)'
    BY <1>1, <2>5 DEF Letters, Half, Both
  <2>7. c'[1] = Len(stream'[1]) + Len(stream'[2]) + 1 /\ Len(stream'[1]) = Len(stream'[2])
    <3>1. Len(stream'[1]) = 0 /\ Len(stream'[2]) = 0
      BY <1>1, <2>5
    <3> QED BY <2>2, <3>1
  <2>8. (file \in {<<>>, Letters(1, Half), Letters(2, Half)})'
    BY <2>1
  <2>9. (offset = [d \in Both |-> 0] /\ c \in [Both -> Nat] /\ stream \in [Both -> Seq(Nat)])'
    BY <1>2, <2>1, <2>2 DEF Both
  <2> QED BY <2>1, <2>6, <2>7, <2>8, <2>9 DEF TurnsInv
<1>6. ASSUME Fprintf(1, IF c[1] % 2 = 1 THEN 1 ELSE 2, 1, "fprintf both") PROVE TurnsInv'
  <2>1. PICK s \in Both : s = IF c[1] % 2 = 1 THEN 1 ELSE 2
    BY DEF Both
  <2>2. /\ pc[1] = "fprintf both" /\ c[1] <= LastLetter
        /\ stream' = [stream EXCEPT ![s] = Append(stream[s], c[1])]
        /\ c' = [c EXCEPT ![1] = c[1] + 1]
        /\ UNCHANGED <<pc, file, offset>>
    BY <1>6, <2>1 DEF Fprintf
  <2>3. PICK n \in Nat, m \in Nat : n = Len(stream[1]) /\ m = Len(stream[2])
    BY <1>1, <1>2
  <2>4. /\ stream[1] = Letters(1, n) /\ stream[2] = Letters(2, m) /\ n <= Half /\ m <= Half
        /\ c[1] = n + m + 1 /\ (n = m \/ n = m + 1)
    BY <1>1, <2>2, <2>3 DEF TurnsInv
  <2>5. /\ s = 1 => n = m /\ c[1] = 2 * n + 1 /\ n + 1 <= Half
        /\ s = 2 => n = m + 1 /\ c[1] = 2 * m + 2 /\ m + 1 <= Half
    <3>1. (s = 1 <=> (n + m + 1) % 2 = 1) /\ n + m + 1 <= 2 * Half
      <4>1. PICK x : x = c[1]
        OBVIOUS
      <4>2. x = n + m + 1 /\ x <= 2 * Half /\ s = IF x % 2 = 1 THEN 1 ELSE 2
        BY <1>1, <2>1, <2>2, <2>4, <4>1
      <4> QED BY <4>2
    <3>2. /\ s = 1 => n = m /\ n + m + 1 = 2 * n + 1 /\ n + 1 <= Half
          /\ s = 2 => n = m + 1 /\ n + m + 1 = 2 * m + 2 /\ m + 1 <= Half
      BY <1>1, <2>4, <3>1, WhoseTurn
    <3> QED BY <2>4, <3>2
  <2>6. PICK k \in Nat, l \in Nat :
          /\ s = 1 => k = n + 1 /\ l = m
          /\ s = 2 => k = n /\ l = m + 1
    BY <2>3
  <2>7. stream'[1] = Letters(1, k) /\ stream'[2] = Letters(2, l)
    <3>1. CASE s = 1
      <4>1. Append(Letters(1, n), 2 * n + 1) = Letters(1, n + 1)
        BY <1>1, <2>3, MoreLetters
      <4> QED BY <1>1, <1>2, <2>2, <2>4, <2>5, <2>6, <3>1, <4>1
    <3>2. CASE s = 2
      <4>1. Append(Letters(2, m), 2 * m + 2) = Letters(2, m + 1)
        BY <1>1, <2>3, MoreLetters
      <4> QED BY <1>1, <1>2, <2>2, <2>4, <2>5, <2>6, <3>2, <4>1
    <3> QED BY <3>1, <3>2 DEF Both
  <2>8. Len(stream'[1]) = k /\ Len(stream'[2]) = l /\ stream' \in [Both -> Seq(Nat)]
    <3>1. /\ Letters(1, k) \in Seq(Nat) /\ Len(Letters(1, k)) = k
          /\ Letters(2, l) \in Seq(Nat) /\ Len(Letters(2, l)) = l
      BY <1>1, <2>6, MoreLetters
    <3>2. Append(stream[s], c[1]) \in Seq(Nat)
      BY <1>1, <1>2, <2>1, AppendProperties
    <3>3. stream' \in [Both -> Seq(Nat)]
      BY <1>2, <2>2, <3>2
    <3> QED BY <2>7, <3>1, <3>3
  <2>9. k + l = n + m + 1 /\ (k = l \/ k = l + 1) /\ k <= Half /\ l <= Half
    <3>1. CASE s = 1
      BY <1>1, <2>4, <2>5, <2>6, <3>1
    <3>2. CASE s = 2
      BY <1>1, <2>4, <2>5, <2>6, <3>2
    <3> QED BY <3>1, <3>2 DEF Both
  <2>10. c' \in [Both -> Nat] /\ c'[1] = k + l + 1
    <3>1. c[1] = k + l /\ k + l + 1 \in Nat
      BY <2>4, <2>9
    <3>2. c' = [c EXCEPT ![1] = k + l + 1]
      BY <2>2, <3>1
    <3> QED BY <1>1, <1>2, <3>1, <3>2
  <2>11. \A t \in Both : stream'[t] = Letters(t, Len(stream'[t])) /\ Len(stream'[t]) <= Half
    BY <2>7, <2>8, <2>9 DEF Both
  <2>12. (\A t \in Both : stream[t] = Letters(t, Len(stream[t])) /\ Len(stream[t]) <= Half)'
    BY <2>11 DEF Letters, Half, Both
  <2>13. (file \in {<<>>, Letters(1, Half), Letters(2, Half)})'
    <3>1. file \in {<<>>, Letters(1, Half), Letters(2, Half)}
      BY <2>2 DEF TurnsInv
    <3> QED BY <2>2, <3>1 DEF Letters, Half
  <2>14. (offset = [d \in Both |-> 0] /\ c \in [Both -> Nat] /\ stream \in [Both -> Seq(Nat)])'
    BY <1>2, <2>2, <2>8, <2>10 DEF Both
  <2>15. (c[1] = Len(stream[1]) + Len(stream[2]) + 1)'
         /\ (Len(stream[1]) = Len(stream[2]) \/ Len(stream[1]) = Len(stream[2]) + 1)'
    BY <2>8, <2>9, <2>10
  <2>16. pc'[1] = "fprintf both"
    BY <2>2
  <2> QED BY <2>12, <2>13, <2>14, <2>15, <2>16 DEF TurnsInv
<1>7. ASSUME LastFprintf(1, "fprintf both", "fclose 1") PROVE TurnsInv'
  <2>1. /\ c[1] > LastLetter /\ pc[1] = "fprintf both" /\ pc'[1] = "fclose 1"
        /\ UNCHANGED <<file, offset, stream, c>>
    BY <1>1, <1>7 DEF LastFprintf, Only, Step
  <2>2. PICK n \in Nat, m \in Nat : n = Len(stream[1]) /\ m = Len(stream[2])
    BY <1>1, <1>2
  <2>3. /\ stream[1] = Letters(1, n) /\ stream[2] = Letters(2, m) /\ n <= Half /\ m <= Half
        /\ c[1] = n + m + 1 /\ (n = m \/ n = m + 1)
    BY <1>1, <2>1, <2>2 DEF TurnsInv
  <2>4. n = Half /\ m = Half
    <3>1. n + m + 1 > 2 * Half
      BY <1>1, <2>1, <2>3
    <3> QED BY <1>1, <2>3, <3>1, WhoseTurn
  <2>5. stream'[1] = Letters(1, Half) /\ stream'[2] = Letters(2, Half)
    BY <2>1, <2>3, <2>4
  <2>6. file \in {<<>>, Letters(1, Half), Letters(2, Half)}
    BY <2>1 DEF TurnsInv
  <2> QED BY <1>2, <2>1, <2>5, <2>6 DEF TurnsInv, Letters, Half, Both
<1>8. ASSUME NEW s \in Both,
             s = 1 => Fclose(1, 1, "fclose 1", "fclose 2"),
             s = 2 => Fclose(1, 2, "fclose 2", "done")
      PROVE  TurnsInv'
  <2>1. /\ s = 1 => pc[1] = "fclose 1" /\ pc'[1] = "fclose 2"
        /\ s = 2 => pc[1] = "fclose 2" /\ pc'[1] = "done"
        /\ file' = Written(stream[s], offset[s])
        /\ stream' = [stream EXCEPT ![s] = <<>>]
        /\ UNCHANGED <<offset, c>>
    <3>1. CASE s = 1
      <4>1. Fclose(1, 1, "fclose 1", "fclose 2")
        BY <1>8, <3>1
      <4>2. /\ pc[1] = "fclose 1" /\ pc'[1] = "fclose 2"
            /\ file' = Written(stream[1], offset[1])
            /\ stream' = [stream EXCEPT ![1] = <<>>]
            /\ UNCHANGED <<offset, c>>
        BY <1>1, <4>1 DEF Fclose, Step
      <4>3. s # 2
        BY <3>1
      <4> QED BY <3>1, <4>2, <4>3
    <3>2. CASE s = 2
      <4>1. Fclose(1, 2, "fclose 2", "done")
        BY <1>8, <3>2
      <4>2. /\ pc[1] = "fclose 2" /\ pc'[1] = "done"
            /\ file' = Written(stream[2], offset[2])
            /\ stream' = [stream EXCEPT ![2] = <<>>]
            /\ UNCHANGED <<offset, c>>
        BY <1>1, <4>1 DEF Fclose, Step
      <4>3. s # 1
        BY <3>2
      <4> QED BY <3>2, <4>2, <4>3
    <3> QED BY <3>1, <3>2 DEF Both
  <2>2. /\ stream[s] = Letters(s, Half) /\ offset[s] = 0
        /\ file \in {<<>>, Letters(1, Half), Letters(2, Half)}
    BY <1>2, <2>1 DEF TurnsInv, Both
  <2>3. file' = Letters(s, Half)
    BY <2>1, <2>2, WholeFile
  <2>4. stream' \in [Both -> Seq(Nat)] /\ (s = 1 => stream'[2] = stream[2])
    <3>1. <<>> \in Seq(Nat)
      OBVIOUS
    <3> QED BY <1>1, <1>2, <2>1, <3>1
  <2>5. s = 1 => stream[2] = Letters(2, Half)
    BY <2>1 DEF TurnsInv
  <2> QED BY <1>2, <2>1, <2>3, <2>4, <2>5 DEF TurnsInv, Letters, Half, Both
<1>9. ASSUME FopenFails(1) PROVE TurnsInv'
  <2>1. pc'[1] = "crashed" /\ UNCHANGED <<file, offset, stream, c>>
    BY <1>1, <1>9 DEF FopenFails
  <2> QED BY <1>2, <2>1 DEF TurnsInv, Both
<1>10. ASSUME Fclose(1, 1, "fclose 1", "fclose 2") PROVE TurnsInv'
  <2>1. PICK s \in Both : s = 1 /\ s # 2
    BY <1>1
  <2>2. /\ s = 1 => Fclose(1, 1, "fclose 1", "fclose 2")
        /\ s = 2 => Fclose(1, 2, "fclose 2", "done")
    BY <1>10, <2>1
  <2> QED BY ONLY <1>8, <2>2
<1>11. ASSUME Fclose(1, 2, "fclose 2", "done") PROVE TurnsInv'
  <2>1. PICK s \in Both : s = 2 /\ s # 1
    BY <1>1
  <2>2. /\ s = 1 => Fclose(1, 1, "fclose 1", "fclose 2")
        /\ s = 2 => Fclose(1, 2, "fclose 2", "done")
    BY <1>11, <2>1
  <2> QED BY ONLY <1>8, <2>2
<1>12. QED BY <1>4, <1>5, <1>6, <1>7, <1>9, <1>10, <1>11 DEF Task3

\* What a thread relies on stays true while the other one acts.
LEMMA OtherThreadKept ==
  ASSUME NEW u \in Both, ThreadInv(u), stream \in [Both -> Seq(Nat)],
         pc'[u] = pc[u], stream'[u] = stream[u], c'[u] = c[u],
         file' = file \/ file' \in {<<>>, Letters(1, Half), Letters(2, Half)}
  PROVE  ThreadInv(u)'
<1>1. (pc[u] \in {"create", "none", "fopen"} => stream[u] = <<>>)'
  BY DEF ThreadInv
<1>2. (pc[u] = "fclose" => stream[u] = Letters(u, Half))'
  BY DEF ThreadInv, Letters, Half
<1>3. (pc[u] \in {"fprintf", "fclose"} => file \in {<<>>, Letters(1, Half), Letters(2, Half)})'
  BY DEF ThreadInv, Letters, Half
<1>4. (pc[u] = "fprintf" => stream[u] = Letters(u, Len(stream[u])))'
  BY DEF ThreadInv, Letters, Half
<1>5. (pc[u] = "fprintf" => Len(stream[u]) <= Half /\ c[u] = 2 * Len(stream[u]) + u)'
  BY DEF ThreadInv, Half
<1>6. QED BY <1>1, <1>2, <1>3, <1>4, <1>5 DEF ThreadInv

\* What t writes next, until it has written all of its letters.
LEMMA NextOfThread ==
  ASSUME NEW t \in Both, NEW n \in Nat, NEW h \in Nat, n <= h
  PROVE  /\ 2 * n + t <= 2 * h => n + 1 <= h
         /\ 2 * n + t > 2 * h => n = h
         /\ 2 * n + t + 2 = 2 * (n + 1) + t
<1>1. t = 1 \/ t = 2
  BY DEF Both
<1>2. CASE t = 1
  BY <1>2
<1>3. CASE t = 2
  BY <1>3
<1>4. QED BY <1>1, <1>2, <1>3

\* A thread opens its file, fills its stream and closes it.
LEMMA ThreadKept ==
  ASSUME PlaceInv, prog = "task3_pthread", ThreadsInv,
         NEW t \in Both, NEW u \in Both, u # t, WriteToFile(t)
  PROVE  /\ (offset = [d \in Both |-> 0] /\ c \in [Both -> Nat] /\ stream \in [Both -> Seq(Nat)])'
         /\ ThreadInv(t)' /\ ThreadInv(u)'
         /\ \/ pc'[1] = "crashed"
            \/ pc'[t] \in {"fprintf", "fclose"} /\ pc'[u] = pc[u]
            \/ /\ pc'[t] = After(t) /\ pc'[u] = pc[u]
               /\ file' = Letters(t, Half) /\ last' = t
<1>1. /\ Half \in Nat /\ LastLetter = 2 * Half /\ 1 \in Both /\ 2 \in Both
      /\ DOMAIN pc = Both /\ t \in Nat /\ 0 \in Nat
  <2>1. Half \in Nat /\ LastLetter = 2 * Half /\ DOMAIN pc = Both
    BY HalfOfAlphabet DEF PlaceInv, PlaceTypes
  <2> QED BY <2>1 DEF Both
<1>2. /\ offset = [d \in Both |-> 0] /\ c \in [Both -> Nat] /\ stream \in [Both -> Seq(Nat)]
      /\ ThreadInv(t) /\ ThreadInv(u)
      /\ stream[t] \in Seq(Nat) /\ Len(stream[t]) \in Nat
  <2>1. /\ offset = [d \in Both |-> 0] /\ c \in [Both -> Nat] /\ stream \in [Both -> Seq(Nat)]
        /\ ThreadInv(1) /\ ThreadInv(2)
    BY DEF ThreadsInv
  <2>2. ThreadInv(t) /\ ThreadInv(u)
    <3>1. CASE t = 1 /\ u = 2
      BY <2>1, <3>1
    <3>2. CASE t = 2 /\ u = 1
      BY <2>1, <3>2
    <3> QED BY <3>1, <3>2 DEF Both
  <2> QED BY <2>1, <2>2, LenProperties
<1>3. CASE Fopen(t, t, "fopen", "fprintf")
  <2>1. /\ pc[t] = "fopen" /\ pc'[t] = "fprintf" /\ pc'[u] = pc[u] /\ file' = <<>>
        /\ stream' = stream /\ offset' = [offset EXCEPT ![t] = 0] /\ c' = [c EXCEPT ![t] = t]
    BY <1>1, <1>3 DEF Fopen, Step, Opened
  <2>2. /\ offset' = [d \in Both |-> 0] /\ c' \in [Both -> Nat] /\ c'[t] = t /\ c'[u] = c[u]
        /\ stream'[t] = <<>>
    BY <1>1, <1>2, <2>1 DEF ThreadInv
  <2>3. ThreadInv(u)'
    BY <1>2, <2>1, <2>2, OtherThreadKept
  <2>4. Letters(t, 0) = <<>> /\ Len(<<>>) = 0 /\ 2 * 0 + t = t
    BY <1>1, MoreLetters
  <2>5. (stream[t] = Letters(t, Len(stream[t])))'
    <3>1. stream'[t] = Letters(t, Len(stream'[t]))
      BY <2>2, <2>4
    <3> QED BY <3>1 DEF Letters
  <2>6. (Len(stream[t]) <= Half /\ c[t] = 2 * Len(stream[t]) + t)'
    <3>1. Len(stream'[t]) = 0
      BY <2>2, <2>4
    <3>2. Len(stream'[t]) <= Half /\ c'[t] = 2 * Len(stream'[t]) + t
      BY <1>1, <2>2, <3>1
    <3> QED BY <3>2 DEF Half
  <2>7. ThreadInv(t)'
    BY <2>1, <2>5, <2>6 DEF ThreadInv
  <2> QED BY <1>2, <2>1, <2>2, <2>3, <2>7 DEF Both
<1>4. CASE FopenFails(t)
  <2>1. /\ pc[t] = "fopen" /\ pc' = [pc EXCEPT ![1] = "crashed"]
        /\ UNCHANGED <<file, offset, stream, c>>
    <3>1. pc[t] # "fopen 1"
      BY DEF PlaceInv, Both
    <3> QED BY <1>4, <3>1 DEF FopenFails
  <2>2. pc'[1] = "crashed"
    BY <1>1, <2>1
  <2>3. ASSUME NEW v \in Both, ThreadInv(v) PROVE ThreadInv(v)'
    <3>1. CASE pc'[v] = pc[v]
      BY <1>2, <2>1, <2>3, <3>1, OtherThreadKept
    <3>2. CASE pc'[v] = "crashed"
      BY <3>2 DEF ThreadInv
    <3> QED BY <1>1, <2>1, <3>1, <3>2
  <2> QED BY <1>2, <2>1, <2>2, <2>3 DEF Both
<1>5. CASE Fprintf(t, t, 2, "fprintf")
  <2>1. /\ pc[t] = "fprintf" /\ c[t] <= LastLetter
        /\ stream' = [stream EXCEPT ![t] = Append(stream[t], c[t])]
        /\ c' = [c EXCEPT ![t] = c[t] + 2]
        /\ UNCHANGED <<pc, file, offset>>
    BY <1>5 DEF Fprintf
  <2>2. PICK n \in Nat : n = Len(stream[t])
    BY <1>2
  <2>3. /\ stream[t] = Letters(t, n) /\ n <= Half /\ c[t] = 2 * n + t
        /\ file \in {<<>>, Letters(1, Half), Letters(2, Half)}
    BY <1>2, <2>1, <2>2 DEF ThreadInv
  <2>4. n + 1 <= Half /\ n + 1 \in Nat /\ c[t] + 2 = 2 * (n + 1) + t /\ c[t] + 2 \in Nat
    <3>1. 2 * n + t <= 2 * Half
      BY <1>1, <2>1, <2>3
    <3>2. n + 1 <= Half /\ 2 * n + t + 2 = 2 * (n + 1) + t
      BY <1>1, <2>3, <3>1, NextOfThread
    <3>3. c[t] + 2 = 2 * (n + 1) + t
      BY <2>3, <3>2
    <3> QED BY <1>1, <3>2, <3>3
  <2>5. stream'[t] = Letters(t, n + 1) /\ Len(stream'[t]) = n + 1 /\ Letters(t, n + 1) \in Seq(Nat)
    <3>1. Append(Letters(t, n), 2 * n + t) = Letters(t, n + 1)
      BY <1>1, MoreLetters
    <3>2. Letters(t, n + 1) \in Seq(Nat) /\ Len(Letters(t, n + 1)) = n + 1
      BY <1>1, <2>4, MoreLetters
    <3>3. stream'[t] = Letters(t, n + 1)
      BY <1>2, <2>1, <2>3, <3>1
    <3> QED BY <3>2, <3>3
  <2>6. stream' \in [Both -> Seq(Nat)] /\ stream'[u] = stream[u]
    <3>1. Append(stream[t], c[t]) \in Seq(Nat)
      BY <1>2, AppendProperties
    <3> QED BY <1>2, <2>1, <3>1
  <2>7. c' \in [Both -> Nat] /\ c'[t] = 2 * (n + 1) + t /\ c'[u] = c[u]
    BY <1>2, <2>1, <2>4
  <2>8. ThreadInv(u)'
    BY <1>2, <2>1, <2>6, <2>7, OtherThreadKept
  <2>9. (stream[t] = Letters(t, Len(stream[t])))'
    <3>1. stream'[t] = Letters(t, Len(stream'[t]))
      BY <2>5
    <3> QED BY <3>1 DEF Letters
  <2>10. (Len(stream[t]) <= Half /\ c[t] = 2 * Len(stream[t]) + t)'
    <3>1. Len(stream'[t]) <= Half /\ c'[t] = 2 * Len(stream'[t]) + t
      BY <2>4, <2>5, <2>7
    <3> QED BY <3>1 DEF Half
  <2>11. (file \in {<<>>, Letters(1, Half), Letters(2, Half)})'
    BY <2>1, <2>3 DEF Letters, Half
  <2>12. ThreadInv(t)'
    BY <2>1, <2>9, <2>10, <2>11 DEF ThreadInv
  <2> QED BY <1>2, <2>1, <2>6, <2>7, <2>8, <2>12 DEF Both
<1>6. CASE LastFprintf(t, "fprintf", "fclose")
  <2>1. /\ c[t] > LastLetter /\ pc[t] = "fprintf" /\ pc'[t] = "fclose" /\ pc'[u] = pc[u]
        /\ UNCHANGED <<file, offset, stream, c>>
    BY <1>1, <1>6 DEF LastFprintf, Only, Step
  <2>2. PICK n \in Nat : n = Len(stream[t])
    BY <1>2
  <2>3. /\ stream[t] = Letters(t, n) /\ n <= Half /\ c[t] = 2 * n + t
        /\ file \in {<<>>, Letters(1, Half), Letters(2, Half)}
    BY <1>2, <2>1, <2>2 DEF ThreadInv
  <2>4. n = Half
    <3>1. 2 * n + t > 2 * Half
      BY <1>1, <2>1, <2>3
    <3> QED BY <1>1, <2>3, <3>1, NextOfThread
  <2>5. stream'[t] = Letters(t, Half)
    BY <2>1, <2>3, <2>4
  <2>6. (stream[t] = Letters(t, Half) /\ file \in {<<>>, Letters(1, Half), Letters(2, Half)})'
    BY <2>1, <2>3, <2>5 DEF Letters, Half
  <2>7. ThreadInv(t)'
    BY <2>1, <2>6 DEF ThreadInv
  <2>8. ThreadInv(u)'
    BY <1>2, <2>1, OtherThreadKept
  <2> QED BY <1>2, <2>1, <2>7, <2>8 DEF Both
<1>7. CASE Fclose(t, t, "fclose", After(t))
  <2>1. /\ pc[t] = "fclose" /\ pc'[t] = After(t) /\ pc'[u] = pc[u]
        /\ file' = Written(stream[t], offset[t])
        /\ stream' = [stream EXCEPT ![t] = <<>>] /\ last' = t
        /\ UNCHANGED <<offset, c>>
    BY <1>1, <1>7 DEF Fclose, Step
  <2>2. /\ stream[t] = Letters(t, Half) /\ offset[t] = 0
        /\ file \in {<<>>, Letters(1, Half), Letters(2, Half)}
    BY <1>2, <2>1 DEF ThreadInv
  <2>3. file' = Letters(t, Half)
    BY <2>1, <2>2, WholeFile
  <2>4. stream' \in [Both -> Seq(Nat)] /\ stream'[u] = stream[u]
    <3>1. <<>> \in Seq(Nat)
      OBVIOUS
    <3> QED BY <1>2, <2>1, <3>1
  <2>5. file' \in {<<>>, Letters(1, Half), Letters(2, Half)}
    BY <2>3 DEF Both
  <2>6. ThreadInv(u)'
    BY <1>2, <2>1, <2>4, <2>5, OtherThreadKept
  <2>7. ThreadInv(t)'
    BY <2>1 DEF ThreadInv, After
  <2> QED BY <1>2, <2>1, <2>3, <2>4, <2>6, <2>7 DEF Both
<1>8. QED BY <1>3, <1>4, <1>5, <1>6, <1>7 DEF WriteToFile

\* Two threads, each with its file and its stream.
LEMMA ThreadsKept ==
  ASSUME PlaceInv, PlaceInv', prog = "task3_pthread", prog' = prog, ThreadsInv,
         \/ PthreadCreate \/ PthreadCreateFails \/ PthreadJoin
         \/ \E t \in Both : WriteToFile(t)
  PROVE  ThreadsInv'
<1>1. /\ 1 \in Both /\ 2 \in Both /\ DOMAIN pc = Both /\ Half \in Nat
      /\ offset = [d \in Both |-> 0] /\ c \in [Both -> Nat] /\ stream \in [Both -> Seq(Nat)]
      /\ ThreadInv(1) /\ ThreadInv(2)
  BY HalfOfAlphabet DEF PlaceInv, PlaceTypes, ThreadsInv, Both
<1>2. CASE PthreadCreate \/ PthreadCreateFails \/ PthreadJoin
  <2>1. UNCHANGED <<file, offset, stream, c, last>>
    BY <1>2 DEF PthreadCreate, PthreadCreateFails, PthreadJoin, Only
  <2>2. /\ pc[1] = "create" => pc[2] = "none"
        /\ pc[1] = "join" => pc'[1] = "done" /\ pc'[2] = "end" /\ pc[2] = "end"
        /\ pc[1] = "create" => pc'[1] \in {"fopen", "no thread"} /\ pc'[2] \in {"fopen", "none"}
        /\ pc[1] \in {"create", "join"}
    <3>1. pc[1] = "create" => pc[2] = "none"
      BY DEF PlaceInv
    <3>2. CASE PthreadCreate
      BY <1>1, <3>1, <3>2 DEF PthreadCreate
    <3>3. CASE PthreadCreateFails \/ PthreadJoin
      BY <1>1, <3>1, <3>3 DEF PthreadCreateFails, PthreadJoin, Only, Step
    <3> QED BY <1>2, <3>2, <3>3
  <2>3. CASE pc[1] = "create"
    <3>1. stream'[1] = <<>> /\ stream'[2] = <<>>
      BY <1>1, <2>1, <2>2, <2>3 DEF ThreadInv
    <3>2. ThreadInv(1)' /\ ThreadInv(2)'
      BY <2>2, <2>3, <3>1 DEF ThreadInv
    <3> QED BY <1>1, <2>1, <2>2, <2>3, <3>2 DEF ThreadsInv, Both
  <2>4. CASE pc[1] = "join"
    <3>1. last \in Both /\ file = Letters(last, Half)
      BY <2>2, <2>4 DEF ThreadsInv
    <3>2. ThreadInv(1)' /\ ThreadInv(2)'
      BY <2>2, <2>4 DEF ThreadInv
    <3>3. (last \in Both /\ file = Letters(last, Half))'
      BY <2>1, <3>1 DEF Letters, Half, Both
    <3> QED BY <1>1, <2>1, <2>2, <2>4, <3>2, <3>3 DEF ThreadsInv, Both
  <2> QED BY <2>2, <2>3, <2>4
<1>3. ASSUME NEW t \in Both, NEW u \in Both, u # t, WriteToFile(t) PROVE ThreadsInv'
  <2>1. /\ (offset = [d \in Both |-> 0] /\ c \in [Both -> Nat] /\ stream \in [Both -> Seq(Nat)])'
        /\ ThreadInv(t)' /\ ThreadInv(u)'
        /\ \/ pc'[1] = "crashed"
           \/ pc'[t] \in {"fprintf", "fclose"} /\ pc'[u] = pc[u]
           \/ /\ pc'[t] = After(t) /\ pc'[u] = pc[u]
              /\ file' = Letters(t, Half) /\ last' = t
    BY <1>3, ThreadKept
  <2>2. ThreadInv(1)' /\ ThreadInv(2)'
    <3>1. CASE t = 1 /\ u = 2
      BY <2>1, <3>1
    <3>2. CASE t = 2 /\ u = 1
      BY <2>1, <3>2
    <3> QED BY <1>3, <3>1, <3>2 DEF Both
  <2>3. pc'[1] # "done"
    <3>1. pc[1] # "done" \/ t = 2
      BY <1>3 DEF WriteToFile, Fopen, FopenFails, Fprintf, LastFprintf, Fclose, Only, Step, Both
    <3>2. pc[1] = "done" => pc[2] = "end"
      BY DEF ThreadsInv
    <3>3. pc[t] # "end"
      BY <1>3 DEF WriteToFile, Fopen, FopenFails, Fprintf, LastFprintf, Fclose, Only, Step
    <3>4. pc[1] # "done"
      BY <3>1, <3>2, <3>3
    <3>5. CASE t = 1 /\ u = 2
      BY <2>1, <3>5 DEF After
    <3>6. CASE t = 2 /\ u = 1
      BY <2>1, <3>4, <3>6
    <3> QED BY <1>3, <3>5, <3>6 DEF Both
  <2>4. (pc[1] \in {"join", "done"} /\ pc[2] = "end" => last \in Both /\ file = Letters(last, Half))'
    <3>1. CASE pc'[1] = "crashed"
      BY <3>1
    <3>2. CASE pc'[t] \in {"fprintf", "fclose"}
      <4>1. CASE t = 1
        BY <3>2, <4>1
      <4>2. CASE t = 2
        BY <3>2, <4>2
      <4> QED BY <4>1, <4>2 DEF Both
    <3>3. CASE file' = Letters(t, Half) /\ last' = t
      <4>1. last' \in Both /\ file' = Letters(last', Half)
        BY <3>3
      <4> QED BY <4>1 DEF Letters, Half, Both
    <3> QED BY <2>1, <3>1, <3>2, <3>3
  <2> QED BY <2>1, <2>2, <2>3, <2>4 DEF ThreadsInv
<1>4. ASSUME NEW t \in Both, WriteToFile(t) PROVE ThreadsInv'
  <2>1. PICK u \in Both : u # t
    BY DEF Both
  <2> QED BY <1>3, <1>4, <2>1
<1>5. QED BY <1>2, <1>4

\* The first state, and the first step of each program.
LEMMA RunBegins ==
  ASSUME PlaceInv, NEW p \in DOMAIN Entry, Run(p)
  PROVE  /\ prog' = "testKernelIO" => TwiceInv'
         /\ prog' = "task3" => TurnsInv'
         /\ prog' = "task3_pthread" => ThreadsInv'
<1>1. /\ FilesInit /\ prog' = p /\ pc' = [pc EXCEPT ![1] = Entry[p]]
      /\ UNCHANGED <<file, offset, stream, c, out, last>>
  BY DEF Run, PlaceInv
<1>2. /\ file' = Alphabet /\ pc = [t \in Both |-> "none"] /\ offset' = [d \in Both |-> 0]
      /\ stream' = [s \in Both |-> <<>>] /\ c' = [t \in Both |-> 1] /\ out' = <<>>
  BY <1>1 DEF FilesInit, AtRest
<1>3. /\ p = "testKernelIO" => pc'[1] = "open both"
      /\ p = "task3" => pc'[1] = "fopen 1"
      /\ p = "task3_pthread" => pc'[1] = "create"
      /\ pc'[2] = "none"
  <2>1. pc'[1] = Entry[p] /\ pc'[2] = "none"
    <3>1. PICK to : to = Entry[p]
      OBVIOUS
    <3>2. pc' = [pc EXCEPT ![1] = to]
      BY <1>1, <3>1
    <3> QED BY <1>2, <3>1, <3>2 DEF Both
  <2>2. /\ Entry["testKernelIO"] = "open both" /\ Entry["task3"] = "fopen 1"
        /\ Entry["task3_pthread"] = "create"
    BY DEF Entry
  <2> QED BY <2>1, <2>2
<1>4. /\ c' \in [Both -> Nat] /\ stream' \in [Both -> Seq(Nat)]
      /\ offset' \in [Both -> 0 .. LastLetter] /\ offset'[1] = 0 /\ offset'[2] = 0
      /\ stream'[1] = <<>> /\ stream'[2] = <<>>
  <2>1. <<>> \in Seq(Nat) /\ 1 \in Nat /\ 0 \in 0 .. LastLetter
    BY LettersAssumption
  <2> QED BY <1>2, <2>1 DEF Both
<1>5. ASSUME p = "testKernelIO" PROVE TwiceInv'
  <2>1. (out = Twice(offset[1]))'
    <3>1. out' = Twice(0)
      BY <1>2, MoreTwice
    <3> QED BY <1>4, <3>1 DEF Twice
  <2>2. (file = Alphabet)'
    BY <1>2 DEF Alphabet
  <2>3. (offset \in [Both -> 0 .. LastLetter] /\ c \in [Both -> Nat] /\ offset[1] = offset[2])'
    BY <1>4 DEF Both
  <2>4. pc'[1] = "open both"
    BY <1>3, <1>5
  <2> QED BY <2>1, <2>2, <2>3, <2>4 DEF TwiceInv
<1>6. ASSUME p = "task3" PROVE TurnsInv'
  BY <1>2, <1>3, <1>4, <1>6 DEF TurnsInv, Both
<1>7. ASSUME p = "task3_pthread" PROVE ThreadsInv'
  <2>1. ThreadInv(1)' /\ ThreadInv(2)'
    BY <1>3, <1>4, <1>7 DEF ThreadInv
  <2> QED BY <1>2, <1>3, <1>4, <1>7, <2>1 DEF ThreadsInv, Both
<1>8. QED BY <1>1, <1>5, <1>6, <1>7

\* What the programs that write do to the file and to the output, for an
\* alphabet of any even length.
THEOREM FilesInvCorrect == FilesSpec => []FilesInv
<1>1. FilesInit => FilesInv
  <2> SUFFICES ASSUME FilesInit PROVE FilesInv
    OBVIOUS
  <2>1. prog = "none" /\ pc = [t \in Both |-> "none"]
    BY DEF FilesInit, AtRest
  <2>2. PlaceTypes
    BY <2>1 DEF PlaceTypes, Places, Both
  <2> QED BY <2>1, <2>2 DEF FilesInv, PlaceInv
<1>2. FilesInv /\ [FilesNext]_fileVars => FilesInv'
  <2> SUFFICES ASSUME FilesInv, [FilesNext]_fileVars PROVE FilesInv'
    OBVIOUS
  <2>1. CASE UNCHANGED fileVars
    <3>1. UNCHANGED <<prog, access, pc, file, offset, stream, flag, c, out, last>>
      BY <2>1 DEF fileVars, program
    <3>2. PlaceInv'
      BY <3>1 DEF FilesInv, PlaceInv, PlaceTypes, FilesInit, AtRest, Alphabet, Entry, Both, Places
    <3>3. prog = "testKernelIO" => TwiceInv'
      BY <3>1 DEF FilesInv, TwiceInv, Twice, Alphabet, Both
    <3>4. prog = "task3" => TurnsInv'
      BY <3>1 DEF FilesInv, TurnsInv, Letters, Half, Both
    <3>5. prog = "task3_pthread" => ThreadsInv'
      BY <3>1 DEF FilesInv, ThreadsInv, ThreadInv, Letters, Half, Both
    <3> QED BY <3>1, <3>2, <3>3, <3>4, <3>5 DEF FilesInv
  <2>2. ASSUME FilesNext PROVE FilesInv'
    <3>1. PlaceInv /\ PlaceInv'
      BY <2>2, PlacesKept DEF FilesInv
    <3>2. ASSUME NEW p \in DOMAIN Entry, Run(p) PROVE FilesInv'
      BY <3>1, <3>2, RunBegins DEF FilesInv
    <3>3. CASE Quit
      <4>1. prog' = "none"
        BY <3>3 DEF Quit
      <4> QED BY <3>1, <4>1 DEF FilesInv
    <3>4. ASSUME prog = "testCIO", OpenStreams \/ \E s \in Both : Fscanf(s) PROVE FilesInv'
      <4>1. prog' = "testCIO"
        BY <3>4 DEF OpenStreams, Fscanf, Only, program
      <4> QED BY <3>1, <4>1 DEF FilesInv
    <3>5. ASSUME prog = "testKernelIO", OpenTwice \/ ReadBoth \/ WriteTwice \/ EndOfFile
          PROVE  FilesInv'
      <4>1. prog' = "testKernelIO"
        BY <3>5 DEF OpenTwice, ReadBoth, WriteTwice, EndOfFile, Only, program
      <4>2. TwiceInv'
        BY <3>1, <3>5, TwiceKept DEF FilesInv
      <4> QED BY <3>1, <4>1, <4>2 DEF FilesInv
    <3>6. ASSUME prog = "testKernelIO_pthread",
                 \/ PthreadCreate \/ PthreadCreateFails \/ PthreadJoin
                 \/ \E t \in Both : OpenInThread(t) \/ ReadFile(t) \/ WriteLetter(t)
          PROVE  FilesInv'
      <4>1. prog' = "testKernelIO_pthread"
        BY <3>6 DEF PthreadCreate, PthreadCreateFails, PthreadJoin, OpenInThread, ReadFile,
                    WriteLetter, Only, program
      <4> QED BY <3>1, <4>1 DEF FilesInv
    <3>7. ASSUME prog = "task3", Task3 \/ FopenFails(1) PROVE FilesInv'
      <4>1. prog' = "task3"
        BY <3>7 DEF Task3, FopenFails, Fopen, Fprintf, LastFprintf, Fclose, Only, program
      <4>2. TurnsInv'
        BY <3>1, <3>7, TurnsKept DEF FilesInv
      <4> QED BY <3>1, <4>1, <4>2 DEF FilesInv
    <3>8. ASSUME prog = "task3_pthread",
                 \/ PthreadCreate \/ PthreadCreateFails \/ PthreadJoin
                 \/ \E t \in Both : WriteToFile(t)
          PROVE  FilesInv'
      <4>1. prog' = "task3_pthread"
        BY <3>8 DEF PthreadCreate, PthreadCreateFails, PthreadJoin, WriteToFile, FopenFails, Fopen,
                    Fprintf, LastFprintf, Fclose, Only, program
      <4>2. ThreadsInv'
        BY <3>1, <3>8, <4>1, ThreadsKept DEF FilesInv
      <4> QED BY <3>1, <4>1, <4>2 DEF FilesInv
    <3> QED BY <2>2, <3>1, <3>2, <3>3, <3>4, <3>5, <3>6, <3>7, <3>8, OneProgramActs
  <2> QED BY <2>1, <2>2
<1>3. QED BY <1>1, <1>2, PTL DEF FilesSpec

\* What one of these programs that has come to its end leaves is what
\* EndsAsReported promises of it (report.tex): the output of testKernelIO.c
\* is all letters twice, the file of task3.c holds the letters of the stream
\* closed second, that of task3_pthread.c those of the stream closed last.
LeftAsReported ==
  pc[1] = "done" /\ prog \in {"testKernelIO", "task3", "task3_pthread"} => Outcome

THEOREM LeftAsReportedCorrect == FilesSpec => []LeftAsReported
<1>1. FilesInv => LeftAsReported
  <2> SUFFICES ASSUME FilesInv, pc[1] = "done" PROVE
          prog \in {"testKernelIO", "task3", "task3_pthread"} => Outcome
    BY DEF LeftAsReported
  <2>1. CASE prog = "testKernelIO"
    <3>1. out = Twice(LastLetter)
      BY <2>1 DEF FilesInv, TwiceInv
    <3> QED BY <2>1, <3>1 DEF Outcome, Twice
  <2>2. CASE prog = "task3"
    <3>1. file = Letters(2, Half)
      BY <2>2 DEF FilesInv, TurnsInv
    <3>2. \A i \in 1 .. Half : 2 * i - 2 + 2 = 2 * i
      BY HalfOfAlphabet
    <3>3. Letters(2, Half) = EvenLetters
      BY <3>2 DEF Letters, EvenLetters, Half
    <3> QED BY <2>2, <3>1, <3>3 DEF Outcome
  <2>3. CASE prog = "task3_pthread"
    <3>1. last \in Both /\ file = Letters(last, Half)
      BY <2>3 DEF FilesInv, ThreadsInv
    <3>2. \A i \in 1 .. Half : 2 * i - 2 + 2 = 2 * i /\ 2 * i - 2 + 1 = 2 * i - 1
      BY HalfOfAlphabet
    <3>3. Letters(2, Half) = EvenLetters /\ Letters(1, Half) = OddLetters
      BY <3>2 DEF Letters, EvenLetters, OddLetters, Half
    <3>4. file = IF last = 1 THEN OddLetters ELSE EvenLetters
      BY <3>1, <3>3 DEF Both
    <3> QED BY <2>3, <3>4 DEF Outcome
  <2> QED BY <2>1, <2>2, <2>3
<1>2. QED BY <1>1, FilesInvCorrect, PTL

=============================================================================
