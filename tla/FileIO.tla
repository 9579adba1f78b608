------------------------------- MODULE FileIO -------------------------------
(***************************************************************************)
(* The programs of lab 5, each of which uses one file twice: two streams   *)
(* on one descriptor (testCIO), two descriptors (testKernelIO), two        *)
(* streams that write (task3), the last two also with a second thread.     *)
(* Letters are numbers, 'a' = 1; their number is even as in the alphabet.  *)
(* In the threaded programs thread 1 is main() and uses descriptor or      *)
(* stream 1, thread 2 is thr_fn() and uses 2.                              *)
(***************************************************************************)
EXTENDS Naturals, Sequences, SequencesExt

CONSTANTS LastLetter,  \* the number of 'z'
          BUFF_SIZE    \* size of the stream buffers of testCIO

ASSUME LettersAssumption ==
  LastLetter \in Nat /\ LastLetter % 2 = 0 /\ BUFF_SIZE \in Nat \ {0}

\* The programs, and the first call of each main() that matters
Entry == [testCIO |-> "fdopen", testKernelIO |-> "open both",
          testKernelIO_pthread |-> "open", task3 |-> "fopen 1",
          task3_pthread |-> "create"]

Both == {1, 2}

VARIABLES
  prog,    \* the program that runs
  access,  \* can the file be opened?
  pc,      \* thread -> the call it is about to make
  file,    \* contents of the file
  offset,  \* descriptor -> its offset in the file
  stream,  \* stream -> what it has read ahead, or not yet written
  flag,    \* stream -> the last fscanf() found a letter
  c,       \* thread -> its variable c
  out,     \* standard output: each letter with the stream or thread it is from
  last     \* history: the stream that was closed last

program == <<prog, access>>
fileVars == <<program, pc, file, offset, stream, flag, c, out, last>>

Alphabet == [i \in 1 .. LastLetter |-> i]
Ended == {"done", "no thread", "crashed", "endless"}

AtRest ==
  [pc |-> [t \in Both |-> "none"], offset |-> [d \in Both |-> 0],
   stream |-> [s \in Both |-> <<>>], flag |-> [s \in Both |-> TRUE],
   c |-> [t \in Both |-> 1]]

FilesInit ==
  /\ prog = "none" /\ access = TRUE /\ file = Alphabet
  /\ pc = AtRest.pc /\ offset = AtRest.offset /\ stream = AtRest.stream
  /\ flag = AtRest.flag /\ c = AtRest.c
  /\ out = <<>> /\ last = 0

Run(p) ==
  /\ prog = "none"
  /\ prog' = p /\ access' \in BOOLEAN
  /\ pc' = [pc EXCEPT ![1] = Entry[p]]
  /\ UNCHANGED <<file, offset, stream, flag, c, out, last>>

\* The process is gone; the file gets the alphabet again.
Quit ==
  /\ pc[1] \in Ended
  /\ prog' = "none" /\ access' = TRUE /\ file' = Alphabet
  /\ pc' = AtRest.pc /\ offset' = AtRest.offset /\ stream' = AtRest.stream
  /\ flag' = AtRest.flag /\ c' = AtRest.c
  /\ out' = <<>> /\ last' = 0

Step(t, from, to) == pc[t] = from /\ pc' = [pc EXCEPT ![t] = to]
Only(t, from, to) ==
  Step(t, from, to) /\ UNCHANGED <<program, file, offset, stream, flag, c, out, last>>

(***************************************************************************)
(* testCIO.c: two streams with buffers of their own on one descriptor.     *)
(* Without a file fdopen() gives NULL and setvbuf() crashes.               *)
(***************************************************************************)
OpenStreams == Only(1, "fdopen", IF access THEN "scan 1" ELSE "crashed")

\* What read() puts into an empty buffer: both streams move one offset.
ReadAhead ==
  SubSeq(file, offset[1] + 1, Min({offset[1] + BUFF_SIZE, Len(file)}))

Fscanf(s) ==
  LET ahead == IF stream[s] = <<>> THEN ReadAhead ELSE stream[s]
      found == ahead # <<>> IN
  /\ flag' = [flag EXCEPT ![s] = found]
  /\ IF s = 1 THEN Step(1, "scan 1", "scan 2")
     ELSE Step(1, "scan 2", IF flag[1] \/ found THEN "scan 1" ELSE "done")
  /\ offset' = IF stream[s] = <<>> THEN [offset EXCEPT ![1] = @ + Len(ahead)]
                                   ELSE offset
  /\ stream' = [stream EXCEPT ![s] = IF found THEN Tail(ahead) ELSE <<>>]
  /\ out' = IF found THEN Append(out, <<s, Head(ahead)>>) ELSE out
  /\ UNCHANGED <<program, file, c, last>>

(***************************************************************************)
(* testKernelIO.c: two descriptors, each with its offset.  Where they are  *)
(* -1, read() gives -1, which is not 0: the loop writes c for ever.        *)
(***************************************************************************)
OpenTwice == Only(1, "open both", IF access THEN "read both" ELSE "endless")

\* read(fd1) && read(fd2): the second overwrites c.
ReadBoth ==
  /\ \A d \in Both : offset[d] < Len(file)
  /\ Step(1, "read both", "write twice")
  /\ offset' = [d \in Both |-> offset[d] + 1]
  /\ c' = [c EXCEPT ![1] = file[offset'[2]]]
  /\ UNCHANGED <<program, file, stream, flag, out, last>>

WriteTwice ==
  /\ Step(1, "write twice", "read both")
  /\ out' = out \o << <<1, c[1]>>, <<1, c[1]>> >>
  /\ UNCHANGED <<program, file, offset, stream, flag, c, last>>

EndOfFile ==
  (\E d \in Both : offset[d] >= Len(file)) /\ Only(1, "read both", "done")

(***************************************************************************)
(* Threads; main() returns ERROR_THREAD_CREATE if it cannot have one.      *)
(***************************************************************************)
PthreadCreate ==
  /\ pc[1] = "create"
  /\ pc' = IF prog = "task3_pthread" THEN [t \in Both |-> "fopen"]
           ELSE [pc EXCEPT ![1] = "read", ![2] = "open"]
  /\ UNCHANGED <<program, file, offset, stream, flag, c, out, last>>

PthreadCreateFails == Only(1, "create", "no thread")

PthreadJoin == pc[2] = "end" /\ Only(1, "join", "done")

\* What follows the function that thread t has called
After(t) == IF t = 1 THEN "join" ELSE "end"

(***************************************************************************)
(* testKernelIO_pthread.c: read_file() in two threads.                     *)
(***************************************************************************)
OpenInThread(t) == Only(t, "open", IF t = 1 THEN "create" ELSE "read")

ReadFile(t) ==
  \/ /\ access /\ offset[t] < Len(file)
     /\ Step(t, "read", "write")
     /\ offset' = [offset EXCEPT ![t] = @ + 1]
     /\ c' = [c EXCEPT ![t] = file[offset[t] + 1]]
     /\ UNCHANGED <<program, file, stream, flag, out, last>>
  \/ access /\ offset[t] >= Len(file) /\ Only(t, "read", After(t))
  \/ ~access /\ Only(t, "read", "endless")

WriteLetter(t) ==
  /\ Step(t, "write", "read")
  /\ out' = Append(out, <<t, c[t]>>)
  /\ UNCHANGED <<program, file, offset, stream, flag, c, last>>

(***************************************************************************)
(* task3.c and task3_pthread.c: two streams that write.  26 letters fit    *)
(* into a buffer, so fclose() writes them.  sleep(1) orders nothing.       *)
(***************************************************************************)
\* fopen(FILE_NAME, "w") empties the file.
Opened_update == file
Opened == <<>>

\* In task3_pthread c begins with 'a' in main() and with 'b' in the thread.
Fopen(t, s, from, to) ==
  /\ access
  /\ Step(t, from, to)
  /\ file' = Opened
  /\ offset' = [offset EXCEPT ![s] = 0]
  /\ c' = [c EXCEPT ![t] = t]
  /\ UNCHANGED <<program, stream, flag, out, last>>

\* The first fprintf() to a stream that is NULL ends the process.
FopenFails(t) ==
  /\ ~access /\ pc[t] \in {"fopen 1", "fopen"}
  /\ pc' = [pc EXCEPT ![1] = "crashed"]
  /\ UNCHANGED <<program, file, offset, stream, flag, c, out, last>>

\* task3: odd letters go to f1, even ones to f2; task3_pthread: every second
\* letter, each thread to its stream.
Fprintf(t, s, by, place) ==
  /\ pc[t] = place /\ c[t] <= LastLetter
  /\ stream' = [stream EXCEPT ![s] = Append(@, c[t])]
  /\ c' = [c EXCEPT ![t] = @ + by]
  /\ UNCHANGED <<program, pc, file, offset, flag, out, last>>

LastFprintf(t, from, to) == c[t] > LastLetter /\ Only(t, from, to)

\* write() of data at an offset; what it skips would read as 0.
Written(data, at) ==
  [i \in 1 .. Max({at + Len(data), Len(file)}) |->
     IF i \in at + 1 .. at + Len(data) THEN data[i - at]
     ELSE IF i <= Len(file) THEN file[i] ELSE 0]

Fclose(t, s, from, to) ==
  /\ Step(t, from, to)
  /\ file' = Written(stream[s], offset[s])
  /\ stream' = [stream EXCEPT ![s] = <<>>]
  /\ last' = s
  /\ UNCHANGED <<program, offset, flag, c, out>>

Task3 ==
  \/ Fopen(1, 1, "fopen 1", "fopen 2") \/ Fopen(1, 2, "fopen 2", "fprintf both")
  \/ Fprintf(1, IF c[1] % 2 = 1 THEN 1 ELSE 2, 1, "fprintf both")
  \/ LastFprintf(1, "fprintf both", "fclose 1")
  \/ Fclose(1, 1, "fclose 1", "fclose 2") \/ Fclose(1, 2, "fclose 2", "done")

WriteToFile(t) ==
  \/ Fopen(t, t, "fopen", "fprintf") \/ FopenFails(t)
  \/ Fprintf(t, t, 2, "fprintf") \/ LastFprintf(t, "fprintf", "fclose")
  \/ Fclose(t, t, "fclose", After(t))

Thread(t) ==
  /\ pc[1] \notin {"done", "no thread", "crashed"}
  /\ OpenInThread(t) \/ ReadFile(t) \/ WriteLetter(t) \/ WriteToFile(t)

Main ==
  \/ OpenStreams \/ \E s \in Both : Fscanf(s)
  \/ OpenTwice \/ ReadBoth \/ WriteTwice \/ EndOfFile
  \/ Task3 \/ PthreadCreate \/ PthreadJoin \/ Thread(1)

FilesNext ==
  \/ \E p \in DOMAIN Entry : Run(p)
  \/ Main \/ Thread(2) \/ PthreadCreateFails
  \/ Quit

\* Both threads are scheduled.
FilesFairness == WF_fileVars(Main) /\ WF_fileVars(Thread(2))
FilesSpec == FilesInit /\ [][FilesNext]_fileVars /\ FilesFairness
-----------------------------------------------------------------------------
(***************************************************************************)
(* Properties.                                                             *)
(***************************************************************************)
From(who) == LET mine == SelectSeq(out, LAMBDA e : e[1] = who)
             IN  [i \in 1 .. Len(mine) |-> mine[i][2]]
OddLetters == [i \in 1 .. LastLetter \div 2 |-> 2 * i - 1]
EvenLetters == [i \in 1 .. LastLetter \div 2 |-> 2 * i]

\* fs1 has read the first buffer ahead, fs2 what is left; they take turns as
\* long as both have letters.
TwoStreams ==
  /\ From(1) = SubSeq(Alphabet, 1, BUFF_SIZE)
  /\ From(2) = SubSeq(Alphabet, BUFF_SIZE + 1, LastLetter)
  /\ \A i \in 1 .. Len(From(2)) : out[2 * i] = <<2, From(2)[i]>>

Outcome ==
  CASE prog = "testCIO" -> TwoStreams
    [] prog = "testKernelIO" ->
         out = [i \in 1 .. 2 * LastLetter |-> <<1, (i + 1) \div 2>>]
    [] prog = "testKernelIO_pthread" -> From(1) = Alphabet /\ From(2) = Alphabet
    [] prog = "task3" -> file = EvenLetters
    [] prog = "task3_pthread" ->
         file = IF last = 1 THEN OddLetters ELSE EvenLetters

\* On a file that can be opened every program comes to its end with what the
\* report says of it (report.tex), whatever the two threads do to each
\* other: a shared descriptor gives each letter once, to the stream that read
\* it ahead; two descriptors give all letters twice; of two streams that
\* write the one closed last leaves its letters whole and none of the other.
EndsAsReported ==
  prog # "none" /\ access ~>
    pc[1] = "no thread" \/ (pc[1] = "done" /\ Outcome)
=============================================================================
