------------------------------ MODULE NetServer ------------------------------
(***************************************************************************)
(* The TCP server of lab 8, part 2 (netserver.c): one process that waits   *)
(* in select() for its listening socket and for at most MAX_COUNT_SOCK     *)
(* connections, accepts one connection per pass and then reads once from   *)
(* every slot that select() reported.  The clients (netclient.c) connect,  *)
(* send one typed word and its terminating NUL at a time, and die at any   *)
(* moment.  The kernel's part is modelled as far as the server sees it:    *)
(* descriptors handed out lowest first, a bounded queue of connections     *)
(* that wait for accept(), a byte stream per connection in which words are *)
(* joined and cut, and calls that fail for reasons of their own.           *)
(***************************************************************************)
EXTENDS Integers, Sequences, FiniteSets

CONSTANTS Clients,         \* client processes
          NoClient,        \* marks a descriptor that is not open
          MAX_COUNT_SOCK,  \* length of arr_sock
          MaxFd,           \* highest descriptor the process may open
          ListenArg,       \* second argument of listen()
          MAX_LEN_BUF,     \* bytes one recvfrom() can take
          Words,           \* client -> words its user may type, as byte sequences
          MaxStream,       \* bytes a connection buffers before send blocks
          Pacers,          \* clients whose user types slower than the server reads
          Cut,             \* clients whose words may arrive in pieces
          Resets           \* TRUE: a connection may be aborted

Digit == 0..9
NUL == 10
Letter == 11
Byte == Digit \cup {NUL, Letter}

Listener == 3               \* 0, 1 and 2 are the standard streams
ConnFds == Listener + 1 .. MaxFd
Slots == 0 .. MAX_COUNT_SOCK - 1

\* The few bytes of one word that meets empty buffers on its own host
\* (netclient.c:22) are one segment; behind others a word may be cut anywhere.
ASSUME ClientsAssumption ==
  NoClient \notin Clients /\ Pacers \subseteq Clients /\ Cut \subseteq Clients \ Pacers
ASSUME SizesAssumption ==
  /\ MAX_COUNT_SOCK \in Nat \ {0}
  /\ MaxFd \in Nat
  /\ ListenArg \in Nat
  /\ MAX_LEN_BUF \in Nat \ {0}
  /\ MaxStream \in Nat
Messages == UNION {Words[c] : c \in Clients}
ASSUME MessagesAssumption ==
  \A m \in Messages : m \in Seq(Byte \ {NUL}) /\ Len(m) < MAX_LEN_BUF

VARIABLES
  spc,      \* where the server is: socket, bind, listen, select, accept, scan, exited
  rc,       \* what main() returned, 0 while it runs
  sock,     \* the listening descriptor, -1 without one
  arr_sock, \* slot -> connection descriptor, 0 when empty
  set,      \* the fd_set select() left
  i,        \* slot the scan is at
  fdtab,    \* connection descriptor -> the client at its other end
  backlog,  \* clients connected but not accepted, oldest first
  cstate,   \* client -> out, connected, closed, reset
  stream,   \* client -> bytes the server may read
  rest,     \* client -> bytes of its last word that have not arrived yet
  owed,     \* client -> words sent whose NUL was not read (history)
  printed   \* the last result line of this pass: slot and number (history)

program == <<spc, rc, sock, arr_sock, set, i>>
kernel == <<fdtab, backlog>>
peers == <<cstate, stream, rest, owed>>
vars == <<program, kernel, peers, printed>>

(***************************************************************************)
(* Exit codes of constants.h and the values of a result line.              *)
(***************************************************************************)
OK == 0
ERROR_CREATE_SOCKET == 1
ERROR_BIND_SOCKET == 2
ERROR_LISTEN_SOCKET == 5
ERROR_SELECT_SOCKET == 6
ERROR_ACCEPT_SOCKET == 7

LeadingDigits(b) ==
  CHOOSE k \in 0 .. Len(b) :
    /\ \A j \in 1 .. k : b[j] \in Digit
    /\ k < Len(b) => b[k + 1] \notin Digit

Value(digits) ==
  LET value[k \in 0 .. Len(digits)] ==
        IF k = 0 THEN 0 ELSE 10 * value[k - 1] + digits[k]
  IN  value[Len(digits)]

\* The number the leading digits of b spell; 0 when there are none.
atoi(b) == Value(SubSeq(b, 1, LeadingDigits(b)))

Numbers == {0} \cup {atoi(m) : m \in Messages}
NoLine == [slot |-> -1, number |-> 0]

Init ==
  /\ spc = "socket" /\ rc = OK /\ sock = -1
  /\ arr_sock = [s \in Slots |-> 0]
  /\ set = {} /\ i = 0
  /\ fdtab = [f \in ConnFds |-> NoClient]
  /\ backlog = <<>>
  /\ cstate = [c \in Clients |-> "out"]
  /\ stream = [c \in Clients |-> <<>>]
  /\ rest = [c \in Clients |-> <<>>]
  /\ owed = [c \in Clients |-> <<>>]
  /\ printed = NoLine

(***************************************************************************)
(* Leaving main(): the kernel closes every descriptor, clients that were   *)
(* connected lose their connection.                                        *)
(***************************************************************************)
Exit(code) ==
  /\ spc' = "exited" /\ rc' = code /\ sock' = -1
  /\ arr_sock' = [s \in Slots |-> 0] /\ set' = {} /\ i' = 0
  /\ fdtab' = [f \in ConnFds |-> NoClient] /\ backlog' = <<>>
  /\ cstate' = [c \in Clients |->
                  IF cstate[c] = "connected" THEN "closed" ELSE cstate[c]]
  /\ stream' = [c \in Clients |-> <<>>]
  /\ rest' = [c \in Clients |-> <<>>]
  /\ owed' = [c \in Clients |-> <<>>]
  /\ UNCHANGED printed

(***************************************************************************)
(* Start-up.  `if (socket < 0)' compares the address of the function       *)
(* socket, so a failed socket() goes on to bind(), which then fails.       *)
(***************************************************************************)
Socket ==
  /\ spc = "socket"
  /\ sock' \in {Listener, -1}
  /\ spc' = "bind"
  /\ UNCHANGED <<rc, arr_sock, set, i, kernel, peers, printed>>

Bind ==
  /\ spc = "bind" /\ sock = Listener
  /\ spc' = "listen"
  /\ UNCHANGED <<rc, sock, arr_sock, set, i, kernel, peers, printed>>

BindFails == spc = "bind" /\ Exit(ERROR_BIND_SOCKET)

Listen ==
  /\ spc = "listen"
  /\ spc' = "select"
  /\ UNCHANGED <<rc, sock, arr_sock, set, i, kernel, peers, printed>>

ListenFails == spc = "listen" /\ Exit(ERROR_LISTEN_SOCKET)

(***************************************************************************)
(* One pass of the loop: rebuild the set, select(), accept(), scan.        *)
(***************************************************************************)
Occupied == {s \in Slots : arr_sock[s] > 0}
Watched_slots == {arr_sock[s] : s \in Occupied}
Watched == {sock} \cup {arr_sock[s] : s \in Occupied}

Readable(c) == stream[c] # <<>> \/ cstate[c] \in {"closed", "reset"}

Ready(f) == IF f = Listener THEN backlog # <<>>
            ELSE fdtab[f] # NoClient /\ Readable(fdtab[f])

Select ==
  /\ spc = "select"
  /\ set' = {f \in Watched : Ready(f)}
  /\ set' # {}
  /\ spc' = "accept"
  /\ UNCHANGED <<rc, sock, arr_sock, i, kernel, peers, printed>>

SelectFails == spc = "select" /\ Exit(ERROR_SELECT_SOCKET)

FreeFds == {f \in ConnFds : fdtab[f] = NoClient}
EmptySlots == {s \in Slots : arr_sock[s] = 0}
Lowest(S) == CHOOSE x \in S : \A y \in S : x <= y

\* What the loop over arr_sock makes of a new connection: the first empty
\* slot takes it, and with no empty slot nothing remembers it.
Placed_last(newsock) ==
  IF EmptySlots = {} THEN [arr_sock EXCEPT ![MAX_COUNT_SOCK - 1] = newsock]
  ELSE [arr_sock EXCEPT ![Lowest(EmptySlots)] = newsock]
Placed(newsock) ==
  IF EmptySlots = {} THEN arr_sock
  ELSE [arr_sock EXCEPT ![Lowest(EmptySlots)] = newsock]

Accept ==
  /\ spc = "accept" /\ sock \in set
  /\ backlog # <<>> /\ FreeFds # {}
  /\ LET newsock == Lowest(FreeFds)
     IN  /\ fdtab' = [fdtab EXCEPT ![newsock] = Head(backlog)]
         /\ arr_sock' = Placed(newsock)
  /\ backlog' = Tail(backlog)
  /\ spc' = "scan" /\ i' = 0
  /\ UNCHANGED <<rc, sock, set, peers, printed>>

\* accept() fails when no descriptor is free and for reasons the server has
\* no part in (a table of the whole system, memory, a signal).
AcceptFails ==
  /\ spc = "accept" /\ sock \in set
  /\ Exit(ERROR_ACCEPT_SOCKET)

NoNewConnection ==
  /\ spc = "accept" /\ sock \notin set
  /\ spc' = "scan" /\ i' = 0
  /\ UNCHANGED <<rc, sock, arr_sock, set, kernel, peers, printed>>

HasNews_any(s) == arr_sock[s] # 0
HasNews(s) == arr_sock[s] # 0 /\ arr_sock[s] \in set

NextSlot_first == IF arr_sock[i] \in set THEN MAX_COUNT_SOCK ELSE i + 1
NextSlot_twice == IF arr_sock[i] \in set THEN i + 2 ELSE i + 1
NextSlot == i + 1

Scanning == spc = "scan" /\ i < MAX_COUNT_SOCK

Skip ==
  /\ Scanning /\ ~HasNews(i)
  /\ i' = NextSlot
  /\ UNCHANGED <<spc, rc, sock, arr_sock, set, kernel, peers, printed>>

EndScan ==
  /\ spc = "scan" /\ i >= MAX_COUNT_SOCK
  /\ spc' = "select" /\ i' = 0 /\ printed' = NoLine
  /\ UNCHANGED <<rc, sock, arr_sock, set, kernel, peers>>

Peer(s) == fdtab[arr_sock[s]]

\* The descriptors left after close(arr_sock[s]).
AfterClose_leak(s) == fdtab
AfterClose(s) == [fdtab EXCEPT ![arr_sock[s]] = NoClient]

\* arr_sock[i] = 0
SlotFreed_kept(s) == arr_sock
SlotFreed(s) == [arr_sock EXCEPT ![s] = 0]

\* recvfrom() returns 0: end of stream.  The client's program may run again.
Hangup ==
  /\ Scanning /\ HasNews(i)
  /\ LET c == Peer(i)
     IN  /\ cstate[c] = "closed" /\ stream[c] = <<>>
         /\ fdtab' = AfterClose(i)
         /\ cstate' = [cstate EXCEPT ![c] = "out"]
  /\ arr_sock' = SlotFreed(i)
  /\ i' = NextSlot
  /\ UNCHANGED <<spc, rc, sock, set, backlog, stream, rest, owed, printed>>

\* How many bytes recvfrom(..., sizeof(buf), ...) takes from the stream.
Taken_short(c) ==
  IF Len(stream[c]) >= MAX_LEN_BUF THEN MAX_LEN_BUF - 1 ELSE Len(stream[c])
Taken(c) == IF Len(stream[c]) > MAX_LEN_BUF THEN MAX_LEN_BUF ELSE Len(stream[c])

Terminators(b) == Cardinality({j \in 1 .. Len(b) : b[j] = NUL})

\* What atoi(buf) may find.  When the bytes received end in a digit it reads
\* on in the part of buf that was not written: there may be a digit or none.
Found(buf) ==
  IF LeadingDigits(buf) < Len(buf) THEN {atoi(buf)} ELSE {atoi(buf)} \cup Numbers

\* recvfrom() returns rv > 0: one line is printed for the bytes received.
Answer ==
  /\ Scanning /\ HasNews(i)
  /\ LET c == Peer(i)
         buf == SubSeq(stream[c], 1, Taken(c))
     IN  /\ stream[c] # <<>>
         /\ stream' = [stream EXCEPT ![c] = SubSeq(@, Taken(c) + 1, Len(@))]
         /\ owed' = [owed EXCEPT ![c] = SubSeq(@, Terminators(buf) + 1, Len(@))]
         /\ \E n \in Found(buf) : printed' = [slot |-> i, number |-> n]
  /\ i' = NextSlot
  /\ UNCHANGED <<spc, rc, sock, arr_sock, set, kernel, cstate, rest>>

\* recvfrom() returns -1 on an aborted connection.  The code treats every
\* value but 0 as a message, and buf holds whatever its memory held before.
RecvFails ==
  /\ Scanning /\ HasNews(i)
  /\ cstate[Peer(i)] = "reset"
  /\ cstate' = [cstate EXCEPT ![Peer(i)] = "closed"]
  /\ \E n \in Numbers : printed' = [slot |-> i, number |-> n]
  /\ i' = NextSlot
  /\ UNCHANGED <<spc, rc, sock, arr_sock, set, kernel, stream, rest, owed>>

Server ==
  \/ Socket \/ Bind \/ BindFails \/ Listen \/ ListenFails
  \/ Select \/ Accept \/ AcceptFails \/ NoNewConnection
  \/ Skip \/ EndScan \/ Hangup \/ Answer \/ RecvFails

(***************************************************************************)
(* The clients (netclient.c) and what the network does to them.            *)
(***************************************************************************)
Up == spc \in {"select", "accept", "scan"}

\* Linux queues one connection more than the argument of listen().
Connect(c) ==
  /\ Up /\ cstate[c] = "out" /\ Len(backlog) <= ListenArg
  /\ backlog' = Append(backlog, c)
  /\ cstate' = [cstate EXCEPT ![c] = "connected"]
  /\ UNCHANGED <<program, fdtab, stream, rest, owed, printed>>

\* sendto(sock, buf, strlen(buf) + 1, ...)
Sent(m) == Append(m, NUL)

\* A word whose arrival is not cut appears in the stream with its NUL, when
\* there is room; of another the network has everything still to deliver.
Send(c, m) ==
  /\ cstate[c] = "connected"
  /\ c \in Pacers => stream[c] = <<>>
  /\ \/ /\ c \notin Cut
        /\ Len(stream[c]) + Len(Sent(m)) <= MaxStream
        /\ stream' = [stream EXCEPT ![c] = @ \o Sent(m)]
        /\ UNCHANGED rest
     \/ /\ c \in Cut /\ rest[c] = <<>>
        /\ rest' = [rest EXCEPT ![c] = Sent(m)]
        /\ UNCHANGED stream
  /\ owed' = [owed EXCEPT ![c] = Append(@, m)]
  /\ UNCHANGED <<program, kernel, cstate, printed>>

\* The next bytes of a word arrive: all that are missing, or fewer because
\* sendto() waits for room or because the word is cut into segments.
Deliver(c) ==
  /\ cstate[c] = "connected"
  /\ \E k \in 1 .. Len(rest[c]) :
       /\ Len(stream[c]) + k <= MaxStream
       /\ stream' = [stream EXCEPT ![c] = @ \o SubSeq(rest[c], 1, k)]
       /\ rest' = [rest EXCEPT ![c] = SubSeq(@, k + 1, Len(@))]
  /\ UNCHANGED <<program, kernel, cstate, owed, printed>>

\* The words whose NUL can still be read when nothing more arrives.
Arrived(c) ==
  IF rest[c] = <<>> THEN owed[c] ELSE SubSeq(owed[c], 1, Len(owed[c]) - 1)

\* The client is interrupted and the end of its connection arrives: what has
\* arrived stays, what sendto() had not handed over never comes.
Quit(c) ==
  /\ cstate[c] = "connected"
  /\ cstate' = [cstate EXCEPT ![c] = "closed"]
  /\ rest' = [rest EXCEPT ![c] = <<>>]
  /\ owed' = [owed EXCEPT ![c] = Arrived(c)]
  /\ UNCHANGED <<program, kernel, stream, printed>>

\* The connection is aborted: what it sent is discarded.
Abort(c) ==
  /\ Resets /\ cstate[c] = "connected"
  /\ cstate' = [cstate EXCEPT ![c] = "reset"]
  /\ stream' = [stream EXCEPT ![c] = <<>>]
  /\ rest' = [rest EXCEPT ![c] = <<>>]
  /\ owed' = [owed EXCEPT ![c] = <<>>]
  /\ UNCHANGED <<program, kernel, printed>>

Client(c) ==
  \/ Connect(c) \/ Deliver(c) \/ Quit(c) \/ Abort(c)
  \/ \E m \in Words[c] : Send(c, m)

Done == spc = "exited" /\ UNCHANGED vars

Next == Server \/ SelectFails \/ Done \/ \E c \in Clients : Client(c)

Spec == Init /\ [][Next]_vars

\* The server runs whenever it has something to do: it waits in select()
\* only, and an error of select() is not owed.  Clients owe nothing.
FairSpec == Spec /\ WF_vars(Server)
-----------------------------------------------------------------------------
(***************************************************************************)
(* Properties.                                                             *)
(***************************************************************************)
\* Every variable keeps the type its declaration gives it.
TypeOK ==
  /\ spc \in {"socket", "bind", "listen", "select", "accept", "scan", "exited"}
  /\ rc \in {OK, ERROR_BIND_SOCKET, ERROR_LISTEN_SOCKET,
            ERROR_SELECT_SOCKET, ERROR_ACCEPT_SOCKET}
  /\ sock \in {Listener, -1}
  /\ arr_sock \in [Slots -> ConnFds \cup {0}]
  /\ set \subseteq ConnFds \cup {Listener}
  /\ i \in 0 .. MAX_COUNT_SOCK
  /\ fdtab \in [ConnFds -> Clients \cup {NoClient}]
  /\ backlog \in Seq(Clients)
  /\ cstate \in [Clients -> {"out", "connected", "closed", "reset"}]
  /\ stream \in [Clients -> Seq(Byte)]
  /\ rest \in [Clients -> Seq(Byte)]
  /\ owed \in [Clients -> Seq(Messages)]
  /\ printed \in [slot : Slots \cup {-1}, number : Nat]

\* A slot of arr_sock names an open connection and no two slots name the
\* same one: select() is never given a closed descriptor, close() never
\* closes another slot's client.
SlotsNameOpenConnections ==
  \A s \in Occupied :
    /\ Peer(s) # NoClient
    /\ \A t \in Occupied : Peer(s) = Peer(t) => s = t

\* accept() and recvfrom() are only called on descriptors that are still
\* ready when the call is made, so one silent client cannot hold up the
\* others: what select() saw stays true until the pass has used it.
NeverBlocks ==
  /\ spc = "accept" /\ sock \in set => backlog # <<>>
  /\ Scanning => \A s \in Slots : s >= i /\ HasNews(s) => Readable(Peer(s))

TurnedAway == {c \in Clients : /\ \E f \in ConnFds : fdtab[f] = c
                               /\ \A s \in Occupied : Peer(s) # c}

\* Nothing but clients that were turned away, whose descriptors the server
\* never closes, fills the descriptor table: when accept() finds no free
\* descriptor, all but one for each slot are theirs.
FullOnlyByTurnedAway ==
  FreeFds = {} => Cardinality(TurnedAway) + MAX_COUNT_SOCK >= Cardinality(ConnFds)

\* The next line answers the oldest word of client c, and no other word.
AnswersFirst(c) ==
  /\ Len(owed'[c]) = Len(owed[c]) - 1
  /\ printed'.number = atoi(Head(owed[c]))
  /\ printed'.slot \in Occupied /\ Peer(printed'.slot) = c

\* A step of the server that reads to the end of a word of client c.
ReadsWord(c) ==
  Len(owed'[c]) < Len(owed[c]) /\ cstate'[c] = cstate[c] /\ spc' # "exited"

Answers(c) == ReadsWord(c) => AnswersFirst(c)

\* When the server reads a word of a client that waits for it, it reads the
\* oldest one whole, no second one with it, and the line it prints names the
\* client's slot and the number that word spells.
PacedWordsAnswered == [][\A c \in Pacers : Answers(c)]_vars

\* Wherever earlier words were joined or cut, a word that is alone in its
\* stream when the server reads from it is read to its end and answered with
\* its own number and slot: what a client sent before leaves nothing behind.
LoneWordAnswered ==
  [][\A c \in Clients :
       /\ owed[c] # <<>> /\ stream[c] = Sent(Head(owed[c]))
       /\ Len(stream'[c]) < Len(stream[c]) /\ cstate'[c] = cstate[c] /\ spc' # "exited"
       => AnswersFirst(c) /\ stream'[c] = <<>>]_vars

\* One recvfrom() gets one message (netserver.c:153), whoever sends it.
EachWordAnswered == [][\A c \in Clients : Answers(c)]_vars

HasSlot(c) == \E s \in Occupied : Peer(s) = c

\* What a client with a slot has sent is read, whether or not others send
\* without pause.
WordsAreRead ==
  \A c \in Pacers :
    HasSlot(c) /\ stream[c] # <<>> ~> stream[c] = <<>> \/ ~HasSlot(c)

\* A client that hung up or was cut off does not keep its slot.
SlotsAreReleased ==
  \A c \in Clients :
    HasSlot(c) /\ cstate[c] \in {"closed", "reset"} ~> ~HasSlot(c)

\* A client whose connection is complete is taken off the queue.
QueueIsServed ==
  \A c \in Clients :
    (\E k \in 1 .. Len(backlog) : backlog[k] = c) ~>
      ~ \E k \in 1 .. Len(backlog) : backlog[k] = c

(***************************************************************************)
(* The server is a pool of slots: see ServerPool.                          *)
(***************************************************************************)
Serving == [s \in Slots |-> IF arr_sock[s] = 0 THEN NoClient ELSE Peer(s)]
Pool == INSTANCE ServerPool WITH serving <- Serving, turnedAway <- TurnedAway,
                                 up <- spc # "exited"
\* Accepting, turning away and hanging up implement the pool.
ServesAsPool == Pool!Spec
=============================================================================
