-------------------------- MODULE NetServerProofs --------------------------
(***************************************************************************)
(* What TLAPS proves of NetServer for any clients, any words and any sizes *)
(* of arr_sock, of the descriptor table and of listen()'s queue: a slot    *)
(* names an open connection of a client of its own, the server implements  *)
(* ServerPool and waits for no single client, only clients that found no   *)
(* slot fill the descriptor table, and a word that is alone in its stream  *)
(* gets its own answer, whatever was joined or cut before it.              *)
(***************************************************************************)
EXTENDS NetServer, SequenceTheorems, FiniteSetTheorems,
        WellFoundedInduction, TLAPS

-----------------------------------------------------------------------------
(***************************************************************************)
(* The lowest member of a set, as loops over slots and the kernel's choice *)
(* of a descriptor find it.                                                *)
(***************************************************************************)
\* A set of numbers that is not empty has a lowest member.
LEMMA LowestExists ==
  ASSUME NEW S \in SUBSET Nat, S # {}
  PROVE  Lowest(S) \in S /\ \A y \in S : Lowest(S) <= y
<1> DEFINE T == {0 .. x : x \in S}
           R == StrictSubsetOrdering(Nat)
<1>1. T \subseteq FiniteSubsetsOf(Nat) /\ T # {}
  <2>1. ASSUME NEW x \in S PROVE 0 .. x \in SUBSET Nat /\ IsFiniteSet(0 .. x)
    <3>1. x \in Int /\ 0 \in Int
      OBVIOUS
    <3> QED BY <3>1, FS_Interval
  <2> QED BY <2>1 DEF FiniteSubsetsOf
<1>2. PICK X \in T : \A Y \in T : <<Y, X>> \notin R
  BY <1>1, FS_StrictSubsetOrderingWellFounded, WFMin
<1>3. PICK x \in S : X = 0 .. x
  OBVIOUS
<1>4. ASSUME NEW y \in S PROVE x <= y
  <2>1. <<0 .. y, 0 .. x>> \notin R
    BY <1>2, <1>3
  <2>2. SUFFICES ASSUME y < x PROVE FALSE
    OBVIOUS
  <2>3. 0 .. y \subseteq 0 .. x /\ x \in 0 .. x /\ x \notin 0 .. y
    BY <2>2
  <2> QED BY <2>1, <2>3 DEF StrictSubsetOrdering
<1>5. QED BY <1>4 DEF Lowest

-----------------------------------------------------------------------------
(***************************************************************************)
(* The slots.  That two slots never name one connection takes the whole    *)
(* way of a client: out, in the queue once, behind one descriptor.         *)
(***************************************************************************)
Queued == {backlog[k] : k \in 1 .. Len(backlog)}

SlotTypes ==
  /\ arr_sock \in [Slots -> ConnFds \cup {0}]
  /\ fdtab \in [ConnFds -> Clients \cup {NoClient}]
  /\ backlog \in Seq(Clients)
  /\ cstate \in [Clients -> {"out", "connected", "closed", "reset"}]
  /\ i \in Nat

SlotInv ==
  /\ SlotTypes
  /\ \A s \in Slots : arr_sock[s] # 0 => fdtab[arr_sock[s]] # NoClient
  /\ \A s, t \in Slots : arr_sock[s] # 0 /\ arr_sock[s] = arr_sock[t] => s = t
  /\ \A f, g \in ConnFds : fdtab[f] # NoClient /\ fdtab[f] = fdtab[g] => f = g
  /\ \A f \in ConnFds : fdtab[f] \notin Queued
  /\ \A f \in ConnFds : fdtab[f] # NoClient => cstate[fdtab[f]] # "out"
  /\ \A c \in Queued : cstate[c] # "out"
  /\ \A j, k \in 1 .. Len(backlog) : backlog[j] = backlog[k] => j = k

\* Descriptors of connections are numbers, and 0 is none of them.
LEMMA FdsAreNumbers == ConnFds \subseteq Nat \ {0} /\ Slots \subseteq Nat
  BY SizesAssumption DEF ConnFds, Listener, Slots

\* A slot is occupied when it is not 0, and then it names a descriptor.
LEMMA OccupiedSlots ==
  ASSUME SlotTypes
  PROVE  /\ Occupied \subseteq Slots
         /\ \A s \in Slots : s \in Occupied <=> arr_sock[s] # 0
         /\ \A s \in Slots : arr_sock[s] # 0 => arr_sock[s] \in ConnFds
<1>1. \A s \in Slots : arr_sock[s] \in ConnFds \cup {0}
  BY DEF SlotTypes
<1>2. \A f \in ConnFds : f > 0
  BY FdsAreNumbers
<1>3. QED BY <1>1, <1>2 DEF Occupied

\* Leaving main() leaves no slot, no descriptor and no queue.
LEMMA ExitClears ==
  ASSUME SlotInv, NEW code, Exit(code)
  PROVE  SlotInv'
<1>1. Queued' = {}
  BY DEF Exit, Queued
<1>2. SlotTypes'
  BY DEF Exit, SlotInv, SlotTypes
<1>3. QED BY <1>1, <1>2 DEF Exit, SlotInv

\* accept() takes the oldest queued client, who has no descriptor yet, and
\* gives it a free descriptor, which no slot names.
LEMMA AcceptKeepsSlots ==
  ASSUME SlotInv, Accept
  PROVE  SlotInv'
<1> USE FdsAreNumbers
<1> DEFINE newsock == Lowest(FreeFds)
           c == Head(backlog)
<1>1. newsock \in ConnFds /\ fdtab[newsock] = NoClient
  BY LowestExists DEF Accept, FreeFds
<1>2. /\ backlog # <<>> /\ backlog' = Tail(backlog) /\ cstate' = cstate
      /\ fdtab' = [fdtab EXCEPT ![newsock] = c]
      /\ arr_sock' = Placed(newsock) /\ i' = 0
  BY DEF Accept, peers
<1>3. /\ Len(backlog) \in Nat /\ Len(backlog') = Len(backlog) - 1
      /\ backlog' \in Seq(Clients) /\ c = backlog[1] /\ c \in Clients
      /\ \A k \in 1 .. Len(backlog') : backlog'[k] = backlog[k + 1]
  BY <1>2, HeadTailProperties, LenProperties DEF SlotInv, SlotTypes
<1>4. c \in Queued /\ Queued' \subseteq Queued /\ c \notin Queued'
  BY <1>3 DEF Queued, SlotInv
<1>5. \/ arr_sock' = arr_sock
      \/ \E s \in Slots : arr_sock[s] = 0 /\ arr_sock' = [arr_sock EXCEPT ![s] = newsock]
  BY <1>2, LowestExists DEF Placed, EmptySlots
<1>6. \A s \in Slots : arr_sock[s] # newsock
  BY <1>1 DEF SlotInv
<1>7. SlotTypes'
  BY <1>1, <1>2, <1>3, <1>5 DEF SlotInv, SlotTypes
<1>8. \A f \in ConnFds : fdtab[f] # c
  BY <1>4 DEF SlotInv
<1>9. c # NoClient
  BY <1>3, ClientsAssumption
<1>10. \A s \in Slots : arr_sock'[s] # 0 => fdtab'[arr_sock'[s]] # NoClient
  BY <1>1, <1>2, <1>5, <1>9 DEF SlotInv, SlotTypes
<1>11. \A s, t \in Slots : arr_sock'[s] # 0 /\ arr_sock'[s] = arr_sock'[t] => s = t
  BY <1>1, <1>5, <1>6 DEF SlotInv, SlotTypes
<1>12. \A f, g \in ConnFds : fdtab'[f] # NoClient /\ fdtab'[f] = fdtab'[g] => f = g
  BY <1>1, <1>2, <1>8 DEF SlotInv, SlotTypes
<1>13. /\ \A f \in ConnFds : fdtab'[f] \notin Queued'
       /\ \A f \in ConnFds : fdtab'[f] # NoClient => cstate'[fdtab'[f]] # "out"
       /\ \A d \in Queued' : cstate'[d] # "out"
  BY <1>1, <1>2, <1>4 DEF SlotInv, SlotTypes
<1>14. \A j, k \in 1 .. Len(backlog') : backlog'[j] = backlog'[k] => j = k
  BY <1>3 DEF SlotInv
<1>15. QED BY <1>7, <1>10, <1>11, <1>12, <1>13, <1>14 DEF SlotInv

\* The client a slot is freed of is out: it had no other descriptor.
LEMMA HangupKeepsSlots ==
  ASSUME SlotInv, Hangup
  PROVE  SlotInv'
<1> USE FdsAreNumbers
<1> DEFINE f == arr_sock[i]
           c == fdtab[f]
<1>1. i \in Slots /\ f # 0
  BY SizesAssumption DEF Hangup, Scanning, HasNews, Slots, SlotInv, SlotTypes
<1>2. f \in ConnFds /\ c \in Clients
  BY <1>1 DEF SlotInv, SlotTypes
<1>3. /\ fdtab' = [fdtab EXCEPT ![f] = NoClient]
      /\ arr_sock' = [arr_sock EXCEPT ![i] = 0]
      /\ cstate' = [cstate EXCEPT ![c] = "out"]
      /\ backlog' = backlog /\ i' = i + 1
  BY DEF Hangup, Peer, AfterClose, SlotFreed, NextSlot
<1>4. Queued' = Queued /\ c \notin Queued /\ NoClient \notin Queued
  <2>1. Queued' = Queued /\ c \notin Queued
    <3>1. Queued' = Queued
      BY <1>3 DEF Queued
    <3>2. \A g \in ConnFds : fdtab[g] \notin Queued
      BY DEF SlotInv
    <3> QED BY <1>2, <3>1, <3>2
  <2>2. backlog \in Seq(Clients)
    BY DEF SlotInv, SlotTypes
  <2>3. Queued \subseteq Clients
    BY <2>2, ElementOfSeq DEF Queued
  <2>4. NoClient \notin Clients
    BY ClientsAssumption
  <2> QED BY <2>1, <2>3, <2>4
<1>5. SlotTypes'
  <2>1. arr_sock' \in [Slots -> ConnFds \cup {0}] /\ backlog' \in Seq(Clients) /\ i' \in Nat
    BY <1>1, <1>3 DEF SlotInv, SlotTypes
  <2>2. fdtab' \in [ConnFds -> Clients \cup {NoClient}]
    BY <1>2, <1>3 DEF SlotInv, SlotTypes
  <2>3. cstate' \in [Clients -> {"out", "connected", "closed", "reset"}]
    BY <1>2, <1>3 DEF SlotInv, SlotTypes
  <2> QED BY <2>1, <2>2, <2>3 DEF SlotTypes
<1>6. /\ \A s \in Slots : arr_sock'[s] # 0 => fdtab'[arr_sock'[s]] # NoClient
      /\ \A s, t \in Slots : arr_sock'[s] # 0 /\ arr_sock'[s] = arr_sock'[t] => s = t
  BY <1>1, <1>2, <1>3 DEF SlotInv, SlotTypes
<1>7. /\ \A g, h \in ConnFds : fdtab'[g] # NoClient /\ fdtab'[g] = fdtab'[h] => g = h
      /\ \A g \in ConnFds : fdtab'[g] \notin Queued'
  BY <1>2, <1>3, <1>4 DEF SlotInv, SlotTypes
<1>8. \A g \in ConnFds : fdtab'[g] # NoClient => cstate'[fdtab'[g]] # "out"
  BY <1>1, <1>2, <1>3 DEF SlotInv, SlotTypes
<1>9. \A d \in Queued' : cstate'[d] # "out"
  BY <1>2, <1>3, <1>4, ElementOfSeq DEF SlotInv, SlotTypes, Queued
<1>10. \A j, k \in 1 .. Len(backlog') : backlog'[j] = backlog'[k] => j = k
  BY <1>3 DEF SlotInv
<1>11. QED BY <1>5, <1>6, <1>7, <1>8, <1>9, <1>10 DEF SlotInv

\* A client that connects was out: it is in the queue for the first time.
LEMMA ConnectKeepsSlots ==
  ASSUME SlotInv, NEW c \in Clients, Connect(c)
  PROVE  SlotInv'
<1>1. /\ backlog' = Append(backlog, c) /\ cstate[c] = "out"
      /\ cstate' = [cstate EXCEPT ![c] = "connected"]
      /\ UNCHANGED <<arr_sock, fdtab, i>>
  BY DEF Connect, program
<1>2. /\ Len(backlog) \in Nat /\ backlog' \in Seq(Clients)
      /\ Len(backlog') = Len(backlog) + 1
      /\ \A k \in 1 .. Len(backlog) : backlog'[k] = backlog[k]
      /\ backlog'[Len(backlog) + 1] = c
  BY <1>1, LenProperties DEF SlotInv, SlotTypes
<1>3. Queued' = Queued \cup {c} /\ c \notin Queued /\ Queued \subseteq Clients
  BY <1>1, <1>2, ElementOfSeq DEF Queued, SlotInv, SlotTypes
<1>4. SlotTypes'
  BY <1>1, <1>2 DEF SlotInv, SlotTypes
<1>5. \A f \in ConnFds : fdtab[f] # c
  BY <1>1, ClientsAssumption DEF SlotInv
<1>6. /\ \A f \in ConnFds : fdtab'[f] \notin Queued'
      /\ \A f \in ConnFds : fdtab'[f] # NoClient => cstate'[fdtab'[f]] # "out"
      /\ \A d \in Queued' : cstate'[d] # "out"
  BY <1>1, <1>3, <1>5 DEF SlotInv, SlotTypes
<1>7. \A j, k \in 1 .. Len(backlog') : backlog'[j] = backlog'[k] => j = k
  BY <1>2, <1>3 DEF SlotInv, Queued
<1>8. QED BY <1>1, <1>4, <1>6, <1>7 DEF SlotInv

\* A slot of arr_sock names an open connection of its own, however clients
\* come, go and are cut off and descriptors are used again (netserver.c:87).
THEOREM SlotsCorrect == Spec => []SlotInv
<1>1. Init => SlotInv
  <2> SUFFICES ASSUME Init PROVE SlotInv
    OBVIOUS
  <2>1. Queued = {} /\ backlog \in Seq(Clients)
    BY DEF Init, Queued
  <2> QED BY <2>1 DEF Init, SlotInv, SlotTypes
<1>2. SlotInv /\ [Next]_vars => SlotInv'
  <2> SUFFICES ASSUME SlotInv, [Next]_vars PROVE SlotInv'
    OBVIOUS
  <2>1. ASSUME UNCHANGED <<arr_sock, fdtab, backlog>>, i' \in Nat,
               cstate' \in [Clients -> {"out", "connected", "closed", "reset"}],
               \A c \in Clients : cstate'[c] = "out" => cstate[c] = "out"
        PROVE  SlotInv'
    <3>1. Queued' = Queued /\ Queued \subseteq Clients
      BY <2>1, ElementOfSeq DEF Queued, SlotInv, SlotTypes
    <3>2. \A f \in ConnFds : fdtab[f] # NoClient => fdtab[f] \in Clients
      BY DEF SlotInv, SlotTypes
    <3> QED BY <2>1, <3>1, <3>2 DEF SlotInv, SlotTypes
  <2>2. CASE Server
    <3>1. CASE BindFails \/ ListenFails \/ AcceptFails
      BY <3>1, ExitClears DEF BindFails, ListenFails, AcceptFails
    <3>2. CASE Accept
      BY <3>2, AcceptKeepsSlots
    <3>3. CASE Hangup
      BY <3>3, HangupKeepsSlots
    <3>4. CASE Socket \/ Bind \/ Listen \/ Select \/ NoNewConnection \/ Skip \/ EndScan \/ Answer
      <4>1. UNCHANGED <<arr_sock, fdtab, backlog, cstate>> /\ i' \in Nat
        BY <3>4 DEF Socket, Bind, Listen, Select, NoNewConnection, Skip, EndScan, Answer,
           NextSlot, kernel, peers, SlotInv, SlotTypes
      <4> QED BY <4>1, <2>1 DEF SlotInv, SlotTypes
    <3>5. CASE RecvFails
      <4>1. UNCHANGED <<arr_sock, fdtab, backlog>> /\ i' \in Nat
        BY <3>5 DEF RecvFails, NextSlot, kernel, SlotInv, SlotTypes
      <4>2. cstate' = [cstate EXCEPT ![Peer(i)] = "closed"]
        BY <3>5 DEF RecvFails
      <4> QED BY <4>1, <4>2, <2>1 DEF SlotInv, SlotTypes
    <3> QED BY <2>2, <3>1, <3>2, <3>3, <3>4, <3>5 DEF Server
  <2>3. CASE SelectFails
    BY <2>3, ExitClears DEF SelectFails
  <2>4. ASSUME NEW c \in Clients, Client(c) PROVE SlotInv'
    <3>1. CASE Connect(c)
      BY <3>1, ConnectKeepsSlots
    <3>2. CASE Quit(c) \/ Abort(c)
      <4>1. UNCHANGED <<arr_sock, fdtab, backlog, i>>
        BY <3>2 DEF Quit, Abort, program, kernel
      <4>2. PICK st \in {"closed", "reset"} : cstate' = [cstate EXCEPT ![c] = st]
        BY <3>2 DEF Quit, Abort
      <4> QED BY <4>1, <4>2, <2>1 DEF SlotInv, SlotTypes
    <3>3. ASSUME Deliver(c) \/ \E m \in Words[c] : Send(c, m) PROVE SlotInv'
      <4>1. UNCHANGED <<arr_sock, fdtab, backlog, i, cstate>>
        BY <3>3 DEF Deliver, Send, program, kernel
      <4> QED BY <4>1, <2>1 DEF SlotInv, SlotTypes
    <3> QED BY <2>4, <3>1, <3>2, <3>3 DEF Client
  <2>5. CASE Done \/ UNCHANGED vars
    <3>1. UNCHANGED <<arr_sock, fdtab, backlog, i, cstate>>
      BY <2>5 DEF Done, vars, program, kernel, peers
    <3> QED BY <3>1, <2>1 DEF SlotInv, SlotTypes
  <2> QED BY <2>2, <2>3, <2>4, <2>5 DEF Next
<1>3. QED BY <1>1, <1>2, PTL DEF Spec

\* select() is never given a closed descriptor and close() never closes
\* another slot's client (netserver.c:95-103, 163).
THEOREM SlotsNameOpenConnectionsCorrect == Spec => []SlotsNameOpenConnections
<1>1. SlotInv => SlotsNameOpenConnections
  <2> SUFFICES ASSUME SlotInv, NEW s \in Occupied
               PROVE  Peer(s) # NoClient /\ \A t \in Occupied : Peer(s) = Peer(t) => s = t
    BY DEF SlotsNameOpenConnections
  <2>1. \A t \in Occupied : t \in Slots /\ arr_sock[t] # 0 /\ arr_sock[t] \in ConnFds
    BY DEF Occupied, SlotInv, SlotTypes
  <2>2. Peer(s) # NoClient
    BY <2>1 DEF Peer, SlotInv
  <2>3. ASSUME NEW t \in Occupied, Peer(s) = Peer(t) PROVE s = t
    <3>1. arr_sock[s] = arr_sock[t]
      BY <2>1, <2>2, <2>3 DEF Peer, SlotInv
    <3> QED BY <2>1, <3>1 DEF SlotInv
  <2> QED BY <2>2, <2>3
<1>2. QED BY <1>1, SlotsCorrect, PTL

-----------------------------------------------------------------------------
(***************************************************************************)
(* What select() saw stays true until the pass has used it.  A pass reads  *)
(* from slots it has not come to yet only descriptors select() reported,   *)
(* and nobody but the pass itself takes away what makes them readable.     *)
(***************************************************************************)
News(first) == \A s \in Slots : s >= first /\ HasNews(s) => Readable(Peer(s))

BlockInv ==
  /\ stream \in [Clients -> Seq(Byte)]
  /\ rest \in [Clients -> Seq(Byte)]
  /\ spc \in {"listen", "select", "accept", "scan"} => sock = Listener
  /\ spc = "accept" => set \subseteq Watched /\ (sock \in set => backlog # <<>>)
  /\ spc = "accept" => News(0)
  /\ spc = "scan" => News(i)

\* The client of an occupied slot is a client, and no other slot's.
LEMMA PeersOfSlots ==
  ASSUME SlotInv
  PROVE  /\ \A s \in Slots : arr_sock[s] # 0 => arr_sock[s] \in ConnFds /\ Peer(s) \in Clients
         /\ \A s, t \in Slots : arr_sock[s] # 0 /\ arr_sock[t] # 0 /\ Peer(s) = Peer(t) => s = t
<1>1. \A s \in Slots : arr_sock[s] # 0 => arr_sock[s] \in ConnFds /\ Peer(s) \in Clients
  BY DEF SlotInv, SlotTypes, Peer
<1>2. \A s, t \in Slots : arr_sock[s] # 0 /\ arr_sock[t] # 0 /\ Peer(s) = Peer(t) => s = t
  BY <1>1, ClientsAssumption DEF SlotInv, Peer
<1>3. QED BY <1>1, <1>2

\* Words are bytes, and so is what a client sends of them.
LEMMA SentIsBytes ==
  ASSUME NEW c \in Clients, NEW m \in Words[c]
  PROVE  Sent(m) \in Seq(Byte) /\ Sent(m) # <<>>
<1>1. m \in Seq(Byte)
  <2>1. m \in Messages
    BY DEF Messages
  <2>2. m \in Seq(Byte \ {NUL})
    BY <2>1, MessagesAssumption
  <2> QED BY <2>2, SeqMonotonic
<1>2. NUL \in Byte
  BY DEF Byte
<1>3. Append(m, NUL) \in Seq(Byte) /\ Append(m, NUL) # <<>>
  BY <1>1, <1>2, AppendProperties
<1>4. QED BY <1>3 DEF Sent

\* A sequence of bytes is cut into sequences of bytes.
LEMMA PartsOfSeq ==
  ASSUME NEW S, NEW b \in Seq(S), NEW k \in 0 .. Len(b)
  PROVE  /\ SubSeq(b, 1, k) \in Seq(S) /\ Len(SubSeq(b, 1, k)) = k
         /\ k > 0 => SubSeq(b, 1, k) # <<>>
         /\ SubSeq(b, k + 1, Len(b)) \in Seq(S)
<1>1. Len(b) \in Nat /\ k \in Int /\ 1 \in Int /\ k + 1 \in Int /\ Len(b) \in Int
  BY LenProperties
<1>2. /\ \A j \in 1 .. k : b[j] \in S
      /\ \A j \in k + 1 .. Len(b) : b[j] \in S
  BY <1>1, ElementOfSeq
<1>3. SubSeq(b, 1, k) \in Seq(S) /\ Len(SubSeq(b, 1, k)) = IF 1 <= k THEN k - 1 + 1 ELSE 0
  BY <1>1, <1>2, SubSeqProperties
<1>4. SubSeq(b, k + 1, Len(b)) \in Seq(S)
  BY <1>1, <1>2, SubSeqProperties
<1>5. Len(SubSeq(b, 1, k)) = k
  BY <1>1, <1>3
<1>6. k > 0 => SubSeq(b, 1, k) # <<>>
  BY <1>1, <1>3, <1>5, EmptySeq
<1>7. QED BY <1>3, <1>4, <1>5, <1>6

\* What is not taken by the server stays readable for it.
LEMMA NewsLasts ==
  ASSUME SlotInv, NEW first \in Nat, News(first), UNCHANGED <<arr_sock, fdtab, set>>,
         \A c \in Clients : Readable(c) => Readable(c)'
  PROVE  News(first)'
<1> SUFFICES ASSUME NEW s \in Slots, s >= first, HasNews(s)' PROVE Readable(Peer(s))'
  BY DEF News
<1>1. HasNews(s) /\ Peer(s) \in Clients
  BY PeersOfSlots DEF HasNews
<1>2. Readable(Peer(s))
  BY <1>1 DEF News
<1>3. Peer(s)' = Peer(s)
  BY DEF Peer
<1>4. QED BY <1>1, <1>2, <1>3 DEF Readable

\* select() reports a slot only when there is something to read from it.
LEMMA SelectSees ==
  ASSUME SlotInv, BlockInv, Select
  PROVE  BlockInv'
<1>1. /\ sock = Listener /\ spc' = "accept" /\ set' = {f \in Watched : Ready(f)}
      /\ UNCHANGED <<sock, arr_sock, i, fdtab, backlog, cstate, stream, rest>>
  BY DEF Select, BlockInv, kernel, peers
<1>2. Watched' = Watched
  BY <1>1 DEF Watched, Occupied
<1>3. sock' \in set' => backlog' # <<>>
  BY <1>1 DEF Ready
<1>4. ASSUME NEW s \in Slots, HasNews(s)' PROVE Readable(Peer(s))'
  <2>1. arr_sock[s] # 0 /\ Ready(arr_sock[s])
    BY <1>1, <1>4 DEF HasNews
  <2>2. arr_sock[s] # Listener
    BY <2>1, PeersOfSlots DEF ConnFds, Listener
  <2>3. Readable(Peer(s))
    BY <2>1, <2>2 DEF Ready, Peer
  <2> QED BY <1>1, <2>3 DEF Readable, Peer
<1>5. QED BY <1>1, <1>2, <1>3, <1>4 DEF BlockInv, News

\* A new connection has a descriptor that select() was not asked about.
LEMMA AcceptKeepsNews ==
  ASSUME SlotInv, BlockInv, Accept
  PROVE  News(0)'
<1> DEFINE newsock == Lowest(FreeFds)
<1>1. /\ newsock \in ConnFds /\ fdtab[newsock] = NoClient
      /\ fdtab' = [fdtab EXCEPT ![newsock] = Head(backlog)]
      /\ arr_sock' = Placed(newsock)
      /\ UNCHANGED <<set, stream, cstate>> /\ sock = Listener
      /\ set \subseteq Watched /\ News(0)
  <2>1. FreeFds \subseteq Nat /\ FreeFds # {}
    BY FdsAreNumbers DEF FreeFds, Accept
  <2>2. newsock \in FreeFds
    BY <2>1, LowestExists
  <2> QED BY <2>2 DEF FreeFds, Accept, peers, BlockInv
<1>2. newsock # Listener /\ newsock # 0
  BY <1>1, FdsAreNumbers DEF ConnFds, Listener
<1>3. \A s \in Slots : arr_sock[s] # 0 => arr_sock[s] # newsock
  BY <1>1 DEF SlotInv
<1>4. newsock \notin set
  BY <1>1, <1>2, <1>3 DEF Watched, Occupied
<1>5. \A s \in Slots : arr_sock'[s] # newsock => arr_sock'[s] = arr_sock[s]
  <2>1. EmptySlots # {} => Lowest(EmptySlots) \in Slots
    BY LowestExists, FdsAreNumbers DEF EmptySlots
  <2> QED BY <1>1, <2>1 DEF Placed, SlotInv, SlotTypes
<1>6. SUFFICES ASSUME NEW s \in Slots, HasNews(s)' PROVE Readable(Peer(s))'
  BY DEF News
<1>7. HasNews(s) /\ arr_sock'[s] = arr_sock[s] /\ arr_sock[s] \in ConnFds
  BY <1>1, <1>4, <1>5, <1>6, PeersOfSlots DEF HasNews
<1>8. Peer(s)' = Peer(s)
  BY <1>1, <1>3, <1>7 DEF Peer, HasNews, SlotInv, SlotTypes
<1>9. Readable(Peer(s))
  BY <1>1, <1>7, FdsAreNumbers DEF News
<1>10. QED BY <1>1, <1>8, <1>9 DEF Readable

\* A step of the scan touches the client of slot i and no other's.
LEMMA ScanKeepsNews ==
  ASSUME SlotInv, BlockInv, Hangup \/ Answer \/ RecvFails
  PROVE  News(i)'
<1> DEFINE c == Peer(i)
<1>1. /\ spc = "scan" /\ i \in Slots /\ arr_sock[i] # 0 /\ i' = i + 1 /\ set' = set /\ News(i)
  BY SizesAssumption DEF Hangup, Answer, RecvFails, Scanning, HasNews, NextSlot, Slots,
     SlotInv, SlotTypes, BlockInv
<1>2. c \in Clients /\ arr_sock[i] \in ConnFds
  BY <1>1, PeersOfSlots
<1>3. \A d \in Clients \ {c} : stream'[d] = stream[d] /\ cstate'[d] = cstate[d]
  BY <1>2 DEF Hangup, Answer, RecvFails, SlotInv, SlotTypes, BlockInv
<1>4. \A s \in Slots \ {i} : arr_sock'[s] = arr_sock[s]
  BY DEF Hangup, Answer, RecvFails, SlotFreed, SlotInv, SlotTypes
<1>5. \A f \in ConnFds \ {arr_sock[i]} : fdtab'[f] = fdtab[f]
  BY DEF Hangup, Answer, RecvFails, AfterClose, kernel, SlotInv, SlotTypes
<1>6. SUFFICES ASSUME NEW s \in Slots, s >= i', HasNews(s)' PROVE Readable(Peer(s))'
  BY DEF News
<1>7. s # i /\ s >= i /\ arr_sock'[s] = arr_sock[s] /\ HasNews(s)
  BY <1>1, <1>4, <1>6, FdsAreNumbers DEF HasNews
<1>8. Readable(Peer(s)) /\ Peer(s) # c /\ Peer(s) \in Clients
  BY <1>1, <1>7, PeersOfSlots DEF News, HasNews
<1>9. arr_sock[s] \in ConnFds \ {arr_sock[i]}
  BY <1>1, <1>7, <1>8, PeersOfSlots DEF HasNews, Peer
<1>10. Peer(s)' = Peer(s)
  BY <1>5, <1>7, <1>9 DEF Peer
<1>11. QED BY <1>3, <1>8, <1>10 DEF Readable

\* What clients do takes nothing from a stream that is not aborted.
LEMMA ClientsKeepNews ==
  ASSUME SlotInv, BlockInv, NEW c \in Clients, Client(c)
  PROVE  BlockInv'
<1>1. UNCHANGED <<spc, sock, arr_sock, set, i, fdtab>>
  BY DEF Client, Connect, Deliver, Quit, Abort, Send, program, kernel
<1> DEFINE Kept == /\ stream' \in [Clients -> Seq(Byte)]
                   /\ rest' \in [Clients -> Seq(Byte)]
                   /\ \A d \in Clients : Readable(d) => Readable(d)'
<1>2. Kept
  <2>1. CASE Connect(c)
    BY <2>1 DEF Connect, Readable, BlockInv, SlotInv, SlotTypes
  <2>2. CASE Quit(c)
    BY <2>2 DEF Quit, Readable, BlockInv, SlotInv, SlotTypes
  <2>3. CASE Abort(c)
    BY <2>3 DEF Abort, Readable, BlockInv, SlotInv, SlotTypes
  <2>4. ASSUME NEW m \in Words[c], Send(c, m) PROVE Kept
    <3>1. Sent(m) \in Seq(Byte) /\ Sent(m) # <<>>
      BY SentIsBytes
    <3>2. stream[c] \in Seq(Byte) /\ cstate' = cstate
      BY <2>4 DEF Send, BlockInv
    <3>3. stream[c] \o Sent(m) \in Seq(Byte) /\ stream[c] \o Sent(m) # <<>>
      BY <3>1, <3>2, ConcatProperties, EmptySeq
    <3>4. CASE stream' = [stream EXCEPT ![c] = stream[c] \o Sent(m)] /\ rest' = rest
      BY <3>2, <3>3, <3>4 DEF Readable, BlockInv
    <3>5. CASE rest' = [rest EXCEPT ![c] = Sent(m)] /\ stream' = stream
      BY <3>1, <3>2, <3>5 DEF Readable, BlockInv
    <3> QED BY <2>4, <3>4, <3>5 DEF Send
  <2>5. CASE Deliver(c)
    <3>1. PICK k \in 1 .. Len(rest[c]) :
            /\ stream' = [stream EXCEPT ![c] = stream[c] \o SubSeq(rest[c], 1, k)]
            /\ rest' = [rest EXCEPT ![c] = SubSeq(rest[c], k + 1, Len(rest[c]))]
      BY <2>5 DEF Deliver
    <3>2. cstate' = cstate /\ stream[c] \in Seq(Byte) /\ rest[c] \in Seq(Byte)
      BY <2>5 DEF Deliver, BlockInv
    <3>3. k \in Int /\ 1 <= k /\ Len(rest[c]) \in Nat /\ k <= Len(rest[c])
      BY <3>2, LenProperties
    <3>4. /\ SubSeq(rest[c], 1, k) \in Seq(Byte) /\ SubSeq(rest[c], 1, k) # <<>>
          /\ SubSeq(rest[c], k + 1, Len(rest[c])) \in Seq(Byte)
      BY <3>2, <3>3, PartsOfSeq
    <3>5. stream[c] \o SubSeq(rest[c], 1, k) \in Seq(Byte)
          /\ stream[c] \o SubSeq(rest[c], 1, k) # <<>>
      BY <3>2, <3>4, ConcatProperties, EmptySeq
    <3> HIDE DEF Kept
    <3>6. stream' \in [Clients -> Seq(Byte)] /\ rest' \in [Clients -> Seq(Byte)]
      BY <3>1, <3>4, <3>5 DEF BlockInv
    <3>7. \A d \in Clients : stream[d] # <<>> => stream'[d] # <<>>
      BY <3>1, <3>5 DEF BlockInv
    <3> QED BY <3>2, <3>6, <3>7 DEF Kept, Readable
  <2> QED BY <2>1, <2>2, <2>3, <2>4, <2>5 DEF Client
<1>3. backlog # <<>> => backlog' # <<>>
  <2>1. CASE Connect(c)
    BY <2>1, AppendProperties DEF Connect, SlotInv, SlotTypes
  <2>2. CASE ~Connect(c)
    BY <2>2 DEF Client, Deliver, Quit, Abort, Send, kernel
  <2> QED BY <2>1, <2>2
<1>4. Watched' = Watched
  BY <1>1 DEF Watched, Occupied
<1>5. spc = "accept" => News(0)'
  BY <1>1, <1>2, NewsLasts DEF BlockInv
<1>6. spc = "scan" => News(i)'
  <2>1. i \in Nat /\ News(i)' = \A s \in Slots : s >= i /\ HasNews(s)' => Readable(Peer(s))'
    BY <1>1 DEF News, SlotInv, SlotTypes
  <2> QED BY <1>1, <1>2, <2>1, NewsLasts DEF BlockInv, News
<1>7. QED BY <1>1, <1>2, <1>3, <1>4, <1>5, <1>6 DEF BlockInv

\* accept() and recvfrom() are called only where select() saw something that
\* nobody has taken since (netserver.c:120, 153).
THEOREM BlockInvCorrect == Spec => []BlockInv
<1>1. Init => BlockInv
  BY DEF Init, BlockInv
<1>2. SlotInv /\ BlockInv /\ [Next]_vars => BlockInv'
  <2> SUFFICES ASSUME SlotInv, BlockInv, [Next]_vars PROVE BlockInv'
    OBVIOUS
  <2>1. ASSUME NEW code, Exit(code) PROVE BlockInv'
    BY <2>1 DEF Exit, BlockInv
  <2>2. CASE BindFails \/ ListenFails \/ AcceptFails \/ SelectFails
    BY <2>1, <2>2 DEF BindFails, ListenFails, AcceptFails, SelectFails
  <2>3. CASE Socket \/ Bind \/ Listen \/ EndScan
    BY <2>3 DEF Socket, Bind, Listen, EndScan, peers, kernel, BlockInv
  <2>4. CASE Select
    BY <2>4, SelectSees
  <2>5. CASE Accept
    <3>1. News(0)'
      BY <2>5, AcceptKeepsNews
    <3>2. spc' = "scan" /\ i' = 0 /\ UNCHANGED <<stream, rest, sock>> /\ sock = Listener
      BY <2>5 DEF Accept, peers, BlockInv
    <3> QED BY <3>1, <3>2 DEF BlockInv, News
  <2>6. CASE NoNewConnection
    BY <2>6 DEF NoNewConnection, BlockInv, News, HasNews, Peer, Readable, kernel, peers
  <2>7. CASE Skip
    <3>1. spc = "scan" /\ News(i) /\ ~HasNews(i) /\ i \in Nat /\ i' = i + 1
      BY <2>7 DEF Skip, Scanning, NextSlot, BlockInv, SlotInv, SlotTypes
    <3>2. UNCHANGED <<spc, sock, arr_sock, set, fdtab, backlog, cstate, stream, rest>>
      BY <2>7 DEF Skip, kernel, peers
    <3>3. \A s \in Slots : s >= i + 1 => s >= i
      BY <3>1, FdsAreNumbers
    <3>4. News(i)'
      BY <3>1, <3>2, <3>3 DEF News, HasNews, Peer, Readable
    <3> QED BY <3>1, <3>2, <3>4 DEF BlockInv
  <2>8. CASE Hangup \/ Answer \/ RecvFails
    <3>1. News(i)'
      BY <2>8, ScanKeepsNews
    <3>2. spc = "scan" /\ spc' = spc /\ sock' = sock
      BY <2>8 DEF Hangup, Answer, RecvFails, Scanning
    <3>3. stream' \in [Clients -> Seq(Byte)] /\ rest' \in [Clients -> Seq(Byte)]
      <4>1. CASE Answer
        <5>1. PICK c \in Clients :
                stream' = [stream EXCEPT ![c] = SubSeq(@, Taken(c) + 1, Len(@))]
          <6>1. i \in Slots /\ arr_sock[i] # 0
            BY <4>1, SizesAssumption DEF Answer, Scanning, HasNews, Slots, SlotInv, SlotTypes
          <6> QED BY <4>1, <6>1, PeersOfSlots DEF Answer
        <5>2. stream[c] \in Seq(Byte) /\ Len(stream[c]) \in Nat
          BY LenProperties DEF BlockInv
        <5>3. Taken(c) \in 0 .. Len(stream[c])
          BY <5>2, SizesAssumption DEF Taken
        <5>4. SubSeq(stream[c], Taken(c) + 1, Len(stream[c])) \in Seq(Byte)
          BY <5>2, <5>3, PartsOfSeq
        <5>5. rest' = rest
          BY <4>1 DEF Answer
        <5> QED BY <5>1, <5>4, <5>5 DEF BlockInv
      <4>2. CASE Hangup \/ RecvFails
        BY <4>2 DEF Hangup, RecvFails, BlockInv
      <4> QED BY <2>8, <4>1, <4>2
    <3> QED BY <3>1, <3>2, <3>3 DEF BlockInv
  <2>9. ASSUME NEW c \in Clients, Client(c) PROVE BlockInv'
    BY <2>9, ClientsKeepNews
  <2>10. CASE Done \/ UNCHANGED vars
    <3>1. UNCHANGED <<spc, sock, arr_sock, set, i, fdtab, backlog, cstate, stream, rest>>
      BY <2>10 DEF Done, vars, program, kernel, peers
    <3>2. Watched' = Watched /\ News(0)' = News(0) /\ News(i)' = News(i)
      BY <3>1 DEF Watched, Occupied, News, HasNews, Peer, Readable
    <3> QED BY <3>1, <3>2 DEF BlockInv
  <2> QED BY <2>2, <2>3, <2>4, <2>5, <2>6, <2>7, <2>8, <2>9, <2>10 DEF Next, Server
<1>3. QED BY <1>1, <1>2, SlotsCorrect, PTL DEF Spec

\* No call of the server waits for one client (netserver.c:120, 153).
THEOREM NeverBlocksCorrect == Spec => []NeverBlocks
<1>1. BlockInv => NeverBlocks
  BY DEF BlockInv, NeverBlocks, Scanning, News
<1>2. QED BY <1>1, BlockInvCorrect, PTL

-----------------------------------------------------------------------------
(***************************************************************************)
(* The descriptor table.  When it is full every descriptor belongs to a    *)
(* slot or to a client that was turned away, and no two to the same one.   *)
(***************************************************************************)
\* A full table holds as many clients that were turned away as it has
\* descriptors beyond one for each slot.
LEMMA FullTable ==
  ASSUME SlotInv, FreeFds = {}
  PROVE  Cardinality(TurnedAway) + MAX_COUNT_SOCK >= Cardinality(ConnFds)
<1> USE FdsAreNumbers
<1> DEFINE InSlot == {f \in ConnFds : \E s \in Occupied : arr_sock[s] = f}
           Rest == ConnFds \ InSlot
           slotOf == [f \in InSlot |-> CHOOSE s \in Occupied : arr_sock[s] = f]
           clientOf == [f \in Rest |-> fdtab[f]]
<1>1. IsFiniteSet(ConnFds) /\ IsFiniteSet(Slots) /\ Cardinality(Slots) = MAX_COUNT_SOCK
  <2>1. /\ Listener + 1 \in Int /\ MaxFd \in Int
        /\ MAX_COUNT_SOCK - 1 \in Int /\ 0 \in Int /\ MAX_COUNT_SOCK - 1 >= 0
    BY SizesAssumption DEF Listener
  <2>2. IsFiniteSet(ConnFds)
    BY <2>1, FS_Interval DEF ConnFds
  <2>3. IsFiniteSet(0 .. MAX_COUNT_SOCK - 1) /\ Cardinality(0 .. MAX_COUNT_SOCK - 1) = MAX_COUNT_SOCK
    BY <2>1, FS_Interval, SizesAssumption
  <2> QED BY <2>2, <2>3 DEF Slots
<1>2. Cardinality(InSlot) \in Nat /\ Cardinality(InSlot) <= MAX_COUNT_SOCK /\ IsFiniteSet(InSlot)
  <2>1. \A f \in InSlot : slotOf[f] \in Slots /\ arr_sock[slotOf[f]] = f
    BY DEF Occupied
  <2>2. slotOf \in Injection(InSlot, Slots)
    BY <2>1 DEF Injection, IsInjective
  <2>3. IsFiniteSet(InSlot) /\ Cardinality(InSlot) <= Cardinality(Slots)
    BY <1>1, <2>2, FS_Injection
  <2> QED BY <1>1, <2>3, FS_CardinalityType
<1>3. IsFiniteSet(Rest) /\ Cardinality(ConnFds) <= Cardinality(InSlot) + Cardinality(Rest)
      /\ Cardinality(Rest) \in Nat
  <2>1. IsFiniteSet(Rest) /\ InSlot \cup Rest = ConnFds /\ InSlot \cap Rest = {}
    <3>1. Rest \subseteq ConnFds
      OBVIOUS
    <3> QED BY <1>1, <3>1, FS_Subset
  <2>2. Cardinality(InSlot \cup Rest) =
          Cardinality(InSlot) + Cardinality(Rest) - Cardinality(InSlot \cap Rest)
    BY <1>2, <2>1, FS_Union
  <2>3. Cardinality(InSlot \cap Rest) = 0
    BY <2>1, FS_EmptySet
  <2>4. Cardinality(Rest) \in Nat
    BY <2>1, FS_CardinalityType
  <2>5. Cardinality(ConnFds) = Cardinality(InSlot) + Cardinality(Rest) - 0
    BY <2>1, <2>2, <2>3
  <2> HIDE DEF InSlot, Rest
  <2> QED BY <1>2, <2>1, <2>4, <2>5
<1>4. Cardinality(TurnedAway) = Cardinality(Rest)
  <2>1. \A f \in ConnFds : fdtab[f] \in Clients
    BY DEF FreeFds, SlotInv, SlotTypes
  <2>2. \A f \in Rest, s \in Occupied : Peer(s) # fdtab[f]
    <3> SUFFICES ASSUME NEW f \in Rest, NEW s \in Occupied, Peer(s) = fdtab[f] PROVE FALSE
      OBVIOUS
    <3>1. arr_sock[s] \in ConnFds /\ arr_sock[s] # f
      BY DEF Occupied, SlotInv, SlotTypes
    <3>2. fdtab[f] # NoClient
      BY <2>1, ClientsAssumption
    <3> QED BY <3>1, <3>2 DEF Peer, SlotInv
  <2>3. \A f \in Rest : clientOf[f] \in TurnedAway
    BY <2>1, <2>2 DEF TurnedAway
  <2>4. ASSUME NEW c \in TurnedAway PROVE \E f \in Rest : clientOf[f] = c
    <3>1. PICK f \in ConnFds : fdtab[f] = c
      BY DEF TurnedAway
    <3>2. f \notin InSlot
      BY <3>1 DEF TurnedAway, Peer
    <3> QED BY <3>1, <3>2
  <2>5. \A f, g \in Rest : clientOf[f] = clientOf[g] => f = g
    BY <2>1, ClientsAssumption DEF SlotInv
  <2>6. clientOf \in Injection(Rest, TurnedAway) /\ clientOf \in Surjection(Rest, TurnedAway)
    BY <2>3, <2>4, <2>5 DEF Injection, Surjection, IsInjective
  <2> QED BY <1>3, <2>6, FS_Surjection
<1> HIDE DEF InSlot, Rest
<1>5. Cardinality(ConnFds) \in Nat
  BY <1>1, FS_CardinalityType
<1>6. QED BY <1>2, <1>3, <1>4, <1>5, SizesAssumption

\* When accept() finds no free descriptor, clients that were turned away, and
\* never closed, hold all but one for each slot (netserver.c:122-145).
THEOREM FullOnlyByTurnedAwayCorrect == Spec => []FullOnlyByTurnedAway
<1>1. SlotInv => FullOnlyByTurnedAway
  BY FullTable DEF FullOnlyByTurnedAway
<1>2. QED BY <1>1, SlotsCorrect, PTL

-----------------------------------------------------------------------------
(***************************************************************************)
(* The server implements ServerPool.                                       *)
(***************************************************************************)
\* Leaving main() stops the pool.
LEMMA ExitStopsPool ==
  ASSUME SlotInv, spc # "exited", NEW code, Exit(code)
  PROVE  Pool!Next
<1>1. Serving' = [s \in Slots |-> NoClient]
  BY DEF Exit, Serving
<1>2. TurnedAway' = {}
  BY ClientsAssumption DEF Exit, TurnedAway
<1>3. Pool!Stop
  BY <1>1, <1>2 DEF Exit, Pool!Stop
<1>4. QED BY <1>3 DEF Pool!Next

\* Accept admits the client to the lowest free slot or turns it away.
LEMMA AcceptAdmits ==
  ASSUME SlotInv, SlotInv', Accept
  PROVE  Pool!Next
<1> USE FdsAreNumbers
<1>1. PICK newsock \in ConnFds : newsock = Lowest(FreeFds) /\ fdtab[newsock] = NoClient
  BY LowestExists DEF Accept, FreeFds
<1>2. PICK c \in Clients : c = Head(backlog) /\ c \in Queued /\ c # NoClient
  BY HeadTailProperties, LenProperties, ClientsAssumption
     DEF Accept, SlotInv, SlotTypes, Queued
<1>3. /\ spc # "exited" /\ spc' # "exited"
      /\ fdtab' = [fdtab EXCEPT ![newsock] = c]
      /\ arr_sock' = Placed(newsock)
  BY <1>1, <1>2 DEF Accept
<1>4. \A f \in ConnFds : fdtab[f] # c
  BY <1>2 DEF SlotInv
<1>5. \A s \in Slots : arr_sock[s] # newsock
  BY <1>1 DEF SlotInv
<1>6. \A s \in Slots : arr_sock[s] # 0 => Serving[s] = fdtab[arr_sock[s]] /\ Serving[s] # NoClient
  BY DEF Serving, Peer, SlotInv
<1>7. \A s \in Slots : arr_sock[s] = 0 => Serving[s] = NoClient
  BY DEF Serving
<1>8. ~ Pool!Known(c)
  <2>1. c \notin TurnedAway
    BY <1>4 DEF TurnedAway
  <2>2. \A s \in Slots : Serving[s] # c
    <3> SUFFICES ASSUME NEW s \in Slots PROVE Serving[s] # c
      OBVIOUS
    <3>1. CASE arr_sock[s] = 0
      BY <1>2, <1>7, <3>1
    <3>2. CASE arr_sock[s] # 0
      <4>1. SlotTypes
        BY DEF SlotInv
      <4>2. arr_sock[s] \in ConnFds
        BY <3>2, <4>1, OccupiedSlots
      <4> QED BY <1>4, <1>6, <3>2, <4>2
    <3> QED BY <3>1, <3>2
  <2> QED BY <2>1, <2>2 DEF Pool!Known
<1>9. CASE EmptySlots # {}
  <2>1. PICK s0 \in Slots :
          s0 = Lowest(EmptySlots) /\ arr_sock[s0] = 0 /\ \A t \in EmptySlots : s0 <= t
    BY <1>9, LowestExists DEF EmptySlots
  <2>2. arr_sock' = [arr_sock EXCEPT ![s0] = newsock]
    BY <1>3, <1>9, <2>1 DEF Placed
  <2>3. Serving' = [Serving EXCEPT ![s0] = c]
    <3>1. Serving'[s0] = c
      BY <1>1, <1>3, <2>1, <2>2 DEF Serving, Peer, SlotInv, SlotTypes
    <3>2. ASSUME NEW t \in Slots, t # s0 PROVE Serving'[t] = Serving[t]
      BY <1>1, <1>3, <1>5, <2>1, <2>2, <3>2 DEF Serving, Peer, SlotInv, SlotTypes
    <3> QED BY <2>1, <3>1, <3>2 DEF Serving
  <2>4. TurnedAway' = TurnedAway
    <3>1. ASSUME NEW d \in Clients, d # c PROVE d \in TurnedAway' <=> d \in TurnedAway
      <4>1. (\E f \in ConnFds : fdtab'[f] = d) <=> (\E f \in ConnFds : fdtab[f] = d)
        BY <1>1, <1>3, <3>1, ClientsAssumption DEF SlotInv, SlotTypes
      <4>2. (\A s \in Occupied' : Peer(s)' # d) <=> (\A s \in Occupied : Peer(s) # d)
        BY <1>1, <1>3, <1>5, <2>1, <2>2, <3>1 DEF Occupied, Peer, SlotInv, SlotTypes
      <4> QED BY <4>1, <4>2 DEF TurnedAway
    <3>2. c \notin TurnedAway'
      <4>1. s0 \in Occupied' /\ Peer(s0)' = c
        BY <1>1, <1>3, <2>1, <2>2 DEF Occupied, Peer, SlotInv, SlotTypes
      <4> QED BY <4>1 DEF TurnedAway
    <3>3. c \notin TurnedAway
      BY <1>4 DEF TurnedAway
    <3> QED BY <3>1, <3>2, <3>3 DEF TurnedAway
  <2>5. \A t \in Slots : t < s0 => Serving[t] # NoClient
    <3>1. ASSUME NEW t \in Slots, t < s0 PROVE t \notin EmptySlots
      BY <2>1, <3>1
    <3> QED BY <1>6, <3>1 DEF EmptySlots
  <2>6. Pool!Admit(c, s0)
    BY <1>3, <1>7, <1>8, <2>1, <2>3, <2>4, <2>5 DEF Pool!Admit
  <2> QED BY <1>2, <2>1, <2>6 DEF Pool!Next
<1>10. CASE EmptySlots = {}
  <2>1. arr_sock' = arr_sock /\ \A s \in Slots : arr_sock[s] # 0
    BY <1>3, <1>10 DEF Placed, EmptySlots
  <2>2. \A s \in Slots : Peer(s)' = Peer(s)
    BY <1>1, <1>3, <1>5, <2>1 DEF Peer, SlotInv, SlotTypes
  <2>3. Serving' = Serving /\ \A s \in Slots : Serving[s] # NoClient
    BY <1>6, <2>1, <2>2 DEF Serving
  <2>4. Occupied' = Occupied /\ Occupied \subseteq Slots
    BY <2>1 DEF Occupied
  <2>5. \A d \in Clients :
          (\E f \in ConnFds : fdtab'[f] = d) <=> d = c \/ (\E f \in ConnFds : fdtab[f] = d)
    BY <1>1, <1>3, ClientsAssumption DEF SlotInv, SlotTypes
  <2>6. \A s \in Occupied : Peer(s) # c
    BY <1>4, OccupiedSlots DEF Peer, SlotInv
  <2>7. TurnedAway' = TurnedAway \cup {c}
    BY <1>2, <2>2, <2>4, <2>5, <2>6 DEF TurnedAway
  <2>8. Pool!TurnAway(c)
    BY <1>3, <1>8, <2>3, <2>7 DEF Pool!TurnAway
  <2> QED BY <1>2, <2>8 DEF Pool!Next
<1>11. QED BY <1>9, <1>10

\* Closing a slot's connection frees its place and no other.
LEMMA HangupLeaves ==
  ASSUME SlotInv, Hangup
  PROVE  Pool!Next
<1> USE FdsAreNumbers
<1>1. PICK s0 \in Slots : s0 = i /\ arr_sock[s0] # 0
  BY SizesAssumption DEF Hangup, Scanning, HasNews, Slots, SlotInv, SlotTypes
<1>2. PICK f0 \in ConnFds : f0 = arr_sock[s0] /\ fdtab[f0] # NoClient
  BY <1>1 DEF SlotInv, SlotTypes
<1>3. PICK c \in Clients : c = fdtab[f0]
  BY <1>2 DEF SlotInv, SlotTypes
<1>4. /\ fdtab' = [fdtab EXCEPT ![f0] = NoClient]
      /\ arr_sock' = [arr_sock EXCEPT ![s0] = 0]
      /\ spc # "exited" /\ spc' = spc
  BY <1>1, <1>2 DEF Hangup, Scanning, AfterClose, SlotFreed
<1>5. \A s \in Slots : s # s0 => arr_sock[s] # f0
  BY <1>1, <1>2 DEF SlotInv
<1>6. Serving[s0] # NoClient
  BY <1>1, <1>2 DEF Serving, Peer
<1>7. Serving' = [Serving EXCEPT ![s0] = NoClient]
  <2>1. Serving'[s0] = NoClient
    BY <1>1, <1>4 DEF Serving, SlotInv, SlotTypes
  <2>2. ASSUME NEW s \in Slots, s # s0 PROVE Serving'[s] = Serving[s]
    BY <1>2, <1>4, <1>5, <2>2 DEF Serving, Peer, SlotInv, SlotTypes
  <2> QED BY <2>1, <2>2 DEF Serving
<1>8. TurnedAway' = TurnedAway
  <2>1. c \notin TurnedAway
    <3>1. s0 \in Occupied /\ Peer(s0) = c
      BY <1>1, <1>2, <1>3 DEF Occupied, Peer
    <3> QED BY <3>1 DEF TurnedAway
  <2>2. c \notin TurnedAway'
    BY <1>2, <1>3, <1>4, ClientsAssumption DEF TurnedAway, SlotInv, SlotTypes
  <2>3. ASSUME NEW d \in Clients, d # c PROVE d \in TurnedAway' <=> d \in TurnedAway
    <3>1. (\E f \in ConnFds : fdtab'[f] = d) <=> (\E f \in ConnFds : fdtab[f] = d)
      BY <1>2, <1>3, <1>4, <2>3, ClientsAssumption DEF SlotInv, SlotTypes
    <3>2. (\A s \in Occupied' : Peer(s)' # d) <=> (\A s \in Occupied : Peer(s) # d)
      <4>1. /\ Occupied' = Occupied \ {s0}
            /\ s0 \in Occupied
            /\ Occupied \subseteq Slots
        BY <1>1, <1>2, <1>4 DEF Occupied, SlotInv, SlotTypes
      <4>2. Peer(s0) = c
        BY <1>1, <1>2, <1>3 DEF Peer
      <4>3. \A s \in Occupied' : Peer(s)' = Peer(s)
        BY <1>2, <1>4, <1>5, <4>1 DEF Peer, SlotInv, SlotTypes
      <4> QED BY <2>3, <4>1, <4>2, <4>3
    <3> QED BY <3>1, <3>2 DEF TurnedAway
  <2> QED BY <2>1, <2>2, <2>3 DEF TurnedAway
<1>9. Pool!Leave(s0)
  BY <1>4, <1>6, <1>7, <1>8 DEF Pool!Leave
<1>10. QED BY <1>1, <1>9 DEF Pool!Next

\* The server admits the queued client to the lowest free slot, keeps every
\* client in its slot until that client hangs up, and forgets one that found
\* no slot until the program ends (netserver.c:118-141, 150-181).
THEOREM ServesAsPoolCorrect == Spec => ServesAsPool
<1>1. Init => Pool!Init
  <2> SUFFICES ASSUME Init PROVE Pool!Init
    OBVIOUS
  <2>1. Serving = [s \in Slots |-> NoClient]
    BY DEF Init, Serving
  <2>2. TurnedAway = {}
    BY ClientsAssumption DEF Init, TurnedAway
  <2> QED BY <2>1, <2>2 DEF Init, Pool!Init
<1>2. SlotInv /\ SlotInv' /\ [Next]_vars => [Pool!Next]_(Pool!vars)
  <2> SUFFICES ASSUME SlotInv, SlotInv', [Next]_vars
               PROVE  Pool!Next \/ UNCHANGED Pool!vars
    OBVIOUS
  <2>1. ASSUME UNCHANGED <<arr_sock, fdtab>>, (spc = "exited") = (spc' = "exited")
        PROVE  UNCHANGED Pool!vars
    <3>1. Serving' = Serving /\ TurnedAway' = TurnedAway
      BY <2>1 DEF Serving, TurnedAway, Peer, Occupied
    <3> QED BY <2>1, <3>1 DEF Pool!vars
  <2>2. CASE BindFails \/ ListenFails \/ AcceptFails \/ SelectFails
    BY <2>2, ExitStopsPool DEF BindFails, ListenFails, AcceptFails, SelectFails
  <2>3. CASE Accept
    BY <2>3, AcceptAdmits
  <2>4. CASE Hangup
    BY <2>4, HangupLeaves
  <2>5. CASE Socket \/ Bind \/ Listen \/ Select \/ NoNewConnection \/ Skip \/ EndScan
             \/ Answer \/ RecvFails
    <3>1. UNCHANGED <<arr_sock, fdtab>> /\ spc # "exited" /\ spc' # "exited"
      BY <2>5 DEF Socket, Bind, Listen, Select, NoNewConnection, Skip, EndScan, Answer,
         RecvFails, Scanning, kernel
    <3> QED BY <2>1, <3>1
  <2>6. CASE (\E c \in Clients : Client(c)) \/ Done \/ UNCHANGED vars
    <3>1. UNCHANGED <<arr_sock, fdtab, spc>>
      BY <2>6 DEF Client, Connect, Deliver, Quit, Abort, Send, Done, vars, program, kernel
    <3> QED BY <2>1, <3>1
  <2> QED BY <2>2, <2>3, <2>4, <2>5, <2>6 DEF Next, Server
<1>3. QED BY <1>1, <1>2, SlotsCorrect, PTL DEF Spec, ServesAsPool, Pool!Spec

-----------------------------------------------------------------------------
(***************************************************************************)
(* What atoi() makes of the bytes in buf.                                  *)
(***************************************************************************)
\* The value of a sequence of digits is a number.  The recursive function in
\* Value has to exist first: a set of lengths for which it does not, or of
\* digits at which it leaves Nat, would have a lowest member.
LEMMA ValueIsNat ==
  ASSUME NEW d \in Seq(Nat)
  PROVE  Value(d) \in Nat
<1> DEFINE N == Len(d)
           Next0(v, k) == IF k = 0 THEN 0 ELSE 10 * v[k - 1] + d[k]
           value == CHOOSE v : v = [k \in 0 .. N |-> Next0(v, k)]
           Built(n) == \E g \in [0 .. n -> Nat] : \A j \in 0 .. n : g[j] = Next0(g, j)
           Bad == {n \in Nat : n <= N /\ ~Built(n)}
           Out == {k \in 0 .. N : value[k] \notin Nat}
<1>1. Value(d) = value[N]
  BY DEF Value
<1>2. N \in Nat /\ \A j \in 1 .. N : d[j] \in Nat
  BY LenProperties, ElementOfSeq
<1>3. Bad = {}
  <2> SUFFICES ASSUME Bad # {} PROVE FALSE
    OBVIOUS
  <2>1. PICK n \in Bad : \A m \in Bad : n <= m
    BY LowestExists
  <2>2. CASE n = 0
    <3> DEFINE z == [j \in 0 .. 0 |-> 0]
    <3>1. z \in [0 .. 0 -> Nat]
      OBVIOUS
    <3>2. \A j \in 0 .. 0 : j = 0 /\ z[j] = 0
      OBVIOUS
    <3> HIDE DEF z
    <3>3. Built(0)
      BY <3>1, <3>2
    <3> QED BY <2>1, <2>2, <3>3
  <2>3. CASE n # 0
    <3>1. n - 1 \in Nat /\ n - 1 <= N /\ n - 1 \notin Bad /\ n \in Nat /\ n <= N
      <4>1. n \in Nat /\ n <= N
        BY <2>1
      <4>2. n - 1 \in Nat /\ n - 1 <= N /\ ~(n <= n - 1)
        BY <1>2, <2>3, <4>1
      <4> HIDE DEF Bad
      <4> QED BY <2>1, <4>1, <4>2
    <3>2. PICK g \in [0 .. n - 1 -> Nat] : \A j \in 0 .. n - 1 : g[j] = Next0(g, j)
      BY <3>1
    <3> DEFINE h == [j \in 0 .. n |-> IF j < n THEN g[j] ELSE 10 * g[n - 1] + d[n]]
    <3>3. g[n - 1] \in Nat /\ d[n] \in Nat
      BY <1>2, <2>3, <3>1, <3>2
    <3>4. h \in [0 .. n -> Nat]
      BY <3>1, <3>2, <3>3
    <3>5. \A j \in 0 .. n - 1 : h[j] = g[j]
      BY <3>1
    <3>6. ASSUME NEW j \in 0 .. n PROVE h[j] = Next0(h, j)
      <4>1. CASE j = n
        BY <2>3, <3>1, <3>3, <3>5, <4>1
      <4>2. CASE j # n /\ j # 0
        <5>1. j \in 0 .. n - 1 /\ j - 1 \in 0 .. n - 1
          BY <3>1, <4>2
        <5> HIDE DEF h
        <5> QED BY <3>2, <3>5, <4>2, <5>1
      <4>3. CASE j = 0
        BY <2>3, <3>1, <3>2, <4>3
      <4> QED BY <4>1, <4>2, <4>3
    <3> QED BY <2>1, <3>4, <3>6
  <2> QED BY <2>2, <2>3
<1>4. value = [k \in 0 .. N |-> Next0(value, k)]
  <2>1. PICK g \in [0 .. N -> Nat] : \A j \in 0 .. N : g[j] = Next0(g, j)
    <3>1. N \notin Bad /\ N \in Nat /\ N <= N
      <4> HIDE DEF Bad, N
      <4> QED BY <1>2, <1>3
    <3>2. Built(N)
      <4> HIDE DEF Built
      <4> QED BY <3>1
    <3> QED BY <3>2
  <2>2. g = [k \in 0 .. N |-> Next0(g, k)]
    BY <2>1
  <2> QED BY <2>2
<1> HIDE DEF value
<1>5. Out = {}
  <2> SUFFICES ASSUME Out # {} PROVE FALSE
    OBVIOUS
  <2>1. PICK k \in Out : \A m \in Out : k <= m
    <3>1. Out \in SUBSET Nat
      BY <1>2
    <3> HIDE DEF Out
    <3> QED BY <3>1, LowestExists
  <2>2. CASE k = 0
    BY <1>2, <1>4, <2>1, <2>2
  <2>3. CASE k # 0
    <3>1. k - 1 \in 0 .. N /\ k - 1 \notin Out /\ k \in 1 .. N
      BY <1>2, <2>1, <2>3
    <3>2. value[k - 1] \in Nat /\ d[k] \in Nat
      BY <1>2, <3>1
    <3>3. value[k] = 10 * value[k - 1] + d[k]
      BY <1>4, <2>3, <3>1
    <3> QED BY <2>1, <3>2, <3>3
  <2> QED BY <2>2, <2>3
<1>6. QED BY <1>1, <1>2, <1>5

\* The digits in front of the first byte that is none.
LEMMA LeadingDigitsExist ==
  ASSUME NEW b \in Seq(Byte)
  PROVE  /\ LeadingDigits(b) \in 0 .. Len(b)
         /\ \A j \in 1 .. LeadingDigits(b) : b[j] \in Digit
         /\ LeadingDigits(b) < Len(b) => b[LeadingDigits(b) + 1] \notin Digit
<1> DEFINE Ends == {k \in 0 .. Len(b) : k = Len(b) \/ b[k + 1] \notin Digit}
<1>1. Len(b) \in Nat
  BY LenProperties
<1>2. Ends \in SUBSET Nat /\ Len(b) \in Ends
  BY <1>1
<1>3. PICK k \in Ends : \A m \in Ends : k <= m
  BY <1>2, LowestExists
<1>4. ASSUME NEW j \in 1 .. k PROVE b[j] \in Digit
  <2>1. j - 1 \in 0 .. Len(b) /\ j - 1 \notin Ends /\ j - 1 # Len(b) /\ (j - 1) + 1 = j
    <3>1. k \in 0 .. Len(b) /\ j - 1 \in 0 .. Len(b) /\ ~(k <= j - 1) /\ (j - 1) + 1 = j
          /\ j - 1 # Len(b)
      BY <1>1
    <3> HIDE DEF Ends
    <3> QED BY <1>3, <3>1
  <2> QED BY <2>1
<1>5. QED BY <1>3, <1>4 DEF LeadingDigits

LEMMA AtoiIsNat ==
  ASSUME NEW b \in Seq(Byte)
  PROVE  atoi(b) \in Nat
<1> DEFINE n == LeadingDigits(b)
<1>1. n \in 0 .. Len(b) /\ \A j \in 1 .. n : b[j] \in Digit
  BY LeadingDigitsExist
<1>2. n \in Int /\ \A j \in 1 .. n : b[j] \in Nat
  BY <1>1 DEF Digit
<1> HIDE DEF n
<1>3. SubSeq(b, 1, n) \in Seq(Nat)
  BY <1>2, SubSeqProperties
<1>4. QED BY <1>3, ValueIsNat DEF atoi, n

\* The NUL a client sends behind a word ends the number and is not part of it.
LEMMA AtoiOfSent ==
  ASSUME NEW m \in Seq(Byte \ {NUL})
  PROVE  atoi(Sent(m)) = atoi(m) /\ Found(Sent(m)) = {atoi(m)}
<1> DEFINE n == LeadingDigits(m)
           l == LeadingDigits(Sent(m))
<1>1. m \in Seq(Byte) /\ NUL \in Byte /\ NUL \notin Digit
  BY SeqMonotonic DEF Byte, Digit, NUL
<1>2. /\ Sent(m) \in Seq(Byte) /\ Len(m) \in Nat /\ Len(Sent(m)) = Len(m) + 1
      /\ \A j \in 1 .. Len(m) : Sent(m)[j] = m[j]
      /\ Sent(m)[Len(m) + 1] = NUL
  BY <1>1, AppendProperties, LenProperties DEF Sent
<1>3. /\ n \in 0 .. Len(m) /\ \A j \in 1 .. n : m[j] \in Digit
      /\ n < Len(m) => m[n + 1] \notin Digit
  BY <1>1, LeadingDigitsExist
<1>4. /\ l \in 0 .. Len(m) + 1 /\ \A j \in 1 .. l : Sent(m)[j] \in Digit
      /\ l < Len(m) + 1 => Sent(m)[l + 1] \notin Digit
  BY <1>2, LeadingDigitsExist
<1> HIDE DEF n, l
<1>5. ~(l < n)
  BY <1>2, <1>3, <1>4
<1>6. Sent(m)[n + 1] \notin Digit
  BY <1>1, <1>2, <1>3
<1>7. ~(n < l)
  BY <1>2, <1>3, <1>4, <1>6
<1>8. l = n
  BY <1>2, <1>3, <1>4, <1>5, <1>7
<1>9. SubSeq(Sent(m), 1, n) = SubSeq(m, 1, n)
  BY <1>2, <1>3
<1>10. atoi(Sent(m)) = atoi(m)
  BY <1>8, <1>9 DEF atoi, n, l
<1>11. LeadingDigits(Sent(m)) < Len(Sent(m))
  BY <1>2, <1>3, <1>8 DEF l
<1>12. QED BY <1>10, <1>11 DEF Found

-----------------------------------------------------------------------------
(***************************************************************************)
(* The streams.  A word is shorter than buf, so a read that starts at its  *)
(* beginning and finds nothing behind it takes the whole of it with its    *)
(* NUL.  A client that waits for its answer has no other word under way.   *)
(***************************************************************************)
\* A client whose user waits for the answer has one word under way, or none.
OneWord(c) ==
  /\ rest[c] = <<>>
  /\ \/ stream[c] = <<>> /\ owed[c] = <<>>
     \/ \E m \in Words[c] : stream[c] = Sent(m) /\ owed[c] = <<m>>

StreamInv ==
  /\ owed \in [Clients -> Seq(Messages)]
  /\ \A c \in Pacers : OneWord(c)

\* NULs can be counted.
LEMMA CountTerminators ==
  ASSUME NEW b \in Seq(Byte)
  PROVE  Terminators(b) \in Nat
<1> DEFINE Nuls == {j \in 1 .. Len(b) : b[j] = NUL}
<1>1. Len(b) \in Int /\ 1 \in Int
  BY LenProperties
<1>2. IsFiniteSet(1 .. Len(b)) /\ Nuls \in SUBSET (1 .. Len(b))
  BY <1>1, FS_Interval
<1>3. IsFiniteSet(Nuls)
  BY <1>2, FS_Subset
<1>4. QED BY <1>3, FS_CardinalityType DEF Terminators

\* A word that was sent has one NUL.
LEMMA OneTerminator ==
  ASSUME NEW m \in Seq(Byte \ {NUL})
  PROVE  Terminators(Sent(m)) = 1
<1>1. m \in Seq(Byte) /\ NUL \in Byte
  BY SeqMonotonic DEF Byte
<1>2. /\ Len(m) \in Nat /\ Len(Sent(m)) = Len(m) + 1
      /\ \A j \in 1 .. Len(m) : Sent(m)[j] = m[j]
      /\ Sent(m)[Len(m) + 1] = NUL
  BY <1>1, AppendProperties, LenProperties DEF Sent
<1>3. \A j \in 1 .. Len(m) : m[j] # NUL
  BY ElementOfSeq
<1>4. {j \in 1 .. Len(Sent(m)) : Sent(m)[j] = NUL} = {Len(m) + 1}
  <2>1. ASSUME NEW j \in 1 .. Len(m) + 1 PROVE Sent(m)[j] = NUL <=> j = Len(m) + 1
    BY <1>2, <1>3
  <2> QED BY <1>2, <2>1
<1>5. QED BY <1>4, FS_Singleton DEF Terminators

\* A read takes bytes off the front of a stream.
LEMMA TakenFits ==
  ASSUME NEW c, stream[c] \in Seq(Byte)
  PROVE  /\ Taken(c) \in 0 .. Len(stream[c])
         /\ SubSeq(stream[c], 1, Taken(c)) \in Seq(Byte)
         /\ SubSeq(stream[c], Taken(c) + 1, Len(stream[c])) \in Seq(Byte)
<1>1. Len(stream[c]) \in Nat /\ MAX_LEN_BUF \in Nat
  BY LenProperties, SizesAssumption
<1>2. Taken(c) \in 0 .. Len(stream[c])
  BY <1>1 DEF Taken
<1>3. QED BY <1>2, PartsOfSeq

\* A word that is alone in a stream is taken by one read, and all of it.
LEMMA WordIsRead ==
  ASSUME NEW c, NEW m \in Messages, stream[c] = Sent(m)
  PROVE  /\ SubSeq(stream[c], 1, Taken(c)) = Sent(m)
         /\ SubSeq(stream[c], Taken(c) + 1, Len(stream[c])) = <<>>
<1>1. m \in Seq(Byte \ {NUL}) /\ Len(m) < MAX_LEN_BUF
  BY MessagesAssumption
<1>2. m \in Seq(Byte) /\ NUL \in Byte
  BY <1>1, SeqMonotonic DEF Byte
<1>3. Sent(m) \in Seq(Byte) /\ Len(Sent(m)) = Len(m) + 1 /\ Len(m) \in Nat
  BY <1>2, AppendProperties, LenProperties DEF Sent
<1>4. Taken(c) = Len(Sent(m))
  BY <1>1, <1>3, SizesAssumption DEF Taken
<1>5. SubSeq(stream[c], 1, Taken(c)) = Sent(m)
  BY <1>3, <1>4, SubSeqFull
<1>6. SubSeq(stream[c], Taken(c) + 1, Len(stream[c])) = <<>>
  <2>1. Taken(c) + 1 \in Int /\ Len(stream[c]) \in Int /\ Len(stream[c]) < Taken(c) + 1
    BY <1>3, <1>4
  <2> QED BY <2>1, SubSeqEmpty
<1>7. QED BY <1>5, <1>6

\* Whom an Answer step reads from, and what becomes of the words owed to it.
LEMMA AnswerOfClient ==
  ASSUME SlotInv, BlockInv, Answer
  PROVE  \E c \in Clients :
           LET buf == SubSeq(stream[c], 1, Taken(c))
           IN  /\ c = Peer(i) /\ i \in Occupied /\ stream[c] # <<>>
               /\ stream' = [stream EXCEPT ![c] =
                               SubSeq(stream[c], Taken(c) + 1, Len(stream[c]))]
               /\ owed' = [owed EXCEPT ![c] =
                             SubSeq(owed[c], Terminators(buf) + 1, Len(owed[c]))]
               /\ \E n \in Found(buf) : printed' = [slot |-> i, number |-> n]
<1>1. i \in Slots /\ arr_sock[i] # 0
  BY SizesAssumption DEF Answer, Scanning, HasNews, Slots, SlotInv, SlotTypes
<1>2. Peer(i) \in Clients /\ arr_sock[i] \in ConnFds
  BY <1>1, PeersOfSlots
<1>3. i \in Occupied
  <2>1. SlotTypes
    BY DEF SlotInv
  <2> QED BY <1>1, <2>1, OccupiedSlots
<1>4. QED BY <1>2, <1>3 DEF Answer

\* A read of a stream that holds the oldest word of its client and no other
\* takes it whole and answers it.
LEMMA LoneRead ==
  ASSUME SlotInv, BlockInv, Answer, owed \in [Clients -> Seq(Messages)],
         NEW c \in Clients, c = Peer(i),
         owed[c] # <<>>, stream[c] = Sent(Head(owed[c]))
  PROVE  AnswersFirst(c) /\ stream'[c] = <<>> /\ owed'[c] = Tail(owed[c])
<1> DEFINE buf == SubSeq(stream[c], 1, Taken(c))
           m == Head(owed[c])
           words == owed[c]
<1>1. /\ i \in Occupied
      /\ stream' = [stream EXCEPT ![c] = SubSeq(stream[c], Taken(c) + 1, Len(stream[c]))]
      /\ owed' = [owed EXCEPT ![c] = SubSeq(owed[c], Terminators(buf) + 1, Len(owed[c]))]
      /\ \E n \in Found(buf) : printed' = [slot |-> i, number |-> n]
  BY AnswerOfClient
<1>2. words \in Seq(Messages) /\ words # <<>> /\ Len(words) \in Nat \ {0}
  <2>1. words \in Seq(Messages) /\ words # <<>>
    OBVIOUS
  <2> QED BY <2>1, LenProperties, EmptySeq
<1>3. m \in Messages /\ m \in Seq(Byte \ {NUL})
  BY <1>2, HeadTailProperties, MessagesAssumption
<1>4. buf = Sent(m) /\ SubSeq(stream[c], Taken(c) + 1, Len(stream[c])) = <<>>
  BY <1>3, WordIsRead
<1>5. Terminators(buf) = 1 /\ Found(buf) = {atoi(m)}
  BY <1>3, <1>4, OneTerminator, AtoiOfSent
<1> HIDE DEF buf, m, words
<1>6. printed' = [slot |-> i, number |-> atoi(m)]
  BY <1>1, <1>5
<1>7. stream'[c] = <<>>
  BY <1>1, <1>4 DEF BlockInv
<1>8. owed'[c] = SubSeq(words, 2, Len(words))
  BY <1>1, <1>5 DEF words
<1>9. Tail(words) = SubSeq(words, 2, Len(words)) /\ Len(Tail(words)) = Len(words) - 1
  BY <1>2, HeadTailProperties
<1>10. printed'.number = atoi(m) /\ printed'.slot = i
  BY <1>6
<1>11. AnswersFirst(c)
  BY <1>1, <1>8, <1>9, <1>10 DEF AnswersFirst, m, words
<1>12. QED BY <1>7, <1>8, <1>9, <1>11 DEF words

\* A read takes the words off the front of what is owed.
LEMMA AnswerKeepsStreams ==
  ASSUME SlotInv, BlockInv, StreamInv, Answer
  PROVE  StreamInv'
<1>1. PICK c \in Clients :
        /\ c = Peer(i) /\ stream[c] # <<>>
        /\ stream' = [stream EXCEPT ![c] =
                        SubSeq(stream[c], Taken(c) + 1, Len(stream[c]))]
        /\ owed' = [owed EXCEPT ![c] =
                      SubSeq(owed[c], Terminators(SubSeq(stream[c], 1, Taken(c))) + 1,
                             Len(owed[c]))]
  BY AnswerOfClient
<1> DEFINE n == Terminators(SubSeq(stream[c], 1, Taken(c)))
           left == SubSeq(owed[c], n + 1, Len(owed[c]))
<1>2. stream[c] \in Seq(Byte) /\ owed[c] \in Seq(Messages) /\ Len(owed[c]) \in Nat
  <2>1. stream[c] \in Seq(Byte) /\ owed[c] \in Seq(Messages)
    BY DEF BlockInv, StreamInv
  <2> QED BY <2>1, LenProperties
<1>3. n \in Nat
  BY <1>2, TakenFits, CountTerminators
<1>4. left \in Seq(Messages)
  <2> HIDE DEF n
  <2>1. \A j \in n + 1 .. Len(owed[c]) : owed[c][j] \in Messages
    BY <1>2, <1>3, ElementOfSeq
  <2> QED BY <1>2, <1>3, <2>1, SubSeqProperties
<1> HIDE DEF n, left
<1>5. owed' = [owed EXCEPT ![c] = left]
  BY <1>1 DEF n, left
<1>6. owed' \in [Clients -> Seq(Messages)]
  BY <1>4, <1>5 DEF StreamInv
<1>7. rest' = rest /\ \A d \in Clients \ {c} : stream'[d] = stream[d] /\ owed'[d] = owed[d]
  BY <1>1 DEF Answer, BlockInv, StreamInv
<1>8. c \in Pacers => stream'[c] = <<>> /\ owed'[c] = <<>>
  <2> SUFFICES ASSUME c \in Pacers PROVE stream'[c] = <<>> /\ owed'[c] = <<>>
    OBVIOUS
  <2>1. PICK m \in Words[c] : stream[c] = Sent(m) /\ owed[c] = <<m>>
    BY <1>1 DEF StreamInv, OneWord
  <2>2. owed[c] # <<>> /\ Head(owed[c]) = m /\ Tail(owed[c]) = <<>>
    BY <2>1
  <2>3. owed \in [Clients -> Seq(Messages)]
    BY DEF StreamInv
  <2>4. stream'[c] = <<>> /\ owed'[c] = Tail(owed[c])
    BY <1>1, <2>1, <2>2, <2>3, LoneRead
  <2> QED BY <2>2, <2>4
<1>9. ASSUME NEW d \in Pacers PROVE OneWord(d)'
  <2>1. d \in Clients /\ OneWord(d)
    BY ClientsAssumption DEF StreamInv
  <2> QED BY <1>7, <1>8, <2>1 DEF OneWord
<1>10. QED BY <1>6, <1>9 DEF StreamInv

\* A word is put behind those that wait, and alone if its user waits.
LEMMA SendKeepsStreams ==
  ASSUME SlotInv, BlockInv, StreamInv, NEW c \in Clients, NEW m \in Words[c], Send(c, m)
  PROVE  StreamInv'
<1> DEFINE owes == Append(owed[c], m)
<1>1. stream[c] \in Seq(Byte) /\ owed[c] \in Seq(Messages) /\ m \in Messages
  BY DEF BlockInv, StreamInv, Messages
<1>2. owes \in Seq(Messages)
  BY <1>1, AppendProperties
<1>3. owed' = [owed EXCEPT ![c] = owes]
  BY DEF Send
<1>4. \A d \in Clients \ {c} :
        stream'[d] = stream[d] /\ rest'[d] = rest[d] /\ owed'[d] = owed[d]
  BY DEF Send, BlockInv, StreamInv
<1>5. c \in Pacers => OneWord(c)'
  <2> SUFFICES ASSUME c \in Pacers PROVE OneWord(c)'
    OBVIOUS
  <2>1. stream[c] = <<>> /\ rest[c] = <<>> /\ c \notin Cut /\ Sent(m) \in Seq(Byte)
    BY SentIsBytes, ClientsAssumption DEF Send, StreamInv, OneWord
  <2>2. ~(\E w \in Words[c] : stream[c] = Sent(w))
    BY <2>1, SentIsBytes
  <2>3. owed[c] = <<>>
    BY <2>2 DEF StreamInv, OneWord
  <2>4. rest' = rest /\ stream'[c] = stream[c] \o Sent(m)
    BY <2>1 DEF Send, BlockInv
  <2>5. stream'[c] = Sent(m)
    BY <2>1, <2>4, ConcatEmptySeq
  <2>6. owed'[c] = <<m>>
    BY <1>3, <2>3 DEF StreamInv
  <2> QED BY <2>1, <2>4, <2>5, <2>6 DEF OneWord
<1> HIDE DEF owes
<1>6. owed' \in [Clients -> Seq(Messages)]
  BY <1>2, <1>3 DEF StreamInv
<1>7. ASSUME NEW d \in Pacers PROVE OneWord(d)'
  <2>1. d \in Clients /\ OneWord(d)
    BY ClientsAssumption DEF StreamInv
  <2> QED BY <1>4, <1>5, <2>1 DEF OneWord
<1>8. QED BY <1>6, <1>7 DEF StreamInv

\* Pieces arrive of words nobody waits for.
LEMMA DeliverKeepsStreams ==
  ASSUME SlotInv, BlockInv, StreamInv, NEW c \in Clients, Deliver(c)
  PROVE  StreamInv'
<1>1. rest[c] # <<>>
  <2>1. PICK k \in 1 .. Len(rest[c]) : TRUE
    BY DEF Deliver
  <2> QED BY <2>1
<1>2. c \notin Pacers
  BY <1>1 DEF StreamInv, OneWord
<1>3. owed' = owed
        /\ \A d \in Clients \ {c} : stream'[d] = stream[d] /\ rest'[d] = rest[d]
  BY DEF Deliver, BlockInv
<1>4. ASSUME NEW d \in Pacers PROVE OneWord(d)'
  <2>1. d \in Clients \ {c} /\ OneWord(d)
    BY <1>2, ClientsAssumption DEF StreamInv
  <2> QED BY <1>3, <2>1 DEF OneWord
<1>5. QED BY <1>3, <1>4 DEF StreamInv

\* When a client ends, a word that did not arrive whole is not owed.
LEMMA QuitKeepsStreams ==
  ASSUME SlotInv, BlockInv, StreamInv, NEW c \in Clients, Quit(c)
  PROVE  StreamInv'
<1>1. owed[c] \in Seq(Messages) /\ Len(owed[c]) \in Nat
  <2>1. owed[c] \in Seq(Messages)
    BY DEF StreamInv
  <2> QED BY <2>1, LenProperties
<1>2. Arrived(c) \in Seq(Messages)
  <2>1. CASE rest[c] = <<>>
    BY <1>1, <2>1 DEF Arrived
  <2>2. CASE rest[c] # <<>>
    <3>1. Len(owed[c]) - 1 \in Int /\ 1 \in Int
          /\ \A j \in 1 .. Len(owed[c]) - 1 : owed[c][j] \in Messages
      BY <1>1, ElementOfSeq
    <3>2. SubSeq(owed[c], 1, Len(owed[c]) - 1) \in Seq(Messages)
      BY <3>1, SubSeqProperties
    <3> QED BY <2>2, <3>2 DEF Arrived
  <2> QED BY <2>1, <2>2
<1>3. /\ owed' = [owed EXCEPT ![c] = Arrived(c)]
      /\ rest' = [rest EXCEPT ![c] = <<>>]
      /\ stream' = stream
  BY DEF Quit
<1>4. owed' \in [Clients -> Seq(Messages)]
  BY <1>2, <1>3 DEF StreamInv
<1>5. ASSUME NEW d \in Pacers PROVE OneWord(d)'
  <2>1. d \in Clients /\ OneWord(d) /\ rest[d] = <<>>
    BY ClientsAssumption DEF StreamInv, OneWord
  <2>2. rest'[d] = <<>> /\ owed'[d] = owed[d]
    BY <1>3, <2>1 DEF BlockInv, StreamInv, Arrived
  <2> QED BY <1>3, <2>1, <2>2 DEF OneWord
<1>6. QED BY <1>4, <1>5 DEF StreamInv

\* A connection that ends, for one client or for all, leaves an empty stream.
LEMMA EmptiedStreams ==
  ASSUME StreamInv, NEW D \in SUBSET Clients,
         stream' = [c \in Clients |-> IF c \in D THEN <<>> ELSE stream[c]],
         rest' = [c \in Clients |-> IF c \in D THEN <<>> ELSE rest[c]],
         owed' = [c \in Clients |-> IF c \in D THEN <<>> ELSE owed[c]]
  PROVE  StreamInv'
<1>1. <<>> \in Seq(Messages)
  OBVIOUS
<1>2. owed' \in [Clients -> Seq(Messages)]
  BY <1>1 DEF StreamInv
<1>3. \A c \in Pacers : OneWord(c)'
  BY ClientsAssumption DEF StreamInv, OneWord
<1>4. QED BY <1>2, <1>3 DEF StreamInv

\* A client that waits for its answers has one word under way at most, in one
\* piece, whatever the others' words are cut into.
THEOREM StreamInvCorrect == Spec => []StreamInv
<1>1. Init => StreamInv
  <2> SUFFICES ASSUME Init PROVE StreamInv
    OBVIOUS
  <2>1. \A c \in Clients : stream[c] = <<>> /\ rest[c] = <<>> /\ owed[c] = <<>>
    BY DEF Init
  <2>2. <<>> \in Seq(Messages)
    OBVIOUS
  <2>3. owed \in [Clients -> Seq(Messages)]
    BY <2>2 DEF Init
  <2> QED BY <2>1, <2>3, ClientsAssumption DEF StreamInv, OneWord
<1>2. SlotInv /\ BlockInv /\ StreamInv /\ [Next]_vars => StreamInv'
  <2> SUFFICES ASSUME SlotInv, BlockInv, StreamInv, [Next]_vars PROVE StreamInv'
    OBVIOUS
  <2>1. ASSUME UNCHANGED <<stream, rest, owed>> PROVE StreamInv'
    BY <2>1 DEF StreamInv, OneWord
  <2>2. CASE BindFails \/ ListenFails \/ AcceptFails \/ SelectFails
    <3>1. /\ stream' = [c \in Clients |-> IF c \in Clients THEN <<>> ELSE stream[c]]
          /\ rest' = [c \in Clients |-> IF c \in Clients THEN <<>> ELSE rest[c]]
          /\ owed' = [c \in Clients |-> IF c \in Clients THEN <<>> ELSE owed[c]]
      BY <2>2 DEF BindFails, ListenFails, AcceptFails, SelectFails, Exit
    <3> QED BY <3>1, EmptiedStreams
  <2>3. CASE Answer
    BY <2>3, AnswerKeepsStreams
  <2>4. CASE Socket \/ Bind \/ Listen \/ Select \/ Accept \/ NoNewConnection \/ Skip
             \/ EndScan \/ Hangup \/ RecvFails
    BY <2>1, <2>4 DEF Socket, Bind, Listen, Select, Accept, NoNewConnection, Skip,
       EndScan, Hangup, RecvFails, peers
  <2>5. ASSUME NEW c \in Clients, Client(c) PROVE StreamInv'
    <3>1. CASE Connect(c)
      BY <2>1, <3>1 DEF Connect
    <3>2. CASE Abort(c)
      <4>1. /\ stream' = [d \in Clients |-> IF d \in {c} THEN <<>> ELSE stream[d]]
            /\ rest' = [d \in Clients |-> IF d \in {c} THEN <<>> ELSE rest[d]]
            /\ owed' = [d \in Clients |-> IF d \in {c} THEN <<>> ELSE owed[d]]
        BY <3>2 DEF Abort, BlockInv, StreamInv
      <4> QED BY <4>1, EmptiedStreams
    <3>3. ASSUME NEW m \in Words[c], Send(c, m) PROVE StreamInv'
      BY <3>3, SendKeepsStreams
    <3>4. CASE Deliver(c)
      BY <3>4, DeliverKeepsStreams
    <3>5. CASE Quit(c)
      BY <3>5, QuitKeepsStreams
    <3> QED BY <2>5, <3>1, <3>2, <3>3, <3>4, <3>5 DEF Client
  <2>6. CASE Done \/ UNCHANGED vars
    BY <2>1, <2>6 DEF Done, vars, peers
  <2> QED BY <2>2, <2>3, <2>4, <2>5, <2>6 DEF Next, Server
<1>3. QED BY <1>1, <1>2, SlotsCorrect, BlockInvCorrect, PTL DEF Spec

\* A step that ends no connection of client c and not the server, and takes
\* words of c off what is owed or bytes off its stream, is a read of c's slot.
LEMMA OnlyAnswersRead ==
  ASSUME SlotInv, BlockInv, StreamInv, [Next]_vars, NEW c \in Clients,
         cstate'[c] = cstate[c], spc' # "exited",
         Len(owed'[c]) < Len(owed[c]) \/ Len(stream'[c]) < Len(stream[c])
  PROVE  Answer /\ c = Peer(i) /\ stream[c] # <<>>
<1> DEFINE Shorter == Len(owed'[c]) < Len(owed[c]) \/ Len(stream'[c]) < Len(stream[c])
<1>1. /\ owed[c] \in Seq(Messages) /\ Len(owed[c]) \in Nat
      /\ stream[c] \in Seq(Byte) /\ Len(stream[c]) \in Nat
  <2>1. owed[c] \in Seq(Messages) /\ stream[c] \in Seq(Byte)
    BY DEF BlockInv, StreamInv
  <2> QED BY <2>1, LenProperties
<1>2. ~(owed'[c] = owed[c] /\ stream'[c] = stream[c])
  BY <1>1
<1>3. CASE BindFails \/ ListenFails \/ AcceptFails \/ SelectFails
  BY <1>3 DEF BindFails, ListenFails, AcceptFails, SelectFails, Exit
<1>4. CASE Socket \/ Bind \/ Listen \/ Select \/ Accept \/ NoNewConnection \/ Skip
           \/ EndScan \/ Hangup \/ RecvFails
  BY <1>2, <1>4 DEF Socket, Bind, Listen, Select, Accept, NoNewConnection, Skip,
     EndScan, Hangup, RecvFails, peers
<1>5. CASE Answer
  <2>1. PICK d \in Clients :
          /\ d = Peer(i) /\ stream[d] # <<>>
          /\ stream' = [stream EXCEPT ![d] =
                          SubSeq(stream[d], Taken(d) + 1, Len(stream[d]))]
          /\ owed' = [owed EXCEPT ![d] =
                        SubSeq(owed[d], Terminators(SubSeq(stream[d], 1, Taken(d))) + 1,
                               Len(owed[d]))]
    BY <1>5, AnswerOfClient
  <2>2. c = d
    BY <1>2, <2>1 DEF BlockInv, StreamInv
  <2> QED BY <1>5, <2>1, <2>2
<1>6. ASSUME NEW d \in Clients, Client(d) PROVE FALSE
  <2>1. CASE Connect(d)
    BY <1>2, <2>1 DEF Connect
  <2>2. CASE Abort(d) \/ Quit(d)
    <3>1. d # c
      BY <2>2 DEF Abort, Quit, SlotInv, SlotTypes
    <3> QED BY <1>2, <2>2, <3>1 DEF Abort, Quit, BlockInv, StreamInv
  <2>3. ASSUME NEW m \in Words[d], Send(d, m) PROVE FALSE
    <3>1. d = c
      BY <1>2, <2>3 DEF Send, BlockInv, StreamInv
    <3>2. owed'[c] = Append(owed[c], m) /\ m \in Messages
      BY <2>3, <3>1 DEF Send, StreamInv, Messages
    <3>3. Len(owed'[c]) = Len(owed[c]) + 1
      BY <1>1, <3>2, AppendProperties
    <3>4. stream'[c] = stream[c] \/ stream'[c] = stream[c] \o Sent(m)
      BY <2>3, <3>1 DEF Send, BlockInv
    <3>5. Len(stream[c] \o Sent(m)) = Len(stream[c]) + Len(Sent(m)) /\ Len(Sent(m)) \in Nat
      BY <1>1, <3>1, SentIsBytes, ConcatProperties, LenProperties
    <3> QED BY <1>1, <3>3, <3>4, <3>5
  <2>4. CASE Deliver(d)
    <3>1. d = c /\ owed' = owed
      BY <1>2, <2>4 DEF Deliver, BlockInv
    <3>2. PICK k \in 1 .. Len(rest[c]) : stream'[c] = stream[c] \o SubSeq(rest[c], 1, k)
      BY <2>4, <3>1 DEF Deliver, BlockInv
    <3>3. rest[c] \in Seq(Byte) /\ k \in 0 .. Len(rest[c]) /\ k \in Nat
      <4>1. rest[c] \in Seq(Byte)
        BY DEF BlockInv
      <4> QED BY <4>1, LenProperties
    <3>4. SubSeq(rest[c], 1, k) \in Seq(Byte) /\ Len(SubSeq(rest[c], 1, k)) = k
      BY <3>3, PartsOfSeq
    <3>5. Len(stream'[c]) = Len(stream[c]) + k
      BY <1>1, <3>2, <3>4, ConcatProperties
    <3> QED BY <1>1, <3>1, <3>3, <3>5
  <2> QED BY <1>6, <2>1, <2>2, <2>3, <2>4 DEF Client
<1>7. CASE Done \/ UNCHANGED vars
  BY <1>2, <1>7 DEF Done, vars, peers
<1>8. QED BY <1>3, <1>4, <1>5, <1>6, <1>7 DEF Next, Server

\* A client that waits for the answer to each word gets it: its oldest word is
\* read whole and alone, and the line printed has the number the word spells
\* and the slot of the client (netserver.c:153-176).
THEOREM PacedWordsAnsweredCorrect == Spec => PacedWordsAnswered
<1>1. SlotInv /\ BlockInv /\ StreamInv /\ [Next]_vars => \A c \in Pacers : Answers(c)
  <2> SUFFICES ASSUME SlotInv, BlockInv, StreamInv, [Next]_vars, NEW c \in Pacers,
                      Len(owed'[c]) < Len(owed[c]), cstate'[c] = cstate[c], spc' # "exited"
               PROVE  AnswersFirst(c)
    BY DEF Answers, ReadsWord
  <2>1. c \in Clients
    BY ClientsAssumption
  <2>2. Answer /\ c = Peer(i) /\ stream[c] # <<>>
    BY <2>1, OnlyAnswersRead
  <2>3. PICK m \in Words[c] : stream[c] = Sent(m) /\ owed[c] = <<m>>
    BY <2>2 DEF StreamInv, OneWord
  <2>4. owed[c] # <<>> /\ Head(owed[c]) = m
    BY <2>3
  <2>5. owed \in [Clients -> Seq(Messages)]
    BY DEF StreamInv
  <2> QED BY <2>1, <2>2, <2>3, <2>4, <2>5, LoneRead
<1>2. QED BY <1>1, SlotsCorrect, BlockInvCorrect, StreamInvCorrect, PTL
      DEF Spec, PacedWordsAnswered

\* However a client's earlier words were joined and cut, a word that is alone
\* in its stream when the server reads is answered for what it is and for
\* whom it came from (netserver.c:153-176).
THEOREM LoneWordAnsweredCorrect == Spec => LoneWordAnswered
<1>1. SlotInv /\ BlockInv /\ StreamInv /\ [Next]_vars =>
        \A c \in Clients :
          /\ owed[c] # <<>> /\ stream[c] = Sent(Head(owed[c]))
          /\ Len(stream'[c]) < Len(stream[c]) /\ cstate'[c] = cstate[c] /\ spc' # "exited"
          => AnswersFirst(c) /\ stream'[c] = <<>>
  <2> SUFFICES ASSUME SlotInv, BlockInv, StreamInv, [Next]_vars, NEW c \in Clients,
                      owed[c] # <<>>, stream[c] = Sent(Head(owed[c])),
                      Len(stream'[c]) < Len(stream[c]), cstate'[c] = cstate[c],
                      spc' # "exited"
               PROVE  AnswersFirst(c) /\ stream'[c] = <<>>
    OBVIOUS
  <2>1. Answer /\ c = Peer(i)
    BY OnlyAnswersRead
  <2>2. owed \in [Clients -> Seq(Messages)]
    BY DEF StreamInv
  <2> QED BY <2>1, <2>2, LoneRead
<1>2. QED BY <1>1, SlotsCorrect, BlockInvCorrect, StreamInvCorrect, PTL
      DEF Spec, LoneWordAnswered

-----------------------------------------------------------------------------
(***************************************************************************)
(* Types.  The number of a result line is one whatever bytes it was read   *)
(* from, so also where a read starts in the middle of a word.              *)
(***************************************************************************)
ProgramTypes ==
  /\ spc \in {"socket", "bind", "listen", "select", "accept", "scan", "exited"}
  /\ rc \in {OK, ERROR_BIND_SOCKET, ERROR_LISTEN_SOCKET,
            ERROR_SELECT_SOCKET, ERROR_ACCEPT_SOCKET}
  /\ sock \in {Listener, -1}
  /\ set \subseteq ConnFds \cup {Listener}
  /\ i \in 0 .. MAX_COUNT_SOCK
  /\ printed \in [slot : Slots \cup {-1}, number : Nat]

LEMMA NumbersAreNat == Numbers \subseteq Nat
<1>1. \A m \in Messages : m \in Seq(Byte)
  BY MessagesAssumption, SeqMonotonic
<1>2. \A m \in Messages : atoi(m) \in Nat
  BY <1>1, AtoiIsNat
<1>3. QED BY <1>2 DEF Numbers

LEMMA NoLineType == NoLine \in [slot : Slots \cup {-1}, number : Nat]
  BY DEF NoLine

\* A line is printed for a slot of the scan.
LEMMA LinesAreTyped ==
  ASSUME SlotInv, BlockInv, StreamInv, Answer \/ RecvFails
  PROVE  printed' \in [slot : Slots \cup {-1}, number : Nat]
<1>1. i \in Slots
  BY SizesAssumption DEF Answer, RecvFails, Scanning, Slots, SlotInv, SlotTypes
<1>2. CASE Answer
  <2>1. PICK c \in Clients :
          LET buf == SubSeq(stream[c], 1, Taken(c))
          IN  \E n \in Found(buf) : printed' = [slot |-> i, number |-> n]
    BY <1>2, AnswerOfClient
  <2>2. stream[c] \in Seq(Byte)
    BY DEF BlockInv
  <2>3. atoi(SubSeq(stream[c], 1, Taken(c))) \in Nat
    BY <2>2, TakenFits, AtoiIsNat
  <2>4. Found(SubSeq(stream[c], 1, Taken(c))) \subseteq Nat
    BY <2>3, NumbersAreNat DEF Found
  <2>5. \E n \in Nat : printed' = [slot |-> i, number |-> n]
    BY <2>1, <2>4
  <2> QED BY <1>1, <2>5
<1>3. CASE RecvFails
  <2>1. \E n \in Nat : printed' = [slot |-> i, number |-> n]
    BY <1>3, NumbersAreNat DEF RecvFails
  <2> QED BY <1>1, <2>1
<1>4. QED BY <1>2, <1>3

\* What the server prints and keeps of a scan has its type: atoi() makes a
\* number of whatever was read (netserver.c:168-175).
THEOREM ProgramTypesCorrect == Spec => []ProgramTypes
<1> USE SizesAssumption
<1>1. Init => ProgramTypes
  BY NoLineType DEF Init, ProgramTypes
<1>2. SlotInv /\ BlockInv /\ StreamInv /\ ProgramTypes /\ [Next]_vars => ProgramTypes'
  <2> SUFFICES ASSUME SlotInv, BlockInv, StreamInv, ProgramTypes, [Next]_vars
               PROVE  ProgramTypes'
    OBVIOUS
  <2> USE DEF ProgramTypes
  <2>1. CASE BindFails \/ ListenFails \/ AcceptFails \/ SelectFails
    BY <2>1 DEF BindFails, ListenFails, AcceptFails, SelectFails, Exit
  <2>2. CASE Socket \/ Bind \/ Listen
    BY <2>2 DEF Socket, Bind, Listen
  <2>3. CASE Select
    <3>1. Watched \subseteq ConnFds \cup {Listener}
      <4>1. sock = Listener /\ \A s \in Occupied : arr_sock[s] \in ConnFds
        BY <2>3, PeersOfSlots DEF Select, BlockInv, Occupied
      <4> QED BY <4>1 DEF Watched
    <3> QED BY <2>3, <3>1 DEF Select
  <2>4. CASE Accept \/ NoNewConnection
    BY <2>4 DEF Accept, NoNewConnection
  <2>5. CASE Skip
    BY <2>5 DEF Skip, Scanning, NextSlot
  <2>6. CASE EndScan
    BY <2>6, NoLineType DEF EndScan
  <2>7. CASE Hangup
    BY <2>7 DEF Hangup, Scanning, NextSlot
  <2>8. CASE Answer \/ RecvFails
    <3>1. printed' \in [slot : Slots \cup {-1}, number : Nat]
      BY <2>8, LinesAreTyped
    <3>2. i' \in 0 .. MAX_COUNT_SOCK
      BY <2>8 DEF Answer, RecvFails, Scanning, NextSlot
    <3>3. UNCHANGED <<spc, rc, sock, set>>
      BY <2>8 DEF Answer, RecvFails
    <3> QED BY <3>1, <3>2, <3>3
  <2>9. CASE (\E c \in Clients : Client(c)) \/ Done \/ UNCHANGED vars
    <3>1. UNCHANGED <<spc, rc, sock, set, i, printed>>
      BY <2>9 DEF Client, Connect, Deliver, Quit, Abort, Send, Done, vars, program
    <3> QED BY <3>1
  <2> QED BY <2>1, <2>2, <2>3, <2>4, <2>5, <2>6, <2>7, <2>8, <2>9 DEF Next, Server
<1>3. QED BY <1>1, <1>2, SlotsCorrect, BlockInvCorrect, StreamInvCorrect, PTL DEF Spec

\* Every variable keeps its type, the numbers of result lines included.
THEOREM TypeCorrect == Spec => []TypeOK
<1>1. SlotInv /\ BlockInv /\ StreamInv /\ ProgramTypes => TypeOK
  BY DEF SlotInv, SlotTypes, BlockInv, StreamInv, ProgramTypes, TypeOK
<1>2. QED BY <1>1, SlotsCorrect, BlockInvCorrect, StreamInvCorrect, ProgramTypesCorrect, PTL
=============================================================================
