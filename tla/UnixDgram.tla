----------------------------- MODULE UnixDgram -----------------------------
(***************************************************************************)
(* Messages over a datagram socket in the file system (lab 8, part 1):     *)
(* fsserver.c and fsclient.c, each started any number of times and killed  *)
(* at any step.  bind() makes the file socket.soc, close() leaves it       *)
(* behind, naming nobody, and unlink() removes whatever has that name.     *)
(***************************************************************************)
EXTENDS Naturals, Sequences

CONSTANTS Servers,    \* processes that run fsserver
          Clients,    \* processes that run fsclient
          Messages,   \* texts of CreateMessage(): each fits into MAX_MSG_LEN
          MaxQueue,   \* messages a socket holds before sendto() waits
          NoFile,     \* socket.soc does not exist
          Stale,      \* it exists, and its socket is closed
          NoMessage   \* nothing received yet

ASSUME NamesAssumption ==
  NoFile \notin Servers /\ Stale \notin Servers /\ NoFile # Stale
ASSUME QueueAssumption == MaxQueue \in Nat \ {0} /\ NoMessage \notin Messages

OK == 0
ERROR_CREATE_SOCKET == 1
ERROR_BIND_SOCKET == 2
ERROR_RECVFROM_SOCKET == 3
ERROR_SENDTO_SOCKET == 4
Killed == 128
NotEnded == 255

VARIABLES
  srv,       \* server -> the call it is about to make
  cli,       \* client -> the call it is about to make
  status,    \* process -> how it ended last
  sockFile,  \* the server whose socket socket.soc names, NoFile or Stale
  queue,     \* server -> messages in its socket
  namelen,   \* server -> has recvfrom() set namelen?
  buf        \* process -> its message buffer

dgramVars == <<srv, cli, status, sockFile, queue, namelen, buf>>

DgramInit ==
  /\ srv = [s \in Servers |-> "none"]
  /\ cli = [c \in Clients |-> "none"]
  /\ status = [p \in Servers \cup Clients |-> NotEnded]
  /\ sockFile = NoFile
  /\ queue = [s \in Servers |-> <<>>]
  /\ namelen = [s \in Servers |-> FALSE]
  /\ buf = [p \in Servers \cup Clients |-> NoMessage]

Ends(p, how) == status' = [status EXCEPT ![p] = how]

\* The last descriptor of the socket of s is gone.
CloseSocket(s) ==
  /\ sockFile' = IF sockFile = s THEN Stale ELSE sockFile
  /\ queue' = [queue EXCEPT ![s] = <<>>]

(***************************************************************************)
(* fsserver.c                                                              *)
(***************************************************************************)
\* main() up to bind(); namelen and buf of the new process are not set.
Socket(s) ==
  /\ srv[s] = "none"
  /\ srv' = [srv EXCEPT ![s] = "bind"]
  /\ Ends(s, NotEnded)
  /\ namelen' = [namelen EXCEPT ![s] = FALSE]
  /\ buf' = [buf EXCEPT ![s] = NoMessage]
  /\ UNCHANGED <<cli, sockFile, queue>>

SocketFails(s) ==
  /\ srv[s] = "none"
  /\ Ends(s, ERROR_CREATE_SOCKET)
  /\ UNCHANGED <<srv, cli, sockFile, queue, namelen, buf>>

Bind(s) ==
  /\ srv[s] = "bind" /\ sockFile = NoFile
  /\ sockFile' = s
  /\ srv' = [srv EXCEPT ![s] = "recvfrom"]
  /\ UNCHANGED <<cli, status, queue, namelen, buf>>

\* EADDRINUSE when the file exists, other errors at any time: main() returns
\* and the file, which may be another server's, stays.
ReturnUnbound_cleanup(s) ==
  srv' = [srv EXCEPT ![s] = "close"] /\ UNCHANGED <<status, sockFile, queue>>
ReturnUnbound(s) ==
  /\ srv' = [srv EXCEPT ![s] = "none"]
  /\ Ends(s, ERROR_BIND_SOCKET)
  /\ CloseSocket(s)

BindFails(s) ==
  /\ srv[s] = "bind"
  /\ ReturnUnbound(s)
  /\ UNCHANGED <<cli, namelen, buf>>

\* Clients have no name: their address has length 0, which namelen becomes.
Recvfrom(s) ==
  /\ srv[s] = "recvfrom" /\ queue[s] # <<>>
  /\ buf' = [buf EXCEPT ![s] = Head(queue[s])]
  /\ queue' = [queue EXCEPT ![s] = Tail(@)]
  /\ namelen' = [namelen EXCEPT ![s] = TRUE]
  /\ UNCHANGED <<srv, cli, status, sockFile>>

\* The first call reads namelen before anything has set it: if what it finds
\* is negative the call fails, and the message it took is lost.
RecvfromFails(s) ==
  /\ srv[s] = "recvfrom" /\ queue[s] # <<>> /\ ~namelen[s]
  /\ srv' = [srv EXCEPT ![s] = "close"]
  /\ buf' = [buf EXCEPT ![s] = Head(queue[s])]
  /\ queue' = [queue EXCEPT ![s] = Tail(@)]
  /\ UNCHANGED <<cli, status, sockFile, namelen>>

\* Cleanup(): close(), then unlink() by name.
CleanupClose(s) ==
  /\ srv[s] = "close"
  /\ srv' = [srv EXCEPT ![s] = "unlink"]
  /\ CloseSocket(s)
  /\ UNCHANGED <<cli, status, namelen, buf>>

CleanupUnlink(s) ==
  /\ srv[s] = "unlink"
  /\ sockFile' = NoFile
  /\ srv' = [srv EXCEPT ![s] = "none"]
  /\ Ends(s, ERROR_RECVFROM_SOCKET)
  /\ UNCHANGED <<cli, queue, namelen, buf>>

\* Ctrl-C or another signal, the only end of a server that meets no error.
KillServer(s) ==
  /\ srv[s] # "none"
  /\ srv' = [srv EXCEPT ![s] = "none"]
  /\ Ends(s, Killed)
  /\ CloseSocket(s)
  /\ UNCHANGED <<cli, namelen, buf>>

(***************************************************************************)
(* fsclient.c                                                              *)
(***************************************************************************)
CreateMessage(c) ==
  /\ cli[c] = "none"
  /\ \E m \in Messages : buf' = [buf EXCEPT ![c] = m]
  /\ \/ cli' = [cli EXCEPT ![c] = "sendto"] /\ Ends(c, NotEnded)
     \/ UNCHANGED cli /\ Ends(c, ERROR_CREATE_SOCKET)
  /\ UNCHANGED <<srv, sockFile, queue, namelen>>

\* sendto() waits while the queue is full.
Sendto(c) ==
  /\ cli[c] = "sendto" /\ sockFile \in Servers
  /\ Len(queue[sockFile]) < MaxQueue
  /\ queue' = [queue EXCEPT ![sockFile] = Append(@, buf[c])]
  /\ cli' = [cli EXCEPT ![c] = "close"]
  /\ UNCHANGED <<srv, status, sockFile, namelen, buf>>

\* ENOENT without the file, ECONNREFUSED when its socket is closed
SendtoFails(c) ==
  /\ cli[c] = "sendto" /\ sockFile \notin Servers
  /\ cli' = [cli EXCEPT ![c] = "none"]
  /\ Ends(c, ERROR_SENDTO_SOCKET)
  /\ UNCHANGED <<srv, sockFile, queue, namelen, buf>>

Close(c) ==
  /\ cli[c] = "close"
  /\ cli' = [cli EXCEPT ![c] = "none"]
  /\ Ends(c, OK)
  /\ UNCHANGED <<srv, sockFile, queue, namelen, buf>>

KillClient(c) ==
  /\ cli[c] # "none"
  /\ cli' = [cli EXCEPT ![c] = "none"]
  /\ Ends(c, Killed)
  /\ UNCHANGED <<srv, sockFile, queue, namelen, buf>>

\* After a bind() that failed the user removes what a killed server has left,
\* and knows better than to do so while a server runs.
RemoveFile ==
  /\ sockFile # NoFile /\ \A s \in Servers : srv[s] = "none"
  /\ sockFile' = NoFile
  /\ UNCHANGED <<srv, cli, status, queue, namelen, buf>>

Server(s) ==
  \/ Socket(s) \/ SocketFails(s) \/ Bind(s) \/ BindFails(s)
  \/ Recvfrom(s) \/ RecvfromFails(s)
  \/ CleanupClose(s) \/ CleanupUnlink(s) \/ KillServer(s)

Client(c) ==
  \/ CreateMessage(c) \/ Sendto(c) \/ SendtoFails(c)
  \/ Close(c) \/ KillClient(c)

DgramNext ==
  \/ \E s \in Servers : Server(s)
  \/ \E c \in Clients : Client(c)
  \/ RemoveFile

DgramSpec == DgramInit /\ [][DgramNext]_dgramVars
-----------------------------------------------------------------------------
(***************************************************************************)
(* Properties.                                                             *)
(***************************************************************************)
\* Every variable keeps the type its declaration gives it.
DgramTypeOK ==
  /\ srv \in [Servers -> {"none", "bind", "recvfrom", "close", "unlink"}]
  /\ cli \in [Clients -> {"none", "sendto", "close"}]
  /\ status \in [Servers \cup Clients -> 0 .. 255]
  /\ sockFile \in Servers \cup {NoFile, Stale}
  /\ queue \in [Servers -> Seq(Messages)]
  /\ namelen \in [Servers -> BOOLEAN]
  /\ buf \in [Servers \cup Clients -> Messages \cup {NoMessage}]

\* However many servers are started, killed or leave through an error
\* (fsserver.c:44-60), the one that waits in recvfrom() is the one socket.soc
\* leads to: no other's Cleanup() or failed bind() takes its name away, so a
\* client is never refused while a server waits.
NameLeadsToServer == \A s \in Servers : srv[s] = "recvfrom" => sockFile = s
=============================================================================
