------------------------------- MODULE Sockets -------------------------------
(***************************************************************************)
(* The kernel objects through which the server and the subscribers of the  *)
(* Client-Server-App talk: the listening TCP socket and its backlog, one   *)
(* TCP connection for each subscriber process, the UDP socket and the      *)
(* server's standard input.  Nothing here is code of the repository: it is *)
(* what src/server.c and src/subscriber.c rely on (Linux, one host), so    *)
(* every definition is external to src/.                                   *)
(*                                                                         *)
(* A subscriber process makes exactly one connection in its life           *)
(* (src/subscriber.c connect_to_server), hence a connection is named by    *)
(* the process that made it.  Bytes are abstracted to messages; what is    *)
(* sent has arrived.                                                       *)
(***************************************************************************)
EXTENDS Integers, Sequences, FiniteSets

CONSTANTS
  Procs,      \* the subscriber processes, one connection each
  NoProc,     \* the owner of a file descriptor that is not open
  Fds,        \* the file descriptors accept() can return
  Patterns,       \* the topics, with or without wildcards, a user can type
  EmptyPattern,   \* the topic "", which nobody can type
  StrayPatterns,  \* other topics nobody has typed, spelled by stray bytes
  NoPattern,      \* the topic field of a message that carries none
  Topics,     \* the topics of the UDP providers
  NoTopic,    \* the topic field of CLOSE_SRV_MSG
  UpCap,      \* messages a connection buffers towards the server
  DownCap     \* messages a connection buffers towards the subscriber

ASSUME SocketsAssumption ==
  /\ NoProc \notin Procs
  /\ Fds \subseteq Nat
  /\ NoPattern \notin Patterns \cup {EmptyPattern} \cup StrayPatterns
  /\ NoTopic \notin Topics
  /\ UpCap \in Nat \ {0}
  /\ DownCap \in Nat \ {0}

VARIABLES
  listening,  \* the server's listening socket is open
  backlog,    \* connections completed by the kernel and not accepted yet
  sock,       \* sock[fd]: the connection behind the server's descriptor fd
  up,         \* up[p]: what p sent and the server has not read
  down,       \* down[p]: what the server sent and p has not read
  srvSees,    \* srvSees[p]: how p's end of the connection looks to the server
  cliSees,    \* cliSees[p]: how the server's end of it looks to p
  udp,        \* datagrams waiting in the UDP socket, in arrival order
  console     \* the line waiting at the server's stdin, or "none"

sockVars == <<listening, backlog, sock, up, down, srvSees, cliSees, udp,
              console>>

-----------------------------------------------------------------------------
(* Messages.                                                               *)

(* What can be the topic of a message the server executes.                  *)
Storable == Patterns \cup {EmptyPattern} \cup StrayPatterns

(* What a subscriber sends: first its id, then sub_msg_t's.  OtherMsg is a  *)
(* sub_msg_t whose type is none of the three.  Only the topics of Patterns  *)
(* are sent; the others are what the server may read where no message is.   *)
IdMsg    == [type |-> "id",    topic |-> NoPattern]
CloseMsg == [type |-> "close", topic |-> NoPattern]
OtherMsg == [type |-> "other", topic |-> NoPattern]

UpMsg == {IdMsg, CloseMsg, OtherMsg} \cup
         [type : {"subscribe", "unsubscribe"}, topic : Storable]

(* What the server sends: datagrams, numbered in their order of arrival at *)
(* the UDP socket, and CLOSE_SRV_MSG.                                       *)
DownMsg == [n : Nat, topic : Topics \cup {NoTopic}]

CloseSrvMsg == [n |-> 0, topic |-> NoTopic]

(* How an end of a connection sees the other one:                           *)
(*   "open"    send() and recv() work, recv() blocks when nothing is queued *)
(*   "fin"     the peer has closed: recv() returns 0 once the queue is      *)
(*             empty, send() still succeeds                                 *)
(*   "finrst"  the peer has closed and answered a send() with a reset:      *)
(*             recv() returns 0, send() fails                               *)
(*   "rst"     the peer closed with unread data, or was closed in the       *)
(*             backlog: recv() returns -1 once the queue is empty, send()   *)
(*             fails                                                        *)
View == {"open", "fin", "finrst", "rst"}

Sendable(view) == view \in {"open", "fin"}

-----------------------------------------------------------------------------
(* System calls, as constraints on the variables they name.                *)

(* close() of one end, as the other end sees it: unread data turns the FIN  *)
(* into a reset.                                                           *)
ClosedWith(unread) == IF unread = <<>> THEN "fin" ELSE "rst"

(* send() of m on the server's end of p's connection; assigns down and      *)
(* srvSees.                                                                *)
SendDown(p, m) ==
  /\ Sendable(srvSees[p])
  /\ \/ /\ srvSees[p] = "open"
        /\ down' = [down EXCEPT ![p] = Append(@, m)]
        /\ UNCHANGED srvSees
     \/ /\ srvSees[p] = "fin"
        /\ \E view \in {"fin", "finrst"} : srvSees' = [srvSees EXCEPT ![p] = view]
        /\ UNCHANGED down

(* send() of m on p's end; assigns up and cliSees.                          *)
SendUp(p, m) ==
  /\ Sendable(cliSees[p])
  /\ \/ /\ cliSees[p] = "open"
        /\ up' = [up EXCEPT ![p] = Append(@, m)]
        /\ UNCHANGED cliSees
     \/ /\ cliSees[p] = "fin"
        /\ \E view \in {"fin", "finrst"} : cliSees' = [cliSees EXCEPT ![p] = view]
        /\ UNCHANGED up

(* A send() that finds the buffer full blocks until the reader makes room:  *)
(* the message that did not fit is the last of the queue, and its sender    *)
(* takes no step while the queue is longer than the buffer.  The send()     *)
(* fails if the reader goes away first.                                     *)
SrvSending == \E p \in Procs : Len(down[p]) > DownCap

SrvSendFails == \E p \in Procs : Len(down[p]) > DownCap /\ srvSees[p] = "rst"

CliSending(p) == Len(up[p]) > UpCap

CliSendFails(p) == Len(up[p]) > UpCap /\ cliSees[p] = "rst"

(* poll() reports POLLIN on fd.                                            *)
Readable(fd) == up[sock[fd]] # <<>> \/ srvSees[sock[fd]] # "open"

FreeFds == {fd \in Fds : sock[fd] = NoProc}

(* Connections of which the server's process or kernel holds an end.        *)
InBacklog(p) == \E n \in DOMAIN backlog : backlog[n] = p
Accepted(p)  == \E fd \in Fds : sock[fd] = p

(* The server's process ends: the kernel closes every socket it had.        *)
CloseEverything ==
  /\ listening' = FALSE
  /\ backlog' = <<>>
  /\ cliSees' = [p \in Procs |->
       IF cliSees[p] # "open" THEN cliSees[p]
       ELSE IF InBacklog(p) THEN "rst"
       ELSE IF Accepted(p) THEN ClosedWith(up[p])
       ELSE cliSees[p]]

-----------------------------------------------------------------------------
SocketsInit ==
  /\ listening = TRUE
  /\ backlog = <<>>
  /\ sock = [fd \in Fds |-> NoProc]
  /\ up = [p \in Procs |-> <<>>]
  /\ down = [p \in Procs |-> <<>>]
  /\ srvSees = [p \in Procs |-> "open"]
  /\ cliSees = [p \in Procs |-> "open"]
  /\ udp = <<>>
  /\ console = "none"

SocketsTypeOK ==
  /\ listening \in BOOLEAN
  /\ backlog \in Seq(Procs)
  /\ sock \in [Fds -> Procs \cup {NoProc}]
  /\ up \in [Procs -> Seq(UpMsg)]
  /\ down \in [Procs -> Seq(DownMsg)]
  /\ srvSees \in [Procs -> View]
  /\ cliSees \in [Procs -> View]
  /\ udp \in Seq(DownMsg)
  /\ console \in {"none", "bad", "exit", "eof"}
=============================================================================
