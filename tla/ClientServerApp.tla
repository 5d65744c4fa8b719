---------------------------- MODULE ClientServerApp ----------------------------
(***************************************************************************)
(* The whole application: the server, the subscribers, the UDP providers    *)
(* and the person at the server's terminal.                                 *)
(***************************************************************************)
EXTENDS Server, Subscriber

CONSTANTS
  MaxDatagrams,  \* bound: the datagrams the providers send
  ConsoleLines   \* what may appear at the server's stdin

ASSUME ClientServerAppAssumption ==
  /\ MaxDatagrams \in Nat
  /\ ConsoleLines \subseteq {"bad", "exit", "eof"}

VARIABLES
  arrived,  \* the number of datagrams that have arrived
  want      \* history: want[id], the topics its user subscribed the id to

vars == <<sockVars, srvVars, cliVars, arrived, want>>

-----------------------------------------------------------------------------
(* The descriptors in srv->pfds from index 3 on.                            *)
PollFds == {pfds[j].fd : j \in DOMAIN pfds}

(* p is the connection of the subscriber's record k.                        *)
SessionOf(p, k) == Connected(k) /\ sock[subs[k].sock_fd] = p

Init ==
  /\ SocketsInit
  /\ ServerInit
  /\ SubscriberInit
  /\ arrived = 0
  /\ want = [id \in SubIds |-> {}]

ServerStep == ServerNext /\ UNCHANGED <<cliVars, arrived, want>>

(* The subscribe and unsubscribe commands that p, connected as record k,    *)
(* gets into its connection are what the user of that id wants.             *)
NoteCommands(p) ==
  want' = [id \in SubIds |->
    IF /\ left'[p] # left[p] /\ up'[p] # up[p]
       /\ \E k \in DOMAIN subs : SessionOf(p, k) /\ subs[k].id = id
    THEN NewTopics(want[id], up'[p][Len(up'[p])])
    ELSE want[id]]

SubscriberStep(p) ==
  /\ SubscriberNext(p)
  /\ NoteCommands(p)
  /\ UNCHANGED <<srvVars, arrived>>

(* A datagram of some provider arrives at the server's UDP socket.  Losing, *)
(* duplicating or reordering datagrams happens before they arrive.          *)
UdpArrival ==
  /\ arrived < MaxDatagrams
  /\ arrived' = arrived + 1
  /\ \E topic \in Topics : udp' = Append(udp, [n |-> arrived + 1, topic |-> topic])
  /\ UNCHANGED <<listening, backlog, sock, up, down, srvSees, cliSees, console>>
  /\ UNCHANGED <<srvVars, cliVars, want>>

TypeLine ==
  /\ console = "none"
  /\ \E line \in ConsoleLines : console' = line
  /\ UNCHANGED <<listening, backlog, sock, up, down, srvSees, cliSees, udp>>
  /\ UNCHANGED <<srvVars, cliVars, arrived, want>>

Next ==
  \/ ServerStep
  \/ \E p \in Procs : SubscriberStep(p)
  \/ UdpArrival
  \/ TypeLine

Spec == Init /\ [][Next]_vars

(* What p does without its user, one of the four at a time.                 *)
Unprompted(p) ==
  /\ SendId(p) \/ sub_Exit(p) \/ HandleServerMsg(p) \/ sub_BlockedSendFails(p)
  /\ NoteCommands(p)
  /\ UNCHANGED <<srvVars, arrived>>

(* The processes are scheduled; users and providers owe nothing.            *)
Fairness ==
  /\ WF_vars(ServerStep)
  /\ \A p \in Procs : WF_vars(Unprompted(p))

FairSpec == Spec /\ Fairness

-----------------------------------------------------------------------------
(* Every variable keeps its type.                                           *)
TypeOK ==
  /\ SocketsTypeOK
  /\ ServerTypeOK
  /\ SubscriberTypeOK
  /\ arrived \in Nat
  /\ want \in [SubIds -> SUBSET Storable]

InLoopOfMain == pc \in {"pass", "recv_id", "refusing", "fanout"}

(* The four tables of the server agree at every point of its loop: the list *)
(* of subscribers, the two hash maps into it, the poll array, and the       *)
(* kernel's descriptors (src/server.c add_new_sub, revive_sub_connection,   *)
(* srv_closes_sub_connection, sub_closes_srv_connection).                   *)
IdsAgree ==
  /\ \A id \in SubIds : subs_by_id[id] # 0 =>
       subs_by_id[id] \in DOMAIN subs /\ subs[subs_by_id[id]].id = id
  /\ \A k \in DOMAIN subs : subs_by_id[subs[k].id] = k

FdsAgree ==
  /\ \A fd \in Fds : subs_by_fd[fd] # 0 =>
       subs_by_fd[fd] \in DOMAIN subs /\ subs[subs_by_fd[fd]].sock_fd = fd
  /\ \A k \in DOMAIN subs : Connected(k) => subs_by_fd[subs[k].sock_fd] = k

PollAgrees ==
  /\ \A j, h \in DOMAIN pfds : pfds[j].fd = pfds[h].fd => j = h
  /\ \A fd \in Fds : fd \in PollFds <=> subs_by_fd[fd] # 0
  /\ Len(pfds) + 3 <= max_nfds

DescriptorsAgree ==
  /\ \A fd \in Fds : sock[fd] # NoProc <=> fd \in PollFds \/ fd = new_fd
  /\ new_fd \notin PollFds
  /\ new_fd # NoFd <=> pc \in {"recv_id", "refusing"}

RegistryConsistent ==
  InLoopOfMain => IdsAgree /\ FdsAgree /\ PollAgrees /\ DescriptorsAgree

(* What RegistryConsistent needs to be inductive.  Behind the id there are  *)
(* only commands in a connection, and nothing before connect(); the cursor  *)
(* of a traversal is a node; what poll() reported of the three fixed        *)
(* descriptors is still there; also while the server stops, every connected *)
(* record has a descriptor of its own, open.                                *)
StreamShape ==
  \A p \in Procs :
    /\ cli[p] \in {"off", "connected"} => up[p] = <<>>
    /\ \A n \in 2..Len(up[p]) : up[p][n].type \in {"subscribe", "unsubscribe", "close"}

CursorInRange ==
  /\ pc = "fanout" => cur \in 1..Len(subs)
  /\ pc = "stopping" => cur \in 0..Len(subs)
  /\ pc = "closing" => cur \in 1..Len(subs) /\ Connected(cur)

SessionsOpen ==
  ServerUp => \A k \in DOMAIN subs : Connected(k) =>
                /\ subs_by_fd[subs[k].sock_fd] = k
                /\ sock[subs[k].sock_fd] # NoProc

ReportedIsReady ==
  InLoopOfMain =>
    /\ "stdin" \in rev => console # "none"
    /\ "udp" \in rev => udp # <<>>
    /\ "tcp" \in rev => backlog # <<>>

IInv ==
  /\ TypeOK
  /\ StreamShape
  /\ CursorInRange
  /\ ReportedIsReady
  /\ SessionsOpen
  /\ RegistryConsistent

(* The connections of the server, in its backlog and behind descriptors,    *)
(* are those of different processes, which have called connect().           *)
ConnectionsOnce ==
  /\ \A fd, gd \in Fds : sock[fd] # NoProc /\ sock[fd] = sock[gd] => fd = gd
  /\ \A m, n \in DOMAIN backlog : backlog[m] = backlog[n] => m = n
  /\ \A fd \in Fds : \A n \in DOMAIN backlog : sock[fd] # backlog[n]
  /\ \A p \in Procs : InBacklog(p) \/ Accepted(p) => cli[p] # "off"

(* A pass of the loop handles every readable connection poll() reported     *)
(* exactly once, although closing a connection shifts the array under the   *)
(* loop index and accepting one extends it (main lines 472-476,             *)
(* sub_closes_srv_connection lines 404-409).                                *)
EveryReadyServedOnce ==
  InLoopOfMain =>
    \A j \in DOMAIN pfds : pfds[j].ready => (pfds[j].fd \in served <=> j < i)

(* The loop never blocks where poll() said it can read: in getline(),       *)
(* recvfrom() and accept(), nor in the recv() of handle_sub_msg.  An entry  *)
(* still to be handled is readable now, not only when poll() returned,      *)
(* though descriptors are closed and reused in between (revents of a reused *)
(* entry).                                                                  *)
NoBlockingRecv ==
  /\ ReportedIsReady
  /\ InLoopOfMain =>
       \A j \in DOMAIN pfds : pfds[j].ready /\ j >= i => Readable(pfds[j].fd)

(* A connection is registered under the id of the process behind it         *)
(* (handle_listen_tcp_msg line 364).                                        *)
RegisteredUnderOwnId ==
  InLoopOfMain =>
    \A k \in DOMAIN subs : Connected(k) =>
      subs[k].id = IdOf[sock[subs[k].sock_fd]] \/ subs[k].id = EmptyId

(* Two processes started with the same id never both have a session         *)
(* (handle_listen_tcp_msg lines 369-378).                                   *)
OneSessionPerId ==
  InLoopOfMain =>
    \A fd, gd \in PollFds :
      IdOf[sock[fd]] = IdOf[sock[gd]] /\ fd # gd =>
        \E k \in DOMAIN subs : subs[k].id = EmptyId /\ subs[k].sock_fd \in {fd, gd}

(* When the traversal of the list ends, each connection that is subscribed  *)
(* to the datagram has been sent it exactly once, by whatever number of     *)
(* patterns, and no other connection at all, whoever has exited or blocked  *)
(* the server in the meantime (handle_udp_msg lines 291-304).               *)
FanoutEnds == pc = "fanout" /\ pc' = "pass"

FanoutExactlyOnce ==
  [][FanoutEnds =>
       \A p \in Procs :
         Cardinality({n \in DOMAIN log'[p] : log'[p][n] = dgram.n}) =
           IF \E k \in DOMAIN subs :
                SessionOf(p, k) /\ is_subscribed(subs[k].topics, dgram.topic)
           THEN 1 ELSE 0]_vars

(* A process is sent datagrams in the order in which they reached the       *)
(* server, none of them twice.                                              *)
DeliveryInOrder ==
  \A p \in Procs : \A m, n \in DOMAIN log[p] : m < n => log[p][m] < log[p][n]

(* What DeliveryInOrder needs to be inductive: the datagrams are numbered   *)
(* as they arrive, those sent are older than those that wait; and while one *)
(* is handed out, it has been sent to exactly the sessions behind the       *)
(* cursor that are subscribed to it.                                        *)
Numbered ==
  /\ \A n \in DOMAIN udp : udp[n].n \in 1..arrived /\ udp[n].topic \in Topics
  /\ \A m, n \in DOMAIN udp : m < n => udp[m].n < udp[n].n
  /\ \A p \in Procs : \A m \in DOMAIN log[p] :
       /\ log[p][m] <= arrived
       /\ \A n \in DOMAIN udp : log[p][m] < udp[n].n

HandedOut ==
  /\ pc \in {"pass", "recv_id", "refusing", "stopping", "closing"} => dgram = NoDgram
  /\ pc = "fanout" =>
       /\ dgram.n \in 1..arrived /\ dgram.topic \in Topics
       /\ \A n \in DOMAIN udp : dgram.n < udp[n].n
       /\ \A p \in Procs :
            /\ \A m \in DOMAIN log[p] : log[p][m] <= dgram.n
            /\ (\E m \in DOMAIN log[p] : log[p][m] = dgram.n) <=>
                 \E k \in (cur + 1)..Len(subs) :
                   SessionOf(p, k) /\ is_subscribed(subs[k].topics, dgram.topic)

DeliveryInv == Numbered /\ HandedOut /\ DeliveryInOrder

(* The application keeps the promise of Broker: whatever happens to the     *)
(* tables, the descriptors and the buffers, it is a broker with one session *)
(* per id, subscriptions that outlive sessions, and publications that are   *)
(* handed out in order, to those interested, once (main, handle_udp_msg,    *)
(* handle_listen_tcp_msg, handle_sub_msg, stop_program).                    *)
SessionOfId(id) ==
  LET k == subs_by_id[id] IN
  IF k # 0 /\ Connected(k) THEN sock[subs[k].sock_fd] ELSE NoProc

InterestOfId(id) == IF subs_by_id[id] = 0 THEN {} ELSE subs[subs_by_id[id]].topics

Sessions  == [id \in SubIds |-> SessionOfId(id)]
Interests == [id \in SubIds |-> InterestOfId(id)]

(* The nodes the traversal has not reached.                                 *)
Owed ==
  IF dgram = NoDgram THEN {}
  ELSE {p \in Procs : \E k \in 1..cur :
          SessionOf(p, k) /\ is_subscribed(subs[k].topics, dgram.topic)}

Promise == INSTANCE Broker WITH
  Patterns <- Storable,
  Nothing  <- NoDgram,
  works    <- ServerUp,
  session  <- Sessions,
  interest <- Interests,
  queue    <- udp,
  current  <- dgram,
  owed     <- Owed,
  outbox   <- log

ImplementsBroker == Promise!Spec

(* What is left of topics, and of what is added, when msgs have been handled. *)
Replay(topics, msgs) ==
  LET after[n \in 0..Len(msgs)] ==
        IF n = 0 THEN topics ELSE NewTopics(after[n - 1], msgs[n])
  IN after[Len(msgs)]

(* Commands take effect once, in order, for the right id, and last over     *)
(* disconnections: what the server has stored for an id, with the commands  *)
(* still in its connection applied, is what the user of that id asked for   *)
(* (handle_sub_msg, revive_sub_connection).                                 *)
CommandsApplied ==
  InLoopOfMain =>
    \A k \in DOMAIN subs : subs[k].id # EmptyId =>
      want[subs[k].id] =
        Replay(subs[k].topics, IF Connected(k) THEN up[sock[subs[k].sock_fd]] ELSE <<>>)

(* A refused process is one whose id is in use: another process with that   *)
(* id is running (README.md lines 20-23).                                   *)
Refusal == pc = "recv_id" /\ pc' = "refusing"

RefusedOnlyWhileConnected ==
  [][Refusal => \E q \in Procs : /\ q # sock[new_fd]
                                 /\ IdOf[q] = IdOf[sock[new_fd]]
                                 /\ Runs(q)]_vars

(* DIE is for what should not happen (utils.h lines 11-14).                 *)
NeverDies == pc # "died"

(* The server is blocked in a send() to a subscriber that is blocked in a   *)
(* send() to the server: neither reads, and both wait for ever.             *)
MutualWait == \E p \in Procs : Runs(p) /\ Len(down[p]) > DownCap /\ CliSending(p)

(* What is waited for is done, or will never be because the server has      *)
(* ended or waits for ever.  Nothing else is an exception, no slow reader    *)
(* and nobody who blocks the server for a while.                            *)
Settled(done) == done \/ ~ServerUp \/ MutualWait

(* A subscriber that has exited does not stay registered: its descriptor is *)
(* closed and its id is free again (sub_closes_srv_connection).             *)
ExitedIsUnregistered ==
  \A p \in Procs :
    []<>Settled(cli[p] = "exited" => ~InBacklog(p) /\ ~Accepted(p))

(* A subscriber that connects gets a session or is told to exit             *)
(* (handle_listen_tcp_msg).                                                 *)
Answered(p) ==
  \/ Ended(p)
  \/ Runs(p) /\ \E k \in DOMAIN subs : SessionOf(p, k)

ConnectIsAnswered ==
  \A p \in Procs : []<>Settled(cli[p] # "off" => Answered(p))

(* Every datagram has its turn, and those sent it show it or end: none      *)
(* waits somewhere for ever (handle_udp_msg, handle_server_msg).            *)
OnItsWay(n) ==
  \/ \E m \in DOMAIN udp : udp[m].n = n
  \/ dgram.n = n
  \/ \E p \in Procs : ~Ended(p) /\ \E m \in DOMAIN down[p] : down[p][m].n = n

DatagramsArrive ==
  \A n \in 1..MaxDatagrams : []<>Settled(~OnItsWay(n))

(* When exit is typed, the server ends and with it every subscriber, unless *)
(* a send() fails or waits for a subscriber that waits for the server       *)
(* (stop_program).                                                          *)
ExitEndsSubscribers ==
  []<>(\/ InLoopOfMain
       \/ pc = "died"
       \/ MutualWait
       \/ pc = "exited" /\ \A p \in Procs : cli[p] = "off" \/ Ended(p))

=============================================================================
