-------------------------------- MODULE Server --------------------------------
(***************************************************************************)
(* src/server.c: one process, one thread, one poll() loop.  A pass of the  *)
(* loop (main, lines 452-477) handles what a single poll() reported: stdin, *)
(* then one datagram, then one new connection, then one message of each    *)
(* readable subscriber.  A handler is one action, except where the code    *)
(* can block or talks to several peers: handle_listen_tcp_msg is split at   *)
(* its recv(), srv_closes_sub_connection behind its send(), and the two     *)
(* list traversals (handle_udp_msg, stop_program) take one action per list  *)
(* node.                                                                   *)
(*                                                                         *)
(* A sub_t is a record of the sequence subs, in the order of creation; the  *)
(* sub_t pointers of the two hash maps are indices in it, 0 being "no       *)
(* entry".  The list keeps the newest node at its head, so a traversal      *)
(* goes from Len(subs) down to 1.                                           *)
(***************************************************************************)
EXTENDS Sockets

CONSTANTS
  Ids,          \* the ids users give to their subscribers
  IdOf,         \* IdOf[p]: the id on p's command line, as far as it fits
  Overlong,     \* the processes whose id is longer than new_sub.id
  EmptyId,      \* the id "" (a connection closed before it sent one)
  NoFd,         \* -1, the sock_fd of a subscriber that is not connected
  InitialNfds,  \* max_nfds after init_poll_fds (256 in the code)
  Covers,       \* <<pattern, topic>>: is_subscribed matches topic by pattern
  Unspellable,  \* the patterns with a character outside TOPIC_ALPHABET
  UnspellableTopics,  \* the datagrams' topics with such a character
  Leftovers     \* the messages the bytes on the stack may spell by chance

ASSUME ServerAssumption ==
  /\ IdOf \in [Procs -> Ids]
  /\ Overlong \subseteq Procs
  /\ EmptyId \notin Ids
  /\ NoFd = -1
  /\ InitialNfds \in Nat /\ InitialNfds >= 3
  /\ Unspellable \subseteq Storable
  /\ UnspellableTopics \subseteq Topics
  /\ Leftovers \subseteq UpMsg

VARIABLES
  pc,          \* what the process is doing, see ServerPc
  rev,         \* which of stdin, udp, tcp the last poll() reported, unhandled
  i,           \* the loop index of main, 1 for pfds[3]
  pfds,        \* srv->pfds from index 3 on: fd, and whether POLLIN is set
  max_nfds,    \* srv->max_nfds
  subs,        \* srv->subs
  subs_by_id,  \* srv->subs_by_id
  subs_by_fd,  \* srv->subs_by_fd
  new_fd,      \* new_sub.sock_fd of handle_listen_tcp_msg
  cur,         \* curr_node of the two traversals
  dgram,       \* srv_msg of handle_udp_msg
  skew,        \* skew[p]: reads of p's stream are not aligned on messages
  frame,       \* what the last handle_sub_msg left on the stack as its msg
  served,      \* history: the descriptors handled in this pass
  log          \* history: log[p], the numbers of the datagrams sent to p

srvVars == <<pc, rev, i, pfds, max_nfds, subs, subs_by_id, subs_by_fd, new_fd,
             cur, dgram, skew, frame, served, log>>

ServerPc == {"pass",      \* in the loop of main
             "recv_id",   \* in handle_listen_tcp_msg, before recv()
             "refusing",  \* there, between send() and close() of a refusal
             "fanout",    \* in the traversal of handle_udp_msg
             "stopping",  \* in the traversal of stop_program
             "closing",   \* there, between send() and close() for a node
             "exited",    \* after exit(0)
             "died"}      \* after DIE or a signal

ServerUp == pc \in {"pass", "recv_id", "refusing", "fanout", "stopping", "closing"}

(* The ids the server can register: recv() of an id also takes the first    *)
(* bytes of a message that is already behind it.  The type of a subscribe   *)
(* message is 0 and ends the string; the two others become a part of it.    *)
SubIds == Ids \cup {EmptyId} \cup (Ids \X {"unsubscribe", "close"})

NoDgram == [n |-> 0, topic |-> NoTopic]

Connected(k) == subs[k].sock_fd # NoFd

-----------------------------------------------------------------------------
(* The process ends with an error: DIE, or a signal.                        *)
Die ==
  /\ pc' = "died"
  /\ CloseEverything
  /\ UNCHANGED <<sock, up, down, srvSees, udp, console, rev, i, pfds, max_nfds,
                 subs, subs_by_id, subs_by_fd, new_fd, cur, dgram, skew,
                 frame, served, log>>

(* A send() the process was blocked in returns -1.                          *)
BlockedSendFails ==
  /\ ServerUp
  /\ SrvSendFails
  /\ Die

(* Mutant: the connection is closed without CLOSE_SRV_MSG.                  *)
srv_tells_nothing(fd) == UNCHANGED <<down, srvSees>>

(* srv_closes_sub_connection(sub) for the connection behind fd, the send(): *)
(* tell the subscriber.  Assigns down and srvSees.                          *)
srv_tells_sub(fd) == SendDown(sock[fd], CloseSrvMsg)

(* The close() behind it, when the send() has returned.  Assigns cliSees    *)
(* and sock.                                                               *)
srv_closes_sub_connection(fd) ==
  /\ cliSees' = [cliSees EXCEPT ![sock[fd]] = ClosedWith(up[sock[fd]])]
  /\ sock' = [sock EXCEPT ![fd] = NoProc]

-----------------------------------------------------------------------------
(* main, poll(): what is readable now, and only that, is handled in the     *)
(* pass that starts.                                                        *)

PassDone == rev = {} /\ \A j \in i..Len(pfds) : ~pfds[j].ready

Polled == [j \in 1..Len(pfds) |->
             [fd |-> pfds[j].fd, ready |-> Readable(pfds[j].fd)]]

(* Mutant: the three handlers do not look at revents.                       *)
PolledFixedUntested == {"stdin", "udp", "tcp"}

PolledFixed == {s \in {"stdin", "udp", "tcp"} :
                  \/ s = "stdin" /\ console # "none"
                  \/ s = "udp" /\ udp # <<>>
                  \/ s = "tcp" /\ backlog # <<>>}

Poll ==
  /\ pc = "pass" /\ ~SrvSending
  /\ PassDone
  /\ rev' = PolledFixed
  /\ pfds' = Polled
  /\ rev' # {} \/ \E j \in 1..Len(pfds) : pfds'[j].ready
  /\ i' = 1
  /\ served' = {}
  /\ UNCHANGED sockVars
  /\ UNCHANGED <<pc, max_nfds, subs, subs_by_id, subs_by_fd, new_fd, cur,
                 dgram, skew, frame, log>>

-----------------------------------------------------------------------------
(* STDIN                                                                    *)

(* handle_stdin_msg: only "exit" does something, and end of file makes      *)
(* getline() fail.                                                          *)
HandleStdin ==
  /\ pc = "pass" /\ ~SrvSending
  /\ "stdin" \in rev
  /\ \/ /\ console = "bad"
        /\ console' = "none"
        /\ rev' = rev \ {"stdin"}
        /\ UNCHANGED <<pc, cur, listening, backlog, cliSees>>
        /\ UNCHANGED <<sock, up, down, srvSees, udp, i, pfds, max_nfds, subs,
                       subs_by_id, subs_by_fd, new_fd, dgram, skew, frame, served, log>>
     \/ /\ console = "exit"
        /\ console' = "none"
        /\ pc' = "stopping"
        /\ cur' = Len(subs)
        /\ UNCHANGED <<rev, listening, backlog, cliSees>>
        /\ UNCHANGED <<sock, up, down, srvSees, udp, i, pfds, max_nfds, subs,
                       subs_by_id, subs_by_fd, new_fd, dgram, skew, frame, served, log>>
     \/ /\ console = "eof"
        /\ Die

(* stop_program, the traversal: CLOSE_SRV_MSG to everybody connected, then  *)
(* exit(0).  The close() of a connection is CloseStopped.                   *)
StopProgram ==
  /\ pc = "stopping" /\ ~SrvSending
  /\ \/ /\ cur = 0
        /\ pc' = "exited"
        /\ CloseEverything
        /\ UNCHANGED <<sock, down, srvSees, subs, cur>>
     \/ /\ cur > 0 /\ ~Connected(cur)
        /\ cur' = cur - 1
        /\ UNCHANGED <<pc, listening, backlog, sock, down, srvSees, cliSees, subs>>
     \/ /\ cur > 0 /\ Connected(cur)
        /\ srv_tells_sub(subs[cur].sock_fd)
        /\ pc' = "closing"
        /\ UNCHANGED <<listening, backlog, sock, cliSees, subs, cur>>
     \/ /\ cur > 0 /\ Connected(cur)
        /\ ~Sendable(srvSees[sock[subs[cur].sock_fd]])
        /\ pc' = "died"
        /\ CloseEverything
        /\ UNCHANGED <<sock, down, srvSees, subs, cur>>
  /\ UNCHANGED <<up, udp, console, rev, i, pfds, max_nfds, subs_by_id,
                 subs_by_fd, new_fd, dgram, skew, frame, served, log>>

CloseStopped ==
  /\ pc = "closing" /\ ~SrvSending
  /\ srv_closes_sub_connection(subs[cur].sock_fd)
  /\ subs' = [subs EXCEPT ![cur].sock_fd = NoFd]
  /\ cur' = cur - 1
  /\ pc' = "stopping"
  /\ UNCHANGED <<listening, backlog, up, down, srvSees, udp, console>>
  /\ UNCHANGED <<rev, i, pfds, max_nfds, subs_by_id, subs_by_fd, new_fd, dgram,
                 skew, frame, served, log>>

-----------------------------------------------------------------------------
(* UDP CLIENT                                                               *)

(* is_subscribed, over the patterns of the subscriber's trie.               *)
is_subscribed(topics, topic) == \E t \in topics : <<t, topic>> \in Covers

(* is_subscribed reads children[(u_int) -1], far outside the array, when    *)
(* its walk gets to a letter outside TOPIC_ALPHABET.  Whether it gets there *)
(* depends on the letters before and on the trie, which may be empty.       *)
LeavesTrie(k) == Connected(k) /\ dgram.topic \in UnspellableTopics

(* Mutants of HandleUdp: the newest datagram is taken first; the traversal  *)
(* starts behind the head of the list.                                      *)
HandleUdpNewestFirst ==
  /\ pc = "pass" /\ ~SrvSending
  /\ "udp" \in rev /\ "stdin" \notin rev
  /\ rev' = rev \ {"udp"}
  /\ udp' = SubSeq(udp, 1, Len(udp) - 1)
  /\ IF subs = <<>> THEN UNCHANGED <<pc, cur, dgram>>
     ELSE pc' = "fanout" /\ cur' = Len(subs) /\ dgram' = udp[Len(udp)]
  /\ UNCHANGED <<listening, backlog, sock, up, down, srvSees, cliSees, console>>
  /\ UNCHANGED <<i, pfds, max_nfds, subs, subs_by_id, subs_by_fd, new_fd, skew,
                 frame, served, log>>

HandleUdpBehindHead ==
  /\ pc = "pass" /\ ~SrvSending
  /\ "udp" \in rev /\ "stdin" \notin rev
  /\ rev' = rev \ {"udp"}
  /\ udp' = Tail(udp)
  /\ IF Len(subs) < 2 THEN UNCHANGED <<pc, cur, dgram>>
     ELSE pc' = "fanout" /\ cur' = Len(subs) - 1 /\ dgram' = Head(udp)
  /\ UNCHANGED <<listening, backlog, sock, up, down, srvSees, cliSees, console>>
  /\ UNCHANGED <<i, pfds, max_nfds, subs, subs_by_id, subs_by_fd, new_fd, skew,
                 frame, served, log>>

(* handle_udp_msg, up to the traversal.                                     *)
HandleUdp ==
  /\ pc = "pass" /\ ~SrvSending
  /\ "udp" \in rev /\ "stdin" \notin rev
  /\ rev' = rev \ {"udp"}
  /\ udp' = Tail(udp)
  /\ IF subs = <<>> THEN UNCHANGED <<pc, cur, dgram>>
     ELSE pc' = "fanout" /\ cur' = Len(subs) /\ dgram' = Head(udp)
  /\ UNCHANGED <<listening, backlog, sock, up, down, srvSees, cliSees, console>>
  /\ UNCHANGED <<i, pfds, max_nfds, subs, subs_by_id, subs_by_fd, new_fd, skew,
                 frame, served, log>>

(* The condition of line 297.                                               *)
Eligible(k) == Connected(k) /\ is_subscribed(subs[k].topics, dgram.topic)

(* Mutant: the traversal moves on behind a send() only.                     *)
NextNodeBehindSend ==
  IF Eligible(cur)
  THEN /\ cur' = cur - 1
       /\ IF cur = 1 THEN pc' = "pass" /\ dgram' = NoDgram ELSE UNCHANGED <<pc, dgram>>
  ELSE UNCHANGED <<cur, pc, dgram>>

(* curr_node = curr_node->next, and the end of the handler after the last.  *)
NextNode ==
  /\ cur' = cur - 1
  /\ IF cur = 1 THEN pc' = "pass" /\ dgram' = NoDgram ELSE UNCHANGED <<pc, dgram>>

(* handle_udp_msg, one node of the traversal.                               *)
Fanout ==
  /\ pc = "fanout" /\ ~SrvSending
  /\ LET p == sock[subs[cur].sock_fd] IN
     \/ /\ ~Eligible(cur)
        /\ NextNode
        /\ UNCHANGED <<listening, backlog, down, srvSees, cliSees, log>>
     \/ /\ Eligible(cur)
        /\ SendDown(p, dgram)
        /\ log' = [log EXCEPT ![p] = Append(@, dgram.n)]
        /\ NextNode
        /\ UNCHANGED <<listening, backlog, cliSees>>
     \/ /\ \/ Eligible(cur) /\ ~Sendable(srvSees[p])
           \/ LeavesTrie(cur)
        /\ pc' = "died"
        /\ CloseEverything
        /\ UNCHANGED <<down, srvSees, cur, dgram, log>>
  /\ UNCHANGED <<sock, up, udp, console, rev, i, pfds, max_nfds, subs,
                 subs_by_id, subs_by_fd, new_fd, skew, frame, served>>

-----------------------------------------------------------------------------
(* LISTEN TCP                                                               *)

(* Mutants: the full array is not doubled; revents is not cleared, and the  *)
(* element of the array still has POLLIN set.                               *)
add_pfd_without_growth(fd) ==
  /\ UNCHANGED max_nfds
  /\ pfds' = Append(pfds, [fd |-> fd, ready |-> FALSE])

add_pfd_stale_revents(fd) ==
  /\ max_nfds' = IF Len(pfds) + 3 = max_nfds THEN 2 * max_nfds ELSE max_nfds
  /\ pfds' = Append(pfds, [fd |-> fd, ready |-> TRUE])

(* add_pfd: append to the array, after doubling it when it is full; revents *)
(* is cleared, so the entry waits for the next poll().                      *)
add_pfd(fd) ==
  /\ max_nfds' = IF Len(pfds) + 3 = max_nfds THEN 2 * max_nfds ELSE max_nfds
  /\ pfds' = Append(pfds, [fd |-> fd, ready |-> FALSE])

(* add_new_sub: a new node at the head of the list, known to both maps.     *)
add_new_sub(fd, id) ==
  /\ add_pfd(fd)
  /\ subs' = Append(subs, [id |-> id, sock_fd |-> fd, topics |-> {}])
  /\ subs_by_fd' = [subs_by_fd EXCEPT ![fd] = Len(subs) + 1]
  /\ subs_by_id' = [subs_by_id EXCEPT ![id] = Len(subs) + 1]

(* Mutants: the newest node is revived, whatever the id; the subscriptions  *)
(* do not survive the disconnection.                                        *)
revive_newest(k, fd) ==
  /\ add_pfd(fd)
  /\ subs' = [subs EXCEPT ![Len(subs)].sock_fd = fd]
  /\ subs_by_fd' = [subs_by_fd EXCEPT ![fd] = Len(subs)]
  /\ UNCHANGED subs_by_id

revive_forgetting(k, fd) ==
  /\ add_pfd(fd)
  /\ subs' = [subs EXCEPT ![k].sock_fd = fd, ![k].topics = {}]
  /\ subs_by_fd' = [subs_by_fd EXCEPT ![fd] = k]
  /\ UNCHANGED subs_by_id

(* revive_sub_connection: the old node, with its subscriptions, gets the    *)
(* new descriptor.                                                          *)
revive_sub_connection(k, fd) ==
  /\ add_pfd(fd)
  /\ subs' = [subs EXCEPT ![k].sock_fd = fd]
  /\ subs_by_fd' = [subs_by_fd EXCEPT ![fd] = k]
  /\ UNCHANGED subs_by_id

(* handle_listen_tcp_msg, accept(): the lowest free descriptor, or DIE.     *)
HandleListen ==
  /\ pc = "pass" /\ ~SrvSending
  /\ "tcp" \in rev /\ rev \cap {"stdin", "udp"} = {}
  /\ \/ /\ FreeFds = {}
        /\ Die
     \/ /\ \E fd \in FreeFds :
             /\ \A g \in FreeFds : fd <= g
             /\ new_fd' = fd
             /\ sock' = [sock EXCEPT ![fd] = Head(backlog)]
        /\ backlog' = Tail(backlog)
        /\ pc' = "recv_id"
        /\ rev' = {}
        /\ UNCHANGED <<listening, up, down, srvSees, cliSees, udp, console>>
        /\ UNCHANGED <<i, pfds, max_nfds, subs, subs_by_id, subs_by_fd, cur,
                       dgram, skew, frame, served, log>>

(* What recv(new_sub.id) can return: "" if the peer is gone; what fits of   *)
(* the id, the rest of which, no longer than a message, stays in the        *)
(* stream; the id; or the id and the first bytes of the message behind it.  *)
ReadIds(p) ==
  CASE up[p] = <<>> -> {[id |-> EmptyId, rest |-> <<>>, skew |-> FALSE]}
    [] up[p] # <<>> /\ p \in Overlong ->
         {[id |-> IdOf[p], rest |-> up[p], skew |-> TRUE]}
    [] OTHER ->
       {[id |-> IdOf[p], rest |-> Tail(up[p]), skew |-> FALSE]} \cup
       (IF Len(up[p]) = 1 THEN {}
        ELSE {[id   |-> IF up[p][2].type = "subscribe" THEN IdOf[p]
                        ELSE <<IdOf[p], up[p][2].type>>,
               rest |-> Tail(up[p]),
               skew |-> TRUE]})

(* Mutant: a second process with a connected id takes the record over.      *)
IsPastAlways(k) == TRUE

(* The end of the handler for a connection that is not refused.             *)
Registered ==
  /\ pc' = "pass"
  /\ new_fd' = NoFd
  /\ UNCHANGED <<down, srvSees>>

(* Line 373: was the sub_t found by id left by its connection?              *)
IsPast(k) == ~Connected(k)

(* handle_listen_tcp_msg, from recv() on: first, past or present connection; *)
(* the close() of a present one is CloseRefused.                            *)
ReceiveId ==
  /\ pc = "recv_id" /\ ~SrvSending
  /\ LET p == sock[new_fd] IN
     /\ Readable(new_fd)
     /\ \E r \in ReadIds(p) :
          /\ up' = [up EXCEPT ![p] = r.rest]
          /\ skew' = [skew EXCEPT ![p] = r.skew]
          /\ LET k == subs_by_id[r.id] IN
             \/ /\ k = 0
                /\ add_new_sub(new_fd, r.id)
                /\ Registered
             \/ /\ k # 0 /\ IsPast(k)
                /\ revive_sub_connection(k, new_fd)
                /\ Registered
             \/ /\ k # 0 /\ ~IsPast(k)
                /\ srv_tells_sub(new_fd)
                /\ pc' = "refusing"
                /\ UNCHANGED <<new_fd, pfds, max_nfds, subs, subs_by_id, subs_by_fd>>
  /\ UNCHANGED <<listening, backlog, sock, cliSees, udp, console>>
  /\ UNCHANGED <<rev, i, cur, dgram, frame, served, log>>

CloseRefused ==
  /\ pc = "refusing" /\ ~SrvSending
  /\ srv_closes_sub_connection(new_fd)
  /\ pc' = "pass"
  /\ new_fd' = NoFd
  /\ UNCHANGED <<listening, backlog, up, down, srvSees, udp, console>>
  /\ UNCHANGED <<rev, i, pfds, max_nfds, subs, subs_by_id, subs_by_fd, cur,
                 dgram, skew, frame, served, log>>

-----------------------------------------------------------------------------
(* SUBSCRIBERS                                                              *)

(* Does the process survive the trie operation on this pattern?  A letter   *)
(* outside the alphabet is a DIE for trie_insert and an index of -1, read   *)
(* by trie_search without a check, for an unsubscription.                   *)
Survives(m) ==
  CASE m.topic \notin Unspellable -> {TRUE}
    [] m.type = "subscribe" -> {FALSE}
    [] OTHER -> {TRUE, FALSE}

(* add_subscription, rmv_subscription.                                      *)
NewTopics(topics, m) ==
  CASE m.type = "subscribe" -> topics \cup {m.topic}
    [] m.type = "unsubscribe" -> topics \ {m.topic}
    [] OTHER -> topics

EmptyMsg(type) == [type |-> type, topic |-> EmptyPattern]

(* What a read that begins in the middle of m finds.  m is padded with      *)
(* zeros, and four of them are the type of SUBSCRIBE_SUB_MSG, with the      *)
(* topic "": always if m has no topic, else if the topic ends before the    *)
(* place.  The letters of an id or a topic are no type, unless the topic    *)
(* ends in a byte 1 or 2, which the alphabet does not have.                 *)
Misreads(m) ==
  CASE m = IdMsg -> {OtherMsg}
    [] m = CloseMsg -> {EmptyMsg("subscribe")}
    [] m.topic \in Unspellable ->
         {OtherMsg, EmptyMsg("subscribe"), EmptyMsg("unsubscribe"), CloseMsg}
    [] OTHER -> {OtherMsg, EmptyMsg("subscribe")}

(* Behind an over-long id the last bytes of a message, zeros, may be as few *)
(* as the type or fewer: the topic is then what the stack holds, or begins  *)
(* with the type of the next message, a letter of no alphabet.              *)
PieceReads(p) ==
  IF p \notin Overlong \/ Head(up[p]) = IdMsg THEN {}
  ELSE [type : {"subscribe"}, topic : ({frame.topic} \cap Storable) \cup StrayPatterns]

(* What recv(&msg) can leave in msg: the next message; a misread one when   *)
(* the stream is skewed, and the alignment is found again if the rest of a  *)
(* message arrives alone; at end of file recv() returns 0 and msg, which is *)
(* not initialised, holds what the previous call left on the stack, of      *)
(* whichever subscriber, or what other calls have written there since.      *)
ReadMsgs(p) ==
  CASE up[p] = <<>> -> [msg : {frame} \cup Leftovers, rest : {<<>>}, skew : {skew[p]}]
    [] up[p] # <<>> /\ ~skew[p] -> [msg : {Head(up[p])}, rest : {Tail(up[p])},
                                    skew : {FALSE}]
    [] OTHER -> [msg : Misreads(Head(up[p])) \cup PieceReads(p), rest : {Tail(up[p])},
                 skew : IF Len(up[p]) = 1 THEN {FALSE} ELSE BOOLEAN]

(* sub_closes_srv_connection, the shift of pfds.                            *)
Without(j) == [h \in 1..(Len(pfds) - 1) |-> IF h < j THEN pfds[h] ELSE pfds[h + 1]]

(* Mutants: main's loop goes past the entry that was shifted to j; it goes  *)
(* back one entry too far.                                                  *)
IndexAfterCloseForward(j) == j + 1

IndexAfterCloseBack(j) == j - 1

(* The loop index for which main looks next after closing pfds[j]: the      *)
(* decrement of *pfd_idx and the increment of the loop cancel out.          *)
IndexAfterClose(j) == j

(* Mutants: the entry of subs_by_fd stays; the descriptor is not closed.    *)
sub_closes_keeping_fd_entry(k, j, unreadByPeer) ==
  /\ sock' = [sock EXCEPT ![subs[k].sock_fd] = NoProc]
  /\ cliSees' = [cliSees EXCEPT ![sock[subs[k].sock_fd]] = ClosedWith(unreadByPeer)]
  /\ subs' = [subs EXCEPT ![k].sock_fd = NoFd]
  /\ pfds' = Without(j)
  /\ i' = IndexAfterClose(j)
  /\ UNCHANGED subs_by_fd

sub_closes_leaking_fd(k, j, unreadByPeer) ==
  /\ subs' = [subs EXCEPT ![k].sock_fd = NoFd]
  /\ subs_by_fd' = [subs_by_fd EXCEPT ![pfds[j].fd] = 0]
  /\ pfds' = Without(j)
  /\ i' = IndexAfterClose(j)
  /\ UNCHANGED <<sock, cliSees>>

(* sub_closes_srv_connection.                                               *)
sub_closes_srv_connection(k, j, unreadByPeer) ==
  /\ sock' = [sock EXCEPT ![subs[k].sock_fd] = NoProc]
  /\ cliSees' = [cliSees EXCEPT ![sock[subs[k].sock_fd]] = ClosedWith(unreadByPeer)]
  /\ subs' = [subs EXCEPT ![k].sock_fd = NoFd]
  /\ subs_by_fd' = [subs_by_fd EXCEPT ![pfds[j].fd] = 0]
  /\ pfds' = Without(j)
  /\ i' = IndexAfterClose(j)

(* The first entry, from the loop index on, on which POLLIN is set.         *)
NextReady(j) ==
  /\ j \in i..Len(pfds)
  /\ pfds[j].ready
  /\ \A h \in i..(j - 1) : ~pfds[h].ready

(* handle_sub_msg for pfds[j].                                              *)
HandleSubMsg(j) ==
  /\ pc = "pass" /\ ~SrvSending
  /\ rev = {}
  /\ NextReady(j)
  /\ LET k == subs_by_fd[pfds[j].fd]
         p == sock[subs[k].sock_fd] IN
     \/ /\ up[p] = <<>> /\ srvSees[p] = "rst"
        /\ Die
     \/ /\ Readable(subs[k].sock_fd)
        /\ ~(up[p] = <<>> /\ srvSees[p] = "rst")
        /\ \E r \in ReadMsgs(p) : \E ok \in Survives(r.msg) :
             \/ /\ ~ok
                /\ Die
             \/ /\ ok
                /\ up' = [up EXCEPT ![p] = r.rest]
                /\ skew' = [skew EXCEPT ![p] = r.skew]
                /\ frame' = r.msg
                /\ served' = served \cup {pfds[j].fd}
                /\ \/ /\ r.msg.type = "close"
                      /\ sub_closes_srv_connection(k, j, r.rest)
                   \/ /\ r.msg.type # "close"
                      /\ subs' = [subs EXCEPT ![k].topics = NewTopics(@, r.msg)]
                      /\ i' = j + 1
                      /\ UNCHANGED <<sock, cliSees, subs_by_fd, pfds>>
                /\ UNCHANGED <<listening, backlog, down, srvSees, udp, console>>
                /\ UNCHANGED <<pc, rev, max_nfds, subs_by_id, new_fd, cur, dgram,
                               log>>

-----------------------------------------------------------------------------
(* main, lines 447-450.                                                     *)
ServerInit ==
  /\ pc = "pass"
  /\ rev = {}
  /\ i = 1
  /\ pfds = <<>>
  /\ max_nfds = InitialNfds
  /\ subs = <<>>
  /\ subs_by_id = [id \in SubIds |-> 0]
  /\ subs_by_fd = [fd \in Fds |-> 0]
  /\ new_fd = NoFd
  /\ cur = 0
  /\ dgram = NoDgram
  /\ skew = [p \in Procs |-> FALSE]
  /\ frame = OtherMsg
  /\ served = {}
  /\ log = [p \in Procs |-> <<>>]

ServerNext ==
  \/ Poll
  \/ HandleStdin
  \/ StopProgram
  \/ CloseStopped
  \/ HandleUdp
  \/ Fanout
  \/ HandleListen
  \/ ReceiveId
  \/ CloseRefused
  \/ \E j \in 1..Len(pfds) : HandleSubMsg(j)
  \/ BlockedSendFails

ServerTypeOK ==
  /\ pc \in ServerPc
  /\ rev \subseteq {"stdin", "udp", "tcp"}
  /\ i \in Nat \ {0}
  /\ pfds \in Seq([fd : Fds, ready : BOOLEAN])
  /\ max_nfds \in Nat
  /\ subs \in Seq([id : SubIds, sock_fd : Fds \cup {NoFd}, topics : SUBSET Storable])
  /\ subs_by_id \in [SubIds -> Nat]
  /\ subs_by_fd \in [Fds -> Nat]
  /\ new_fd \in Fds \cup {NoFd}
  /\ cur \in Nat
  /\ dgram \in DownMsg
  /\ skew \in [Procs -> BOOLEAN]
  /\ frame \in UpMsg
  /\ served \subseteq Fds
  /\ log \in [Procs -> Seq(Nat)]
=============================================================================
