-------------------------------- MODULE Broker --------------------------------
(***************************************************************************)
(* What the application promises, without descriptors, tables, buffers and  *)
(* poll(): a broker of publications.  An id has at most one session, a      *)
(* process at most one, and the topics of an id outlive its sessions.       *)
(* Publications are handed out one at a time in their order of arrival,     *)
(* each to all the sessions interested in it when its turn comes, and to    *)
(* each of them once; sessions and topics do not change in the meantime.    *)
(*                                                                         *)
(* Which topics an id is interested in is open here: Patterns are all that *)
(* a record may hold, those nobody has typed too, and a session may change  *)
(* its topics at any time.  That they are the ones a user asked for is      *)
(* CommandsApplied of ClientServerApp, which needs well-behaved users.      *)
(***************************************************************************)
EXTENDS Naturals, Sequences

CONSTANTS
  Procs,     \* the subscriber processes
  NoProc,    \* the session of an id that has none
  SubIds,    \* the ids
  Patterns,  \* the topics, with or without wildcards, a session can be given
  Topics,    \* the topics of the publications
  Covers,    \* <<pattern, topic>>: topic matches pattern
  Nothing    \* the publication handed out when there is none

VARIABLES
  works,     \* the broker works
  session,   \* session[id]: the process that is connected as id
  interest,  \* interest[id]: the patterns of id
  arrived,   \* the number of publications that have arrived
  queue,     \* those that wait
  current,   \* the one that is being handed out
  owed,      \* the processes that have not got it yet
  outbox     \* outbox[p]: the numbers of the publications p was handed

vars == <<works, session, interest, arrived, queue, current, owed, outbox>>

Interested(id, topic) ==
  session[id] # NoProc /\ \E t \in interest[id] : <<t, topic>> \in Covers

Idle == works /\ current = Nothing

Init ==
  /\ works = TRUE
  /\ session = [id \in SubIds |-> NoProc]
  /\ interest = [id \in SubIds |-> {}]
  /\ arrived = 0
  /\ queue = <<>>
  /\ current = Nothing
  /\ owed = {}
  /\ outbox = [p \in Procs |-> <<>>]

Attach(id, p) ==
  /\ Idle
  /\ session[id] = NoProc
  /\ \A other \in SubIds : session[other] # p
  /\ session' = [session EXCEPT ![id] = p]
  /\ UNCHANGED <<works, interest, arrived, queue, current, owed, outbox>>

Detach(id) ==
  /\ Idle
  /\ session[id] # NoProc
  /\ session' = [session EXCEPT ![id] = NoProc]
  /\ UNCHANGED <<works, interest, arrived, queue, current, owed, outbox>>

Subscribe(id, t) ==
  /\ Idle
  /\ session[id] # NoProc
  /\ interest' = [interest EXCEPT ![id] = @ \cup {t}]
  /\ UNCHANGED <<works, session, arrived, queue, current, owed, outbox>>

Unsubscribe(id, t) ==
  /\ Idle
  /\ session[id] # NoProc
  /\ interest' = [interest EXCEPT ![id] = @ \ {t}]
  /\ UNCHANGED <<works, session, arrived, queue, current, owed, outbox>>

Arrive(topic) ==
  /\ arrived' = arrived + 1
  /\ queue' = Append(queue, [n |-> arrived + 1, topic |-> topic])
  /\ UNCHANGED <<works, session, interest, current, owed, outbox>>

(* The next publication's turn; nothing is left to do if nobody is          *)
(* interested.                                                              *)
Publish ==
  /\ Idle
  /\ queue # <<>>
  /\ queue' = Tail(queue)
  /\ LET audience == {session[id] : id \in {j \in SubIds : Interested(j, Head(queue).topic)}} IN
     \/ current' = Head(queue) /\ owed' = audience
     \/ audience = {} /\ UNCHANGED <<current, owed>>
  /\ UNCHANGED <<works, session, interest, arrived, outbox>>

HandOut(p) ==
  /\ works
  /\ p \in owed
  /\ outbox' = [outbox EXCEPT ![p] = Append(@, current.n)]
  /\ owed' = owed \ {p}
  /\ current' \in {current} \cup (IF owed' = {} THEN {Nothing} ELSE {})
  /\ UNCHANGED <<works, session, interest, arrived, queue>>

Finish ==
  /\ works
  /\ owed = {}
  /\ current' = Nothing
  /\ UNCHANGED <<works, session, interest, arrived, queue, owed, outbox>>

Stop ==
  /\ works
  /\ works' = FALSE
  /\ UNCHANGED <<session, interest, arrived, queue, current, owed, outbox>>

Next ==
  \/ Finish
  \/ \E topic \in Topics : Arrive(topic)
  \/ Publish
  \/ \E p \in Procs : HandOut(p)
  \/ Stop
  \/ \E id \in SubIds, t \in Patterns : Subscribe(id, t) \/ Unsubscribe(id, t)
  \/ \E id \in SubIds : Detach(id) \/ \E p \in Procs : Attach(id, p)

Spec == Init /\ [][Next]_vars
=============================================================================
