------------------------------ MODULE Broker_proofs ------------------------------
(***************************************************************************)
(* Proofs about what the application promises its users.  The datagrams are *)
(* handed out in order, to exactly the connections subscribed to them,      *)
(* once.  The application implements Broker: every step of it is a step of  *)
(* the broker, seen through the refinement mapping Promise, or none.  For   *)
(* users who wait until the server has read the id and processes that end   *)
(* with CLOSE_SUB_MSG (Faults = {}; it is false without) everybody is       *)
(* registered as himself, and if the ids fit into their field (Overlong =   *)
(* {}) what the server has stored for an id, with the commands still in its *)
(* connection, is what its user asked for.                                  *)
(***************************************************************************)
EXTENDS ClientServerApp_proofs, Iteration_proofs, FiniteSetTheorems

-----------------------------------------------------------------------------
(* The datagrams.                                                           *)

(* The session p is subscribed to the datagram at a node from lo on.        *)
SubscribedFrom(p, lo) ==
  \E k \in lo..Len(subs) : SessionOf(p, k) /\ is_subscribed(subs[k].topics, dgram.topic)

-----------------------------------------------------------------------------
(* Every connected record has a process of its own behind it, also while    *)
(* the server stops.                                                        *)
LEMMA RecordFacts ==
  ASSUME IInv, ServerUp
  PROVE  /\ subs \in Seq([id : SubIds, sock_fd : Fds \cup {NoFd}, topics : SUBSET Storable])
         /\ Len(subs) \in Nat /\ DOMAIN subs = 1..Len(subs)
         /\ \A k \in 1..Len(subs) : subs[k].id \in SubIds /\ subs[k].topics \subseteq Storable
         /\ \A k \in 1..Len(subs) : Connected(k) =>
              /\ subs[k].sock_fd \in Fds
              /\ subs_by_fd[subs[k].sock_fd] = k
              /\ sock[subs[k].sock_fd] \in Procs
<1> DEFINE Sub == [id : SubIds, sock_fd : Fds \cup {NoFd}, topics : SUBSET Storable]
<1>1. subs \in Seq(Sub) /\ sock \in [Fds -> Procs \cup {NoProc}]
  BY DEF IInv, TypeOK, SocketsTypeOK, ServerTypeOK
<1>2. Len(subs) \in Nat /\ DOMAIN subs = 1..Len(subs) /\ \A k \in 1..Len(subs) : subs[k] \in Sub
  <2> HIDE DEF Sub
  <2> QED BY <1>1, LenProperties, ElementOfSeq
<1>3. \A k \in 1..Len(subs) : Connected(k) =>
        /\ subs[k].sock_fd \in Fds
        /\ subs_by_fd[subs[k].sock_fd] = k
        /\ sock[subs[k].sock_fd] \in Procs
  BY <1>1, <1>2 DEF IInv, SessionsOpen, Connected
<1> QED BY <1>1, <1>2, <1>3

LEMMA OneRecordPerProcess ==
  ASSUME IInv, ConnectionsOnce, ServerUp, NEW p \in Procs,
         NEW k \in 1..Len(subs), NEW h \in 1..Len(subs), SessionOf(p, k), SessionOf(p, h)
  PROVE  k = h
<1> DEFINE fd == subs[k].sock_fd
           gd == subs[h].sock_fd
<1>1. /\ fd \in Fds /\ subs_by_fd[fd] = k /\ sock[fd] = p
      /\ gd \in Fds /\ subs_by_fd[gd] = h /\ sock[gd] = p
  BY RecordFacts DEF SessionOf
<1>2. fd = gd
  <2> HIDE DEF fd, gd
  <2> QED BY <1>1, SocketsAssumption DEF ConnectionsOnce
<1> QED BY <1>1, <1>2

-----------------------------------------------------------------------------
(* What the steps other than the arrival, the receipt and the handing out   *)
(* of datagrams keep.                                                       *)
LEMMA DatagramsKept ==
  ASSUME DeliveryInv, UNCHANGED <<udp, log, arrived, dgram>>,
         pc' \in {"exited", "died"} \/ (ServerUp /\ pc # "fanout" /\ pc' # "fanout")
  PROVE  DeliveryInv'
<1>1. Numbered'
  BY DEF DeliveryInv, Numbered
<1>2. HandedOut'
  BY DEF DeliveryInv, HandedOut, ServerUp
<1>3. DeliveryInOrder'
  BY DEF DeliveryInv, DeliveryInOrder
<1> QED BY <1>1, <1>2, <1>3 DEF DeliveryInv

LEMMA OthersDelivery ==
  ASSUME DeliveryInv, UNCHANGED <<udp, log, arrived, dgram, pc, cur, subs, sock>>
  PROVE  DeliveryInv'
<1>1. Numbered'
  BY DEF DeliveryInv, Numbered
<1>2. HandedOut'
  BY DEF DeliveryInv, HandedOut, SessionOf, Connected
<1>3. DeliveryInOrder'
  BY DEF DeliveryInv, DeliveryInOrder
<1> QED BY <1>1, <1>2, <1>3 DEF DeliveryInv

LEMMA SubscriberDelivery ==
  ASSUME DeliveryInv, NEW p \in Procs, SubscriberStep(p)
  PROVE  DeliveryInv'
<1>1. UNCHANGED <<udp, sock, srvVars, arrived>>
  BY DEF SubscriberStep, SubscriberNext, Connect, SendId, sub_HandleStdin, HandleServerMsg,
         sub_BlockedSendFails, sub_Exit, Crash
<1> QED BY <1>1, OthersDelivery DEF srvVars

Increasing(s) == \A m, n \in DOMAIN s : m < n => s[m] < s[n]

Below(s, v) == \A m \in DOMAIN s : s[m] < v

(* t is s and the greater value v.                                          *)
Extended(s, v, t) ==
  /\ Increasing(t)
  /\ \A m \in DOMAIN t : t[m] <= v
  /\ \E m \in DOMAIN t : t[m] = v
  /\ \A m \in DOMAIN t : t[m] = v \/ \E n \in DOMAIN s : s[n] = t[m]

(* Appending a value greater than all the others keeps a sequence in order. *)
LEMMA AppendGreater ==
  ASSUME NEW s \in Seq(Nat), NEW v \in Nat, NEW t, t = Append(s, v),
         Increasing(s), Below(s, v)
  PROVE  Extended(s, v, t)
<1>1. /\ Len(s) \in Nat /\ DOMAIN s = 1..Len(s)
      /\ \A m \in 1..Len(s) : s[m] \in Nat
  BY LenProperties, ElementOfSeq
<1>2. /\ DOMAIN t = 1..(Len(s) + 1)
      /\ \A m \in 1..Len(s) : t[m] = s[m]
      /\ t[Len(s) + 1] = v
  BY AppendProperties, LenProperties
<1>3. \A m \in 1..(Len(s) + 1) : m \in 1..Len(s) \/ m = Len(s) + 1
  BY <1>1
<1>4. \A m \in 1..Len(s) : m \in 1..(Len(s) + 1) /\ m < Len(s) + 1
  BY <1>1
<1>5. Len(s) + 1 \in 1..(Len(s) + 1) /\ \A m \in 1..Len(s) : ~(Len(s) + 1 < m)
  BY <1>1
<1>6. \A m \in 1..Len(s) : s[m] < v /\ s[m] <= v
  BY <1>1 DEF Below
<1> DEFINE last == Len(s) + 1
<1>7. ASSUME NEW m \in 1..last, NEW n \in 1..last, m < n
      PROVE  t[m] < t[n]
  <2>1. m \in 1..Len(s)
    BY <1>1, <1>7
  <2>2. CASE n \in 1..Len(s)
    BY <1>1, <1>2, <1>7, <2>1, <2>2 DEF Increasing
  <2>3. CASE n = last
    BY <1>1, <1>2, <1>6, <2>1, <2>3
  <2> QED BY <1>3, <2>2, <2>3
<1>8. \A m \in 1..last : t[m] <= v
  BY <1>1, <1>2, <1>3, <1>6 DEF Below
<1>9. /\ \E m \in 1..last : t[m] = v
      /\ \A m \in 1..last : t[m] = v \/ \E n \in 1..Len(s) : s[n] = t[m]
  BY <1>2, <1>3, <1>4, <1>5
<1> QED BY <1>1, <1>2, <1>7, <1>8, <1>9 DEF Increasing, Extended

LEMMA UdpArrivalDelivery ==
  ASSUME IInv, DeliveryInv, UdpArrival
  PROVE  DeliveryInv'
<1> DEFINE new(topic) == [n |-> arrived + 1, topic |-> topic]
<1>1. PICK topic \in Topics : udp' = Append(udp, new(topic))
  BY DEF UdpArrival
<1>2. /\ udp \in Seq(DownMsg) /\ new(topic) \in DownMsg
      /\ arrived \in Nat /\ arrived' = arrived + 1
      /\ log \in [Procs -> Seq(Nat)]
      /\ UNCHANGED <<pc, dgram, cur, subs, sock, log>>
  BY DEF IInv, TypeOK, SocketsTypeOK, ServerTypeOK, DownMsg, UdpArrival, srvVars
<1>3. /\ Len(udp) \in Nat /\ DOMAIN udp = 1..Len(udp)
      /\ DOMAIN udp' = 1..(Len(udp) + 1)
      /\ \A n \in 1..Len(udp) : udp'[n] = udp[n]
      /\ udp'[Len(udp) + 1] = new(topic)
  <2> HIDE DEF new
  <2> QED BY <1>1, <1>2, AppendProperties, LenProperties
<1>4. \A n \in 1..(Len(udp) + 1) : n \in 1..Len(udp) \/ n = Len(udp) + 1
  BY <1>3
<1>5. \A p \in Procs : \A m \in DOMAIN log[p] : log[p][m] \in Nat
  BY <1>2, LenProperties, ElementOfSeq
<1>6. /\ \A n \in 1..Len(udp) : udp[n].n \in 1..arrived /\ udp[n].topic \in Topics
      /\ \A m, n \in 1..Len(udp) : m < n => udp[m].n < udp[n].n
      /\ \A p \in Procs : \A m \in DOMAIN log[p] :
           log[p][m] <= arrived /\ \A n \in 1..Len(udp) : log[p][m] < udp[n].n
  BY <1>3 DEF DeliveryInv, Numbered
<1>7. Numbered'
  <2>1. \A n \in DOMAIN udp' : udp'[n].n \in 1..arrived' /\ udp'[n].topic \in Topics
    BY <1>2, <1>3, <1>4, <1>6
  <2>2. \A m, n \in DOMAIN udp' : m < n => udp'[m].n < udp'[n].n
    <3> SUFFICES ASSUME NEW m \in DOMAIN udp', NEW n \in DOMAIN udp', m < n
                 PROVE  udp'[m].n < udp'[n].n
      OBVIOUS
    <3>1. m \in 1..Len(udp)
      BY <1>3
    <3>2. CASE n \in 1..Len(udp)
      BY <1>3, <1>6, <3>1, <3>2
    <3>3. CASE n = Len(udp) + 1
      BY <1>2, <1>3, <1>6, <3>1, <3>3
    <3> QED BY <1>3, <1>4, <3>2, <3>3
  <2>3. \A p \in Procs : \A m \in DOMAIN log[p] :
          /\ log[p][m] <= arrived + 1
          /\ \A n \in DOMAIN udp' : log[p][m] < udp'[n].n
    BY <1>2, <1>3, <1>4, <1>5, <1>6
  <2> QED BY <1>2, <2>1, <2>2, <2>3 DEF Numbered
<1>8. HandedOut'
  <2>1. pc = "fanout" => \A n \in DOMAIN udp' : dgram.n < udp'[n].n
    <3> SUFFICES ASSUME pc = "fanout", NEW n \in DOMAIN udp' PROVE dgram.n < udp'[n].n
      OBVIOUS
    <3>1. dgram.n \in 1..arrived /\ \A m \in 1..Len(udp) : dgram.n < udp[m].n
      BY <1>3 DEF DeliveryInv, HandedOut
    <3> QED BY <1>2, <1>3, <1>4, <3>1
  <2>2. pc = "fanout" => dgram.n \in 1..(arrived + 1)
    BY <1>2 DEF DeliveryInv, HandedOut
  <2> QED BY <1>2, <2>1, <2>2 DEF DeliveryInv, HandedOut, SessionOf, Connected
<1>9. DeliveryInOrder'
  BY <1>2 DEF DeliveryInv, DeliveryInOrder
<1> QED BY <1>7, <1>8, <1>9 DEF DeliveryInv

-----------------------------------------------------------------------------
(* handle_udp_msg, the receipt: nobody has been sent the datagram yet.      *)
LEMMA HandleUdpDelivery ==
  ASSUME IInv, DeliveryInv, HandleUdp, Others
  PROVE  DeliveryInv'
<1>1. /\ pc = "pass" /\ InLoopOfMain
      /\ udp \in Seq(DownMsg) /\ udp # <<>>
      /\ udp' = Tail(udp)
      /\ UNCHANGED <<log, arrived, subs, sock>>
      /\ arrived \in Nat
      /\ log \in [Procs -> Seq(Nat)]
  BY DEF HandleUdp, InLoopOfMain, Others, IInv, TypeOK, SocketsTypeOK, ServerTypeOK, ReportedIsReady
<1>2. /\ Head(udp) = udp[1] /\ 1 \in DOMAIN udp
      /\ \A n \in DOMAIN udp' :
           /\ n + 1 \in DOMAIN udp /\ udp'[n] = udp[n + 1]
           /\ n \in Nat /\ 1 < n + 1
  BY <1>1, HeadTailProperties, LenProperties
<1>3. \A m, n \in DOMAIN udp' : m < n => m + 1 < n + 1
  BY <1>2
<1>4. Numbered'
  <2>1. \A m, n \in DOMAIN udp' : m < n => udp'[m].n < udp'[n].n
    BY <1>2, <1>3 DEF DeliveryInv, Numbered
  <2> QED BY <1>1, <1>2, <2>1 DEF DeliveryInv, Numbered
<1>5. HandedOut'
  <2>1. CASE UNCHANGED <<pc, cur, dgram>>
    BY <1>1, <2>1 DEF DeliveryInv, HandedOut
  <2>2. CASE pc' = "fanout" /\ cur' = Len(subs) /\ dgram' = udp[1]
    <3>1. /\ dgram'.n \in 1..arrived /\ dgram'.topic \in Topics
          /\ \A n \in DOMAIN udp' : dgram'.n < udp'[n].n
      BY <1>2, <2>2 DEF DeliveryInv, Numbered
    <3>2. \A p \in Procs : \A m \in DOMAIN log[p] : log[p][m] \in Nat /\ log[p][m] < dgram'.n
      <4>1. \A p \in Procs : \A m \in DOMAIN log[p] : log[p][m] \in Nat
        BY <1>1, LenProperties, ElementOfSeq
      <4> QED BY <1>2, <2>2, <4>1 DEF DeliveryInv, Numbered
    <3>3. \A p \in Procs : \A m \in DOMAIN log[p] : log[p][m] <= dgram'.n /\ log[p][m] # dgram'.n
      BY <3>1, <3>2
    <3>4. \A k : k \notin (Len(subs) + 1)..Len(subs)
      <4>1. Len(subs) \in Nat
        BY <1>1, LoopFacts
      <4> QED BY <4>1
    <3> QED BY <1>1, <2>2, <3>1, <3>3, <3>4 DEF HandedOut
  <2> QED BY <1>2, <2>1, <2>2 DEF HandleUdp
<1>6. DeliveryInOrder'
  BY <1>1 DEF DeliveryInv, DeliveryInOrder
<1> QED BY <1>4, <1>5, <1>6 DEF DeliveryInv

(* handle_udp_msg, one node: afterwards the datagram has been sent to those *)
(* subscribed to it from this node on, and to nobody twice.                 *)
LEMMA FanoutNode ==
  ASSUME IInv, LoopInv, DeliveryInv, Fanout, Others, pc' # "died"
  PROVE  /\ Numbered' /\ DeliveryInOrder'
         /\ \A p \in Procs :
              /\ \A m \in DOMAIN log'[p] : log'[p][m] <= dgram.n
              /\ (\E m \in DOMAIN log'[p] : log'[p][m] = dgram.n) <=> SubscribedFrom(p, cur)
<1> DEFINE v == dgram.n
           p0 == sock[subs[cur].sock_fd]
<1>1. /\ pc = "fanout" /\ ServerUp
      /\ cur \in 1..Len(subs) /\ Len(subs) \in Nat
      /\ log \in [Procs -> Seq(Nat)]
      /\ arrived \in Nat
      /\ v \in 1..arrived
      /\ UNCHANGED <<udp, arrived>>
  BY RecordFacts DEF Fanout, ServerUp, IInv, TypeOK, ServerTypeOK, CursorInRange, Others,
                     DeliveryInv, HandedOut
<1>2. \A p \in Procs :
        /\ \A m \in DOMAIN log[p] : log[p][m] \in Nat /\ log[p][m] <= v
        /\ (\E m \in DOMAIN log[p] : log[p][m] = v) <=> SubscribedFrom(p, cur + 1)
        /\ \A m, n \in DOMAIN log[p] : m < n => log[p][m] < log[p][n]
  <2>1. \A p \in Procs : \A m \in DOMAIN log[p] : log[p][m] \in Nat
    BY <1>1, LenProperties, ElementOfSeq
  <2> QED BY <1>1, <2>1 DEF DeliveryInv, HandedOut, DeliveryInOrder, SubscribedFrom
<1>3. \A p \in Procs :
        SubscribedFrom(p, cur) <=> SubscribedFrom(p, cur + 1) \/ (Eligible(cur) /\ p = p0)
  <2>1. \A k : k \in cur..Len(subs) <=> k = cur \/ k \in (cur + 1)..Len(subs)
    BY <1>1
  <2>2. \A p \in Procs : (SessionOf(p, cur) /\ is_subscribed(subs[cur].topics, dgram.topic))
                           <=> (Eligible(cur) /\ p = p0)
    BY DEF SessionOf, Eligible
  <2> QED BY <2>1, <2>2 DEF SubscribedFrom
<1>4. CASE ~Eligible(cur) /\ log' = log
  <2>1. Numbered' /\ DeliveryInOrder'
    BY <1>1, <1>4 DEF DeliveryInv, Numbered, DeliveryInOrder
  <2> QED BY <1>2, <1>3, <1>4, <2>1
<1>5. CASE Eligible(cur) /\ log' = [log EXCEPT ![p0] = Append(@, v)]
  <2>1. p0 \in Procs
    BY <1>1, <1>5, RecordFacts DEF Eligible
  <2>2. ~SubscribedFrom(p0, cur + 1)
    <3> SUFFICES ASSUME NEW k \in (cur + 1)..Len(subs), SessionOf(p0, k) PROVE FALSE
      BY DEF SubscribedFrom
    <3>1. k \in 1..Len(subs) /\ k # cur
      BY <1>1
    <3>2. SessionOf(p0, cur)
      BY <1>5 DEF SessionOf, Eligible
    <3> HIDE DEF p0
    <3> QED BY <1>1, <2>1, <3>1, <3>2, OneRecordPerProcess DEF LoopInv
  <2> HIDE DEF p0, v
  <2>3. log[p0] \in Seq(Nat) /\ v \in Nat /\ \A m \in DOMAIN log[p0] : log[p0][m] < v
    <3>1. \A m \in DOMAIN log[p0] : log[p0][m] # v
      BY <1>2, <2>1, <2>2
    <3> QED BY <1>1, <1>2, <2>1, <3>1
  <2>4. /\ log'[p0] = Append(log[p0], v)
        /\ \A p \in Procs : p # p0 => log'[p] = log[p]
    BY <1>1, <1>5, <2>1
  <2>5. /\ \A m, n \in DOMAIN log'[p0] : m < n => log'[p0][m] < log'[p0][n]
        /\ \A m \in DOMAIN log'[p0] : log'[p0][m] <= v
        /\ \E m \in DOMAIN log'[p0] : log'[p0][m] = v
        /\ \A m \in DOMAIN log'[p0] :
             log'[p0][m] = v \/ \E n \in DOMAIN log[p0] : log[p0][n] = log'[p0][m]
    <3>1. Increasing(log[p0])
      BY <1>2, <2>1 DEF Increasing
    <3>2. Below(log[p0], v)
      BY <2>3 DEF Below
    <3>3. Extended(log[p0], v, log'[p0])
      BY <2>3, <2>4, <3>1, <3>2, AppendGreater
    <3> QED BY <3>3 DEF Increasing, Extended
  <2>6. DeliveryInOrder'
    BY <1>2, <2>4, <2>5 DEF DeliveryInOrder
  <2>7. \A p \in Procs : \A m \in DOMAIN log'[p] :
          log'[p][m] = v \/ \E n \in DOMAIN log[p] : log[p][n] = log'[p][m]
    BY <2>4, <2>5
  <2>8. \A n \in DOMAIN udp : v < udp[n].n
    BY <1>1 DEF DeliveryInv, HandedOut, v
  <2>9. Numbered'
    <3>1. \A p \in Procs : \A m \in DOMAIN log'[p] :
            log'[p][m] <= arrived /\ \A n \in DOMAIN udp : log'[p][m] < udp[n].n
      <4>1. v <= arrived
        BY <1>1 DEF v
      <4>2. \A p \in Procs : \A m \in DOMAIN log[p] :
              log[p][m] <= arrived /\ \A n \in DOMAIN udp : log[p][m] < udp[n].n
        BY DEF DeliveryInv, Numbered
      <4> QED BY <2>7, <2>8, <4>1, <4>2
    <3> QED BY <1>1, <3>1 DEF DeliveryInv, Numbered
  <2>10. \A p \in Procs :
           /\ \A m \in DOMAIN log'[p] : log'[p][m] <= v
           /\ (\E m \in DOMAIN log'[p] : log'[p][m] = v) <=> SubscribedFrom(p, cur)
    BY <1>2, <1>3, <1>5, <2>4, <2>5
  <2> QED BY <2>6, <2>9, <2>10 DEF v
<1> QED BY <1>4, <1>5 DEF Fanout

LEMMA FanoutDelivery ==
  ASSUME IInv, LoopInv, DeliveryInv, Fanout, Others
  PROVE  DeliveryInv'
<1>1. CASE pc' = "died"
  BY <1>1, DatagramsKept DEF Fanout, Others, NextNode
<1>2. CASE pc' # "died"
  <2>1. Numbered' /\ DeliveryInOrder'
    BY <1>2, FanoutNode
  <2>2. /\ UNCHANGED <<udp, arrived, subs, sock>>
        /\ pc = "fanout" /\ cur \in 1..Len(subs)
        /\ NextNode
    BY <1>2 DEF Fanout, Others, IInv, CursorInRange
  <2>3. HandedOut'
    <3>1. CASE cur = 1
      BY <2>2, <3>1 DEF HandedOut, NextNode
    <3>2. CASE cur # 1
      <4>1. pc' = "fanout" /\ dgram' = dgram /\ cur' + 1 = cur
        BY <2>2, <3>2 DEF NextNode
      <4>2. \A p \in Procs :
              /\ \A m \in DOMAIN log'[p] : log'[p][m] <= dgram.n
              /\ (\E m \in DOMAIN log'[p] : log'[p][m] = dgram.n) <=> SubscribedFrom(p, cur)
        BY <1>2, FanoutNode
      <4>3. /\ dgram.n \in 1..arrived /\ dgram.topic \in Topics
            /\ \A n \in DOMAIN udp : dgram.n < udp[n].n
        BY <2>2 DEF DeliveryInv, HandedOut
      <4> QED BY <2>2, <4>1, <4>2, <4>3 DEF HandedOut, SubscribedFrom, SessionOf, Connected
    <3> QED BY <3>1, <3>2
  <2> QED BY <2>1, <2>3 DEF DeliveryInv
<1> QED BY <1>1, <1>2

LEMMA ServerDelivery ==
  ASSUME IInv, LoopInv, DeliveryInv, ServerStep
  PROVE  DeliveryInv'
<1>1. Others
  BY DEF ServerStep, Others
<1>2. CASE Poll
  BY <1>1, <1>2, DatagramsKept DEF Poll, sockVars, Others, ServerUp
<1>3. CASE HandleStdin
  BY <1>1, <1>3, DatagramsKept DEF HandleStdin, Die, Others, ServerUp
<1>4. CASE StopProgram \/ CloseStopped
  BY <1>1, <1>4, DatagramsKept DEF StopProgram, CloseStopped, Others, ServerUp
<1>5. CASE HandleUdp
  BY <1>1, <1>5, HandleUdpDelivery
<1>6. CASE Fanout
  BY <1>1, <1>6, FanoutDelivery
<1>7. CASE HandleListen
  BY <1>1, <1>7, DatagramsKept DEF HandleListen, Die, Others, ServerUp
<1>8. CASE ReceiveId \/ CloseRefused
  BY <1>1, <1>8, DatagramsKept DEF ReceiveId, Registered, CloseRefused, Others, ServerUp
<1>9. ASSUME NEW j \in 1..Len(pfds), HandleSubMsg(j)
      PROVE  DeliveryInv'
  BY <1>1, <1>9, DatagramsKept DEF HandleSubMsg, Die, Others, ServerUp
<1>10. CASE BlockedSendFails
  BY <1>1, <1>10, DatagramsKept DEF BlockedSendFails, Die, Others
<1> QED BY <1>2, <1>3, <1>4, <1>5, <1>6, <1>7, <1>8, <1>9, <1>10 DEF ServerStep, ServerNext

-----------------------------------------------------------------------------
LEMMA InitDelivery == Init => DeliveryInv
<1> SUFFICES ASSUME Init PROVE DeliveryInv
  OBVIOUS
<1>1. /\ udp = <<>> /\ log = [p \in Procs |-> <<>>]
      /\ pc = "pass" /\ dgram = NoDgram
      /\ \A n \in DOMAIN udp : FALSE
      /\ \A p \in Procs : \A m \in DOMAIN log[p] : FALSE
  BY DEF Init, SocketsInit, ServerInit
<1> QED BY <1>1 DEF DeliveryInv, Numbered, HandedOut, DeliveryInOrder

(* What was sent and what waits stays ordered, and the traversal of the     *)
(* list keeps track of exactly those who have got the datagram.             *)
THEOREM DeliveryInvariance == Spec => []DeliveryInv
<1>1. Init => DeliveryInv
  BY InitDelivery
<1>2. UNCHANGED vars /\ DeliveryInv => DeliveryInv'
  BY OthersDelivery DEF vars, sockVars, srvVars
<1>3. TypeLine /\ DeliveryInv => DeliveryInv'
  BY OthersDelivery DEF TypeLine, srvVars
<1>4. IInv /\ LoopInv /\ DeliveryInv /\ [Next]_vars => DeliveryInv'
  BY <1>2, <1>3, ServerDelivery, SubscriberDelivery, UdpArrivalDelivery DEF Next
<1> QED BY <1>1, <1>4, Invariance, LoopInvariance, PTL DEF Spec

(* A process is sent datagrams in the order in which they reached the       *)
(* server, none of them twice (handle_udp_msg).                             *)
THEOREM DeliveredInOrder == Spec => []DeliveryInOrder
<1>1. DeliveryInv => DeliveryInOrder
  BY DEF DeliveryInv
<1> QED BY <1>1, DeliveryInvariance, PTL

(* A value occurs at most once in a sequence that increases.                *)
LEMMA OccursOnce ==
  ASSUME NEW s \in Seq(Nat), NEW v,
         \A m, n \in DOMAIN s : m < n => s[m] < s[n]
  PROVE  Cardinality({n \in DOMAIN s : s[n] = v}) =
           IF \E n \in DOMAIN s : s[n] = v THEN 1 ELSE 0
<1>1. /\ DOMAIN s \subseteq Nat
      /\ \A m \in DOMAIN s : s[m] \in Nat
  BY LenProperties, ElementOfSeq
<1>2. \A m, n \in DOMAIN s : s[m] = s[n] => m = n
  <2> SUFFICES ASSUME NEW m \in DOMAIN s, NEW n \in DOMAIN s, s[m] = s[n], m # n PROVE FALSE
    OBVIOUS
  <2>1. m < n \/ n < m
    BY <1>1
  <2> QED BY <1>1, <2>1
<1>3. CASE \E n \in DOMAIN s : s[n] = v
  <2>1. PICK n \in DOMAIN s : s[n] = v
    BY <1>3
  <2>2. {m \in DOMAIN s : s[m] = v} = {n}
    BY <1>2, <2>1
  <2> QED BY <1>3, <2>2, FS_Singleton
<1>4. CASE ~\E n \in DOMAIN s : s[n] = v
  <2>1. {m \in DOMAIN s : s[m] = v} = {}
    BY <1>4
  <2> QED BY <1>4, <2>1, FS_EmptySet
<1> QED BY <1>3, <1>4

LEMMA FanoutEndsExactly ==
  ASSUME IInv, LoopInv, DeliveryInv, Fanout, Others, FanoutEnds, NEW p \in Procs, log'[p] \in Seq(Nat)
  PROVE  Cardinality({n \in DOMAIN log'[p] : log'[p][n] = dgram.n}) =
           IF \E k \in DOMAIN subs :
                SessionOf(p, k) /\ is_subscribed(subs[k].topics, dgram.topic)
           THEN 1 ELSE 0
<1>1. cur = 1 /\ DOMAIN subs = 1..Len(subs)
  <2>1. NextNode /\ ServerUp
    BY DEF Fanout, FanoutEnds, ServerUp
  <2> QED BY <2>1, RecordFacts DEF NextNode, FanoutEnds
<1>2. (\E m \in DOMAIN log'[p] : log'[p][m] = dgram.n) <=> SubscribedFrom(p, 1)
  BY <1>1, FanoutNode DEF FanoutEnds
<1>3. \A m, n \in DOMAIN log'[p] : m < n => log'[p][m] < log'[p][n]
  <2>1. DeliveryInOrder'
    BY FanoutNode DEF FanoutEnds
  <2> QED BY <2>1 DEF DeliveryInOrder
<1>4. Cardinality({n \in DOMAIN log'[p] : log'[p][n] = dgram.n}) =
        IF \E n \in DOMAIN log'[p] : log'[p][n] = dgram.n THEN 1 ELSE 0
  BY <1>3, OccursOnce
<1> QED BY <1>1, <1>2, <1>4 DEF SubscribedFrom

(* When the traversal of handle_udp_msg ends, every connection subscribed   *)
(* to the datagram has been sent it exactly once and no other at all, for   *)
(* any number of subscribers, patterns and datagrams, whoever exits, is     *)
(* killed or blocks the server in between.                                  *)
THEOREM FanoutOnce == Spec => FanoutExactlyOnce
<1> DEFINE Exactly ==
      FanoutEnds =>
        \A p \in Procs :
          Cardinality({n \in DOMAIN log'[p] : log'[p][n] = dgram.n}) =
            IF \E k \in DOMAIN subs :
                 SessionOf(p, k) /\ is_subscribed(subs[k].topics, dgram.topic)
            THEN 1 ELSE 0
<1>1. ASSUME IInv, IInv', LoopInv, DeliveryInv, [Next]_vars
      PROVE  [Exactly]_vars
  <2> SUFFICES ASSUME FanoutEnds, NEW p \in Procs
               PROVE  Cardinality({n \in DOMAIN log'[p] : log'[p][n] = dgram.n}) =
                        IF \E k \in DOMAIN subs :
                             SessionOf(p, k) /\ is_subscribed(subs[k].topics, dgram.topic)
                        THEN 1 ELSE 0
    OBVIOUS
  <2>1. log'[p] \in Seq(Nat)
    BY <1>1 DEF IInv, TypeOK, ServerTypeOK
  <2>2. Fanout /\ Others
    <3>1. ServerStep
      <4>1. pc' # pc
        BY DEF FanoutEnds
      <4>2. \A q \in Procs : SubscriberStep(q) => pc' = pc
        BY DEF SubscriberStep, srvVars
      <4>3. UdpArrival \/ TypeLine \/ UNCHANGED vars => pc' = pc
        BY DEF UdpArrival, TypeLine, vars, srvVars
      <4> QED BY <1>1, <4>1, <4>2, <4>3 DEF Next
    <3>2. Fanout
      BY <3>1 DEF ServerStep, ServerNext, FanoutEnds, Poll, HandleStdin, StopProgram, CloseStopped,
                  HandleUdp, HandleListen, ReceiveId, CloseRefused, HandleSubMsg,
                  BlockedSendFails, Die
    <3> QED BY <3>1, <3>2 DEF ServerStep, Others
  <2> QED BY <1>1, <2>1, <2>2, FanoutEndsExactly
<1>2. Spec => [][Exactly]_vars
  BY <1>1, Invariance, LoopInvariance, DeliveryInvariance, PTL DEF Spec
<1> QED BY <1>2, PTL DEF FanoutExactlyOnce

-----------------------------------------------------------------------------
(* The refinement.                                                          *)

(* The map of the ids also holds while the server stops.                    *)
IdsStay == ServerUp => IdsAgree

-----------------------------------------------------------------------------
LEMMA InitIds == Init => IdsStay
<1> SUFFICES ASSUME Init PROVE IdsAgree
  BY DEF IdsStay
<1>1. subs = <<>> /\ subs_by_id = [id \in SubIds |-> 0] /\ \A k \in DOMAIN subs : FALSE
  BY DEF Init, ServerInit
<1> QED BY <1>1 DEF IdsAgree

LEMMA NextIds ==
  ASSUME IInv, IInv', IdsStay, [Next]_vars
  PROVE  IdsStay'
<1>1. CASE InLoopOfMain'
  BY <1>1 DEF IInv, RegistryConsistent, IdsStay
<1>2. CASE ~ServerUp'
  BY <1>2 DEF IdsStay
<1>3. CASE UNCHANGED <<pc, subs, subs_by_id>>
  BY <1>3 DEF IdsStay, ServerUp, IdsAgree
<1>4. CASE HandleStdin
  BY <1>2, <1>4 DEF IdsStay, ServerUp, IdsAgree, HandleStdin, Die
<1>5. CASE StopProgram
  BY <1>2, <1>5 DEF IdsStay, ServerUp, IdsAgree, StopProgram
<1>6. CASE CloseStopped
  <2>1. ServerUp /\ IdsAgree
    BY <1>6 DEF CloseStopped, ServerUp, IdsStay
  <2>2. /\ DOMAIN subs' = DOMAIN subs
        /\ \A k \in DOMAIN subs : subs'[k].id = subs[k].id
    <3>1. subs' = [subs EXCEPT ![cur].sock_fd = NoFd]
      BY <1>6 DEF CloseStopped
    <3>2. \A k \in DOMAIN subs : k \in 1..Len(subs) /\ subs[k] \in
            [id : SubIds, sock_fd : Fds \cup {NoFd}, topics : SUBSET Storable]
      BY <2>1, RecordFacts, ElementOfSeq
    <3> QED BY <3>1, <3>2
  <2>3. subs_by_id' = subs_by_id
    BY <1>6 DEF CloseStopped
  <2> QED BY <2>1, <2>2, <2>3 DEF IdsStay, IdsAgree
<1>7. \/ UNCHANGED <<pc, subs, subs_by_id>>
      \/ InLoopOfMain' \/ ~ServerUp'
      \/ HandleStdin \/ StopProgram \/ CloseStopped
  <2>1. ASSUME Next
        PROVE  \/ ServerNext \/ UNCHANGED <<pc, subs, subs_by_id>>
    BY <2>1 DEF Next, ServerStep, SubscriberStep, UdpArrival, TypeLine, srvVars
  <2>2. ASSUME UNCHANGED vars
        PROVE  UNCHANGED <<pc, subs, subs_by_id>>
    BY <2>2 DEF vars, srvVars
  <2>3. ASSUME ServerNext
        PROVE  InLoopOfMain' \/ ~ServerUp' \/ HandleStdin \/ StopProgram \/ CloseStopped
    <3>1. Poll \/ HandleListen \/ ReceiveId \/ CloseRefused \/ HandleUdp \/ Fanout
            => InLoopOfMain' \/ ~ServerUp'
      BY DEF Poll, HandleListen, ReceiveId, Registered, CloseRefused, HandleUdp, Fanout, Die,
             NextNode, InLoopOfMain, ServerUp
    <3>2. ASSUME NEW j \in 1..Len(pfds), HandleSubMsg(j)
          PROVE  InLoopOfMain' \/ ~ServerUp'
      BY <3>2 DEF HandleSubMsg, Die, InLoopOfMain, ServerUp
    <3>3. BlockedSendFails => ~ServerUp'
      BY DEF BlockedSendFails, Die, ServerUp
    <3> QED BY <2>3, <3>1, <3>2, <3>3 DEF ServerNext
  <2> QED BY <2>1, <2>2, <2>3
<1> QED BY <1>1, <1>2, <1>3, <1>4, <1>5, <1>6, <1>7

THEOREM IdsInvariance == Spec => []IdsStay
<1>1. Init => IdsStay
  BY InitIds
<1>2. IInv /\ IInv' /\ IdsStay /\ [Next]_vars => IdsStay'
  BY NextIds
<1> QED BY <1>1, <1>2, Invariance, PTL DEF Spec

-----------------------------------------------------------------------------
(* The mapping.                                                             *)

(* What the tables say of an id and of a node of the list.                  *)
LEMMA MappingFacts ==
  ASSUME IInv, IdsStay, ServerUp
  PROVE  /\ \A id \in SubIds : subs_by_id[id] = 0 =>
              SessionOfId(id) = NoProc /\ InterestOfId(id) = {}
         /\ \A id \in SubIds : subs_by_id[id] # 0 =>
              subs_by_id[id] \in 1..Len(subs) /\ subs[subs_by_id[id]].id = id
         /\ \A k \in 1..Len(subs) :
              /\ subs[k].id \in SubIds /\ subs_by_id[subs[k].id] = k /\ k # 0
              /\ SessionOfId(subs[k].id) = IF Connected(k) THEN sock[subs[k].sock_fd] ELSE NoProc
              /\ InterestOfId(subs[k].id) = subs[k].topics
         /\ \A id, other \in SubIds :
              subs_by_id[id] # 0 /\ subs_by_id[id] = subs_by_id[other] => id = other
<1>1. IdsAgree /\ DOMAIN subs = 1..Len(subs) /\ Len(subs) \in Nat
  BY RecordFacts DEF IdsStay
<1>2. \A k \in 1..Len(subs) : subs[k].id \in SubIds
  BY RecordFacts
<1> QED BY <1>1, <1>2 DEF IdsAgree, SessionOfId, InterestOfId

(* A step that leaves the list, its map and the connections behind its      *)
(* records alone changes no session and no interest.                        *)
LEMMA MappingKept ==
  ASSUME IInv, IdsStay, ServerUp, UNCHANGED <<subs, subs_by_id>>,
         \A k \in 1..Len(subs) : Connected(k) => sock'[subs[k].sock_fd] = sock[subs[k].sock_fd]
  PROVE  Sessions' = Sessions /\ Interests' = Interests
<1>1. \A id \in SubIds : SessionOfId(id)' = SessionOfId(id)
  <2> SUFFICES ASSUME NEW id \in SubIds PROVE SessionOfId(id)' = SessionOfId(id)
    OBVIOUS
  <2>1. subs_by_id[id] # 0 => subs_by_id[id] \in 1..Len(subs)
    BY MappingFacts
  <2> QED BY <2>1 DEF SessionOfId, Connected
<1>2. \A id \in SubIds : InterestOfId(id)' = InterestOfId(id)
  BY DEF InterestOfId
<1> QED BY <1>1, <1>2 DEF Sessions, Interests

(* The same while the server is down: nothing changes there any more.       *)
LEMMA MappingFrozen ==
  ASSUME UNCHANGED <<subs, subs_by_id, sock>>
  PROVE  Sessions' = Sessions /\ Interests' = Interests
BY DEF Sessions, Interests, SessionOfId, InterestOfId, Connected

LEMMA OwedFrozen ==
  ASSUME UNCHANGED <<subs, sock, dgram, cur>>
  PROVE  Owed' = Owed
BY DEF Owed, SessionOf, Connected

(* Nothing is owed when no datagram is handed out.                          *)
LEMMA OwedNothing ==
  ASSUME dgram = NoDgram, dgram' = dgram
  PROVE  Owed = {} /\ Owed' = {}
BY DEF Owed

-----------------------------------------------------------------------------
(* What the mapping takes from the environment and the subscribers.         *)
LEMMA StutterBroker ==
  ASSUME UNCHANGED <<pc, subs, subs_by_id, sock, dgram, cur, log, udp, arrived>>
  PROVE  UNCHANGED Promise!vars
<1>1. ServerUp' = ServerUp
  BY DEF ServerUp
<1> QED BY <1>1, MappingFrozen, OwedFrozen DEF Promise!vars

LEMMA ArriveBroker ==
  ASSUME UdpArrival
  PROVE  Promise!Next
<1>1. PICK topic \in Topics : udp' = Append(udp, [n |-> arrived + 1, topic |-> topic])
  BY DEF UdpArrival
<1>2. /\ arrived' = arrived + 1
      /\ UNCHANGED <<pc, subs, subs_by_id, sock, dgram, cur, log>>
  BY DEF UdpArrival, srvVars
<1>3. ServerUp' = ServerUp
  BY <1>2 DEF ServerUp
<1>4. Promise!Arrive(topic)
  BY <1>1, <1>2, <1>3, MappingFrozen, OwedFrozen DEF Promise!Arrive
<1> QED BY <1>4 DEF Promise!Next

LEMMA DieBroker ==
  ASSUME ServerUp, pc' \in {"exited", "died"},
         UNCHANGED <<subs, subs_by_id, sock, dgram, cur, log, udp, arrived>>
  PROVE  Promise!Next
<1>1. ServerUp' = FALSE
  BY DEF ServerUp
<1>2. Promise!Stop
  BY <1>1, MappingFrozen, OwedFrozen DEF Promise!Stop
<1> QED BY <1>2 DEF Promise!Next

-----------------------------------------------------------------------------
(* Sessions begin and end.                                                  *)

LEMMA PollBroker ==
  ASSUME Poll, Others
  PROVE  UNCHANGED Promise!vars
BY StutterBroker DEF Poll, sockVars, Others

LEMMA HandleStdinBroker ==
  ASSUME IInv, IdsStay, DeliveryInv, HandleStdin, Others
  PROVE  Promise!Next \/ UNCHANGED Promise!vars
<1>1. ServerUp /\ pc = "pass"
  BY DEF HandleStdin, ServerUp
<1>2. CASE Die
  BY <1>1, <1>2, DieBroker DEF Die, Others
<1>3. CASE /\ pc' \in {"pass", "stopping"}
           /\ UNCHANGED <<subs, subs_by_id, sock, dgram, log, udp, arrived>>
  <2>1. ServerUp' = ServerUp
    BY <1>1, <1>3 DEF ServerUp
  <2>2. Sessions' = Sessions /\ Interests' = Interests
    BY <1>3, MappingFrozen
  <2>3. Owed' = Owed
    <3>1. dgram = NoDgram /\ dgram' = dgram
      BY <1>1, <1>3 DEF DeliveryInv, HandedOut
    <3> QED BY <3>1, OwedNothing
  <2> QED BY <1>3, <2>1, <2>2, <2>3 DEF Promise!vars
<1> QED BY <1>1, <1>2, <1>3 DEF HandleStdin, Others

(* The record k loses its connection.                                       *)
LEMMA DetachBroker ==
  ASSUME IInv, IdsStay, DeliveryInv, pc \in {"pass", "closing"}, pc' \in {"pass", "stopping"},
         NEW k \in 1..Len(subs), Connected(k),
         subs' = [subs EXCEPT ![k].sock_fd = NoFd],
         sock' = [sock EXCEPT ![subs[k].sock_fd] = NoProc],
         UNCHANGED <<subs_by_id, dgram, log, udp, arrived>>
  PROVE  Promise!Next
<1> DEFINE id == subs[k].id
<1>1. ServerUp /\ ServerUp' = ServerUp
  BY DEF ServerUp
<1>2. /\ dgram = NoDgram /\ dgram' = dgram
      /\ Owed' = Owed
  <2>1. dgram = NoDgram
    BY DEF DeliveryInv, HandedOut
  <2> QED BY <2>1, OwedNothing
<1>3. /\ sock \in [Fds -> Procs \cup {NoProc}]
      /\ subs[k].sock_fd \in Fds
      /\ \A h \in 1..Len(subs) : Connected(h) /\ h # k => subs[h].sock_fd # subs[k].sock_fd
      /\ \A h \in 1..Len(subs) : Connected(h) => subs[h].sock_fd \in Fds
  BY <1>1, RecordFacts DEF IInv, TypeOK, SocketsTypeOK
<1>4. /\ DOMAIN subs = 1..Len(subs)
      /\ \A h \in 1..Len(subs) :
           /\ subs'[h].topics = subs[h].topics
           /\ subs'[h].sock_fd = IF h = k THEN NoFd ELSE subs[h].sock_fd
  <2>1. \A h \in 1..Len(subs) : subs[h] \in [id : SubIds, sock_fd : Fds \cup {NoFd},
                                             topics : SUBSET Storable]
    BY <1>1, RecordFacts, ElementOfSeq
  <2>2. DOMAIN subs = 1..Len(subs)
    BY <1>1, RecordFacts
  <2> QED BY <2>1, <2>2
<1>5. /\ id \in SubIds /\ subs_by_id[id] = k
      /\ SessionOfId(id) # NoProc
      /\ \A other \in SubIds : subs_by_id[other] # 0 => subs_by_id[other] \in 1..Len(subs)
      /\ \A other \in SubIds : subs_by_id[other] = k => other = id
      /\ k # 0
  <2>1. SessionOfId(id) = sock[subs[k].sock_fd] /\ sock[subs[k].sock_fd] \in Procs
    BY <1>1, MappingFacts, RecordFacts
  <2> QED BY <1>1, <2>1, MappingFacts, SocketsAssumption
<1>6. \A other \in SubIds :
        SessionOfId(other)' = IF other = id THEN NoProc ELSE SessionOfId(other)
  <2> SUFFICES ASSUME NEW other \in SubIds
               PROVE  SessionOfId(other)' = IF other = id THEN NoProc ELSE SessionOfId(other)
    OBVIOUS
  <2> DEFINE h == subs_by_id[other]
  <2>1. SessionOfId(other)' = IF h # 0 /\ subs'[h].sock_fd # NoFd THEN sock'[subs'[h].sock_fd]
                                                                  ELSE NoProc
    BY DEF SessionOfId, Connected
  <2>2. SessionOfId(other) = IF h # 0 /\ subs[h].sock_fd # NoFd THEN sock[subs[h].sock_fd]
                                                                ELSE NoProc
    BY DEF SessionOfId, Connected
  <2>3. CASE other = id
    BY <1>4, <1>5, <2>1, <2>3
  <2>4. CASE other # id
    <3>1. h # k /\ (h # 0 => h \in 1..Len(subs))
      BY <1>5, <2>4
    <3>2. h # 0 /\ subs[h].sock_fd # NoFd => sock'[subs[h].sock_fd] = sock[subs[h].sock_fd]
      BY <1>3, <3>1 DEF Connected
    <3> HIDE DEF h, id
    <3> QED BY <1>4, <2>1, <2>2, <2>4, <3>1, <3>2
  <2> QED BY <2>3, <2>4
<1>7. Sessions' = [Sessions EXCEPT ![id] = NoProc]
  <2> HIDE DEF id
  <2> QED BY <1>5, <1>6 DEF Sessions
<1>8. Interests' = Interests
  <2>1. \A other \in SubIds : InterestOfId(other)' = InterestOfId(other)
    <3> HIDE DEF id
    <3> QED BY <1>4, <1>5 DEF InterestOfId
  <2> QED BY <2>1 DEF Interests
<1>9. Sessions[id] # NoProc
  BY <1>5 DEF Sessions
<1>10. Promise!Detach(id)
  <2> HIDE DEF id
  <2> QED BY <1>1, <1>2, <1>7, <1>8, <1>9 DEF Promise!Detach, Promise!Idle
<1> QED BY <1>5, <1>10 DEF Promise!Next

LEMMA StopProgramBroker ==
  ASSUME IInv, IdsStay, DeliveryInv, StopProgram, Others
  PROVE  Promise!Next \/ UNCHANGED Promise!vars
<1>1. /\ pc = "stopping" /\ ServerUp
      /\ UNCHANGED <<sock, subs, subs_by_id, dgram, log, udp, arrived>>
      /\ dgram = NoDgram
  BY DEF StopProgram, ServerUp, Others, DeliveryInv, HandedOut
<1>2. CASE pc' \in {"exited", "died"} /\ UNCHANGED cur
  BY <1>1, <1>2, DieBroker
<1>3. CASE pc' \in {"stopping", "closing"}
  <2>1. ServerUp' = ServerUp
    BY <1>1, <1>3 DEF ServerUp
  <2>2. Owed' = Owed
    BY <1>1, OwedNothing
  <2>3. Sessions' = Sessions /\ Interests' = Interests
    BY <1>1, MappingFrozen
  <2> QED BY <1>1, <2>1, <2>2, <2>3 DEF Promise!vars
<1> QED BY <1>1, <1>2, <1>3 DEF StopProgram

LEMMA CloseStoppedBroker ==
  ASSUME IInv, IdsStay, DeliveryInv, CloseStopped, Others
  PROVE  Promise!Next
<1>1. /\ pc = "closing" /\ pc' = "stopping"
      /\ UNCHANGED <<subs_by_id, dgram, log, udp, arrived>>
      /\ cur \in 1..Len(subs) /\ Connected(cur)
      /\ subs' = [subs EXCEPT ![cur].sock_fd = NoFd]
      /\ sock' = [sock EXCEPT ![subs[cur].sock_fd] = NoProc]
  BY DEF CloseStopped, srv_closes_sub_connection, Others, IInv, CursorInRange
<1> QED BY <1>1, DetachBroker

(* accept() takes a descriptor that no record has.                          *)
LEMMA HandleListenBroker ==
  ASSUME IInv, IdsStay, DeliveryInv, HandleListen, Others
  PROVE  Promise!Next \/ UNCHANGED Promise!vars
<1>1. ServerUp /\ pc = "pass" /\ dgram = NoDgram
  BY DEF HandleListen, ServerUp, DeliveryInv, HandedOut
<1>2. CASE Die
  BY <1>1, <1>2, DieBroker DEF Die, Others
<1>3. ASSUME NEW fd \in FreeFds,
             sock' = [sock EXCEPT ![fd] = Head(backlog)],
             pc' = "recv_id",
             UNCHANGED <<subs, subs_by_id, dgram, log, udp, arrived>>
      PROVE  UNCHANGED Promise!vars
  <2>1. \A k \in 1..Len(subs) : Connected(k) => sock'[subs[k].sock_fd] = sock[subs[k].sock_fd]
    <3>1. \A k \in 1..Len(subs) : Connected(k) =>
            subs[k].sock_fd \in Fds /\ sock[subs[k].sock_fd] # NoProc
      BY <1>1, RecordFacts, SocketsAssumption
    <3>2. sock[fd] = NoProc
      BY DEF FreeFds
    <3>3. sock \in [Fds -> Procs \cup {NoProc}]
      BY DEF IInv, TypeOK, SocketsTypeOK
    <3> QED BY <1>3, <3>1, <3>2, <3>3
  <2>2. Sessions' = Sessions /\ Interests' = Interests
    BY <1>1, <1>3, <2>1, MappingKept
  <2>3. ServerUp' = ServerUp
    BY <1>1, <1>3 DEF ServerUp
  <2>4. Owed' = Owed
    BY <1>1, <1>3, OwedNothing
  <2> QED BY <1>3, <2>2, <2>3, <2>4 DEF Promise!vars
<1> QED BY <1>2, <1>3 DEF HandleListen, Others

(* handle_listen_tcp_msg gives the process p, which has none, a session.    *)
LEMMA AttachBroker ==
  ASSUME ServerUp, pc' = "pass", dgram = NoDgram,
         NEW id \in SubIds, NEW p \in Procs,
         SessionOfId(id) = NoProc,
         \A other \in SubIds : SessionOfId(other) # p,
         \A other \in SubIds : SessionOfId(other)' = IF other = id THEN p ELSE SessionOfId(other),
         \A other \in SubIds : InterestOfId(other)' = InterestOfId(other),
         UNCHANGED <<dgram, log, udp, arrived>>
  PROVE  Promise!Next
<1>1. ServerUp' = ServerUp
  BY DEF ServerUp
<1>2. Sessions' = [Sessions EXCEPT ![id] = p] /\ Interests' = Interests
  BY DEF Sessions, Interests
<1>3. Owed' = Owed
  BY OwedNothing
<1>4. Sessions[id] = NoProc /\ \A other \in SubIds : Sessions[other] # p
  BY DEF Sessions
<1>5. Promise!Attach(id, p)
  BY <1>1, <1>2, <1>3, <1>4 DEF Promise!Attach, Promise!Idle
<1> QED BY <1>5 DEF Promise!Next

LEMMA ReceiveIdBroker ==
  ASSUME IInv, ConnectionsOnce, IdsStay, DeliveryInv, ReceiveId, Others
  PROVE  Promise!Next \/ UNCHANGED Promise!vars
<1> DEFINE p == sock[new_fd]
           Sub == [id : SubIds, sock_fd : Fds \cup {NoFd}, topics : SUBSET Storable]
<1>1. /\ ServerUp /\ InLoopOfMain /\ dgram = NoDgram
      /\ UNCHANGED <<sock, dgram, log, udp, arrived>>
  BY DEF ReceiveId, ServerUp, InLoopOfMain, DeliveryInv, HandedOut, Others
<1>2. /\ new_fd \in Fds /\ new_fd \notin PollFds /\ new_fd # NoFd
      /\ sock \in [Fds -> Procs \cup {NoProc}]
      /\ p \in Procs
      /\ subs_by_fd[new_fd] = 0
  BY <1>1, LoopFacts DEF DescriptorsAgree, PollAgrees, IInv, TypeOK, ServerTypeOK, ReceiveId
<1>3. \A k \in 1..Len(subs) : Connected(k) =>
        /\ subs[k].sock_fd \in Fds /\ subs[k].sock_fd # new_fd
        /\ sock[subs[k].sock_fd] # p
  <2>1. \A k \in 1..Len(subs) : Connected(k) =>
          /\ subs[k].sock_fd \in Fds /\ subs[k].sock_fd # new_fd
          /\ sock[subs[k].sock_fd] \in Procs
    <3>1. Len(subs) \in Nat
      BY <1>1, RecordFacts
    <3> QED BY <1>1, <1>2, <3>1, RecordFacts
  <2> QED BY <1>2, <2>1, SocketsAssumption DEF ConnectionsOnce
<1>4. \A other \in SubIds : SessionOfId(other) # p
  <2>1. \A other \in SubIds : subs_by_id[other] # 0 => subs_by_id[other] \in 1..Len(subs)
    BY <1>1, MappingFacts
  <2>2. p # NoProc
    BY <1>2, SocketsAssumption
  <2> HIDE DEF p
  <2> QED BY <1>3, <2>1, <2>2 DEF SessionOfId
<1>5. /\ subs \in Seq(Sub) /\ DOMAIN subs = 1..Len(subs) /\ Len(subs) \in Nat
      /\ \A k \in 1..Len(subs) : subs[k] \in Sub
      /\ subs_by_id \in [SubIds -> Nat]
  <2> HIDE DEF Sub
  <2> QED BY <1>1, RecordFacts, ElementOfSeq, LoopFacts DEF Sub
<1>6. PICK r \in ReadIds(p) :
        \/ /\ subs_by_id[r.id] = 0
           /\ add_new_sub(new_fd, r.id)
           /\ pc' = "pass"
        \/ /\ subs_by_id[r.id] # 0 /\ IsPast(subs_by_id[r.id])
           /\ revive_sub_connection(subs_by_id[r.id], new_fd)
           /\ pc' = "pass"
        \/ /\ pc' = "refusing"
           /\ UNCHANGED <<subs, subs_by_id>>
  BY Zenon DEF ReceiveId, Registered
<1>7. r.id \in SubIds
  BY <1>2, ReadIdsProperties
<1>8. ASSUME subs_by_id[r.id] = 0, add_new_sub(new_fd, r.id), pc' = "pass"
      PROVE  Promise!Next
  <2> DEFINE new == [id |-> r.id, sock_fd |-> new_fd, topics |-> {}]
             top == Len(subs) + 1
  <2>1. subs_by_id' = [subs_by_id EXCEPT ![r.id] = top]
    BY <1>8 DEF add_new_sub
  <2>2. /\ \A h \in 1..Len(subs) : subs'[h] = subs[h]
        /\ subs'[top] = new
    <3>1. new \in Sub /\ subs' = Append(subs, new)
      BY <1>2, <1>7, <1>8 DEF add_new_sub
    <3> HIDE DEF new, Sub
    <3> QED BY <1>5, <3>1, AppendProperties
  <2>3. \A other \in SubIds : other # r.id =>
          /\ subs_by_id'[other] = subs_by_id[other]
          /\ subs_by_id[other] # 0 => subs'[subs_by_id[other]] = subs[subs_by_id[other]]
    BY <1>1, <1>5, <2>1, <2>2, MappingFacts
  <2>4. subs_by_id'[r.id] = top /\ top # 0
    BY <1>5, <1>7, <2>1
  <2>5. SessionOfId(r.id) = NoProc /\ InterestOfId(r.id) = {}
    BY <1>1, <1>7, <1>8, MappingFacts
  <2>6. \A other \in SubIds :
          SessionOfId(other)' = IF other = r.id THEN p ELSE SessionOfId(other)
    BY <1>1, <1>2, <2>2, <2>3, <2>4 DEF SessionOfId, Connected
  <2>7. \A other \in SubIds : InterestOfId(other)' = InterestOfId(other)
    <3>1. subs'[top].topics = {}
      BY <2>2
    <3> HIDE DEF new, top
    <3>2. InterestOfId(r.id)' = {}
      BY <2>4, <3>1 DEF InterestOfId
    <3>3. \A other \in SubIds : other # r.id => InterestOfId(other)' = InterestOfId(other)
      BY <2>3 DEF InterestOfId
    <3> QED BY <2>5, <3>2, <3>3
  <2> HIDE DEF p
  <2> QED BY <1>1, <1>2, <1>4, <1>7, <1>8, <2>5, <2>6, <2>7, AttachBroker DEF p
<1>9. ASSUME subs_by_id[r.id] # 0, IsPast(subs_by_id[r.id]),
             revive_sub_connection(subs_by_id[r.id], new_fd), pc' = "pass"
      PROVE  Promise!Next
  <2> DEFINE k == subs_by_id[r.id]
  <2>1. /\ k \in 1..Len(subs) /\ k # 0
        /\ \A other \in SubIds : subs_by_id[other] = k => other = r.id
        /\ \A other \in SubIds : subs_by_id[other] # 0 => subs_by_id[other] \in 1..Len(subs)
    BY <1>1, <1>7, <1>9, MappingFacts
  <2>2. /\ subs_by_id' = subs_by_id
        /\ \A h \in 1..Len(subs) :
             /\ subs'[h].topics = subs[h].topics
             /\ subs'[h].sock_fd = IF h = k THEN new_fd ELSE subs[h].sock_fd
    <3>1. subs' = [subs EXCEPT ![k].sock_fd = new_fd] /\ subs_by_id' = subs_by_id
      BY <1>9 DEF revive_sub_connection
    <3> HIDE DEF k
    <3> QED BY <1>5, <2>1, <3>1
  <2>3. SessionOfId(r.id) = NoProc
    BY <1>9 DEF IsPast, SessionOfId
  <2>4. \A other \in SubIds :
          SessionOfId(other)' = IF other = r.id THEN p ELSE SessionOfId(other)
    <3> SUFFICES ASSUME NEW other \in SubIds
                 PROVE  SessionOfId(other)' = IF other = r.id THEN p ELSE SessionOfId(other)
      OBVIOUS
    <3> DEFINE h == subs_by_id[other]
    <3>1. SessionOfId(other)' = IF h # 0 /\ subs'[h].sock_fd # NoFd THEN sock[subs'[h].sock_fd]
                                                                    ELSE NoProc
      BY <1>1, <2>2 DEF SessionOfId, Connected
    <3>2. SessionOfId(other) = IF h # 0 /\ subs[h].sock_fd # NoFd THEN sock[subs[h].sock_fd]
                                                                  ELSE NoProc
      BY DEF SessionOfId, Connected
    <3>3. CASE other = r.id
      BY <1>2, <2>1, <2>2, <3>1, <3>3
    <3>4. CASE other # r.id
      <4>1. h # k /\ (h # 0 => h \in 1..Len(subs))
        BY <2>1, <3>4
      <4> HIDE DEF h, k
      <4> QED BY <2>2, <3>1, <3>2, <3>4, <4>1
    <3> QED BY <3>3, <3>4
  <2>5. \A other \in SubIds : InterestOfId(other)' = InterestOfId(other)
    <3> HIDE DEF k
    <3> QED BY <2>1, <2>2 DEF InterestOfId
  <2> HIDE DEF p
  <2> QED BY <1>1, <1>2, <1>4, <1>7, <1>9, <2>3, <2>4, <2>5, AttachBroker DEF p
<1>10. ASSUME pc' = "refusing", UNCHANGED <<subs, subs_by_id>>
       PROVE  UNCHANGED Promise!vars
  <2>1. Sessions' = Sessions /\ Interests' = Interests
    BY <1>1, <1>10, MappingFrozen
  <2>2. ServerUp' = ServerUp
    BY <1>1, <1>10 DEF ServerUp
  <2>3. Owed' = Owed
    BY <1>1, OwedNothing
  <2> QED BY <1>1, <2>1, <2>2, <2>3 DEF Promise!vars
<1> QED BY <1>6, <1>8, <1>9, <1>10

(* The refused connection has no record.                                    *)
LEMMA CloseRefusedBroker ==
  ASSUME IInv, IdsStay, DeliveryInv, CloseRefused, Others
  PROVE  UNCHANGED Promise!vars
<1>1. /\ ServerUp /\ InLoopOfMain /\ pc = "refusing" /\ pc' = "pass" /\ dgram = NoDgram
      /\ UNCHANGED <<subs, subs_by_id, dgram, log, udp, arrived>>
      /\ sock' = [sock EXCEPT ![new_fd] = NoProc]
  BY DEF CloseRefused, srv_closes_sub_connection, ServerUp, InLoopOfMain, DeliveryInv, HandedOut,
         Others
<1>2. /\ new_fd \in Fds
      /\ sock \in [Fds -> Procs \cup {NoProc}]
      /\ subs_by_fd[new_fd] = 0
  BY <1>1, LoopFacts DEF DescriptorsAgree, PollAgrees, IInv, TypeOK, ServerTypeOK
<1>3. \A k \in 1..Len(subs) : Connected(k) => sock'[subs[k].sock_fd] = sock[subs[k].sock_fd]
  <2>1. \A k \in 1..Len(subs) : Connected(k) =>
          subs[k].sock_fd \in Fds /\ subs[k].sock_fd # new_fd
    <3>1. Len(subs) \in Nat
      BY <1>1, RecordFacts
    <3> QED BY <1>1, <1>2, <3>1, RecordFacts
  <2> QED BY <1>1, <1>2, <2>1
<1>4. Sessions' = Sessions /\ Interests' = Interests
  BY <1>1, <1>3, MappingKept
<1>5. ServerUp' = ServerUp
  BY <1>1 DEF ServerUp
<1>6. Owed' = Owed
  BY <1>1, OwedNothing
<1> QED BY <1>1, <1>4, <1>5, <1>6 DEF Promise!vars

LEMMA CommandTopic ==
  ASSUME NEW m \in UpMsg, m.type \in {"subscribe", "unsubscribe"}
  PROVE  m.topic \in Storable
<1>1. CASE m \in {IdMsg, CloseMsg, OtherMsg}
  <2>1. m.type \in {"id", "close", "other"}
    BY <1>1 DEF IdMsg, CloseMsg, OtherMsg
  <2> QED BY <2>1
<1>2. CASE m \in [type : {"subscribe", "unsubscribe"}, topic : Storable]
  BY <1>2
<1> QED BY <1>1, <1>2 DEF UpMsg

(* handle_sub_msg for a command of the record k.                            *)
LEMMA CommandBroker ==
  ASSUME IInv, IdsStay, DeliveryInv, pc = "pass", pc' = pc,
         NEW k \in 1..Len(subs), Connected(k), NEW m \in UpMsg,
         subs' = [subs EXCEPT ![k].topics = NewTopics(@, m)],
         UNCHANGED <<sock, subs_by_id, dgram, log, udp, arrived>>
  PROVE  Promise!Next \/ UNCHANGED Promise!vars
<1> DEFINE id == subs[k].id
           topics == subs[k].topics
<1>1. ServerUp /\ ServerUp' = ServerUp
  BY DEF ServerUp
<1>2. dgram = NoDgram /\ Owed' = Owed
  <2>1. dgram = NoDgram
    BY DEF DeliveryInv, HandedOut
  <2> QED BY <2>1, OwedNothing
<1>3. /\ \A h \in 1..Len(subs) : /\ subs'[h].sock_fd = subs[h].sock_fd
                                 /\ h # k => subs'[h].topics = subs[h].topics
      /\ subs'[k].topics = NewTopics(topics, m)
  <2>1. \A h \in 1..Len(subs) : subs[h] \in [id : SubIds, sock_fd : Fds \cup {NoFd},
                                             topics : SUBSET Storable]
    BY <1>1, RecordFacts, ElementOfSeq
  <2>2. DOMAIN subs = 1..Len(subs)
    BY <1>1, RecordFacts
  <2> QED BY <2>1, <2>2
<1>4. /\ id \in SubIds /\ subs_by_id[id] = k /\ k # 0
      /\ \A other \in SubIds : subs_by_id[other] # 0 => subs_by_id[other] \in 1..Len(subs)
      /\ \A other \in SubIds : subs_by_id[other] = k => other = id
      /\ SessionOfId(id) # NoProc
  <2>1. SessionOfId(id) = sock[subs[k].sock_fd] /\ sock[subs[k].sock_fd] \in Procs
    BY <1>1, MappingFacts, RecordFacts
  <2> QED BY <1>1, <2>1, MappingFacts, SocketsAssumption
<1>5. Sessions' = Sessions
  <2>1. \A other \in SubIds : SessionOfId(other)' = SessionOfId(other)
    BY <1>3, <1>4 DEF SessionOfId, Connected
  <2> QED BY <2>1 DEF Sessions
<1>6. Interests' = [Interests EXCEPT ![id] = NewTopics(@, m)]
  <2>1. \A other \in SubIds : InterestOfId(other)' =
          IF other = id THEN NewTopics(InterestOfId(id), m) ELSE InterestOfId(other)
    <3> HIDE DEF id
    <3> QED BY <1>3, <1>4 DEF InterestOfId
  <2> HIDE DEF id
  <2> QED BY <1>4, <2>1 DEF Interests
<1>7. Sessions[id] # NoProc
  BY <1>4 DEF Sessions
<1> HIDE DEF id
<1>8. CASE m.type = "subscribe"
  <2>1. m.topic \in Storable
    BY <1>8, CommandTopic
  <2>2. Promise!Subscribe(id, m.topic)
    BY <1>1, <1>2, <1>5, <1>6, <1>7, <1>8 DEF NewTopics, Promise!Subscribe, Promise!Idle
  <2> QED BY <1>4, <2>1, <2>2 DEF Promise!Next
<1>9. CASE m.type = "unsubscribe"
  <2>1. m.topic \in Storable
    BY <1>9, CommandTopic
  <2>2. Promise!Unsubscribe(id, m.topic)
    BY <1>1, <1>2, <1>5, <1>6, <1>7, <1>9 DEF NewTopics, Promise!Unsubscribe, Promise!Idle
  <2> QED BY <1>4, <2>1, <2>2 DEF Promise!Next
<1>10. CASE m.type \notin {"subscribe", "unsubscribe"}
  <2>1. Interests' = Interests
    BY <1>6, <1>10 DEF NewTopics, Interests
  <2> QED BY <1>1, <1>2, <1>5, <2>1 DEF Promise!vars
<1> QED BY <1>8, <1>9, <1>10

LEMMA HandleSubMsgBroker ==
  ASSUME IInv, IdsStay, DeliveryInv, NEW j \in 1..Len(pfds), HandleSubMsg(j), Others
  PROVE  Promise!Next \/ UNCHANGED Promise!vars
<1> DEFINE k == subs_by_fd[pfds[j].fd]
           p == sock[subs[k].sock_fd]
<1>1. pc = "pass" /\ InLoopOfMain /\ ServerUp
  BY DEF HandleSubMsg, InLoopOfMain, ServerUp
<1>2. k \in 1..Len(subs) /\ Connected(k) /\ p \in Procs
  BY <1>1, EntryFacts, LoopFacts DEF Connected
<1>3. CASE Die
  BY <1>1, <1>3, DieBroker DEF Die, Others
<1>4. Die \/ \E r \in ReadMsgs(p) :
        /\ \/ sub_closes_srv_connection(k, j, r.rest)
           \/ /\ subs' = [subs EXCEPT ![k].topics = NewTopics(@, r.msg)]
              /\ UNCHANGED sock
        /\ UNCHANGED <<pc, udp, subs_by_id, dgram, log>>
  BY Zenon DEF HandleSubMsg
<1>5. ASSUME NEW r \in ReadMsgs(p),
             sub_closes_srv_connection(k, j, r.rest),
             UNCHANGED <<pc, udp, subs_by_id, dgram, log>>
      PROVE  Promise!Next
  <2>1. /\ subs' = [subs EXCEPT ![k].sock_fd = NoFd]
        /\ sock' = [sock EXCEPT ![subs[k].sock_fd] = NoProc]
    BY <1>5 DEF sub_closes_srv_connection
  <2>2. arrived' = arrived
    BY DEF Others
  <2> HIDE DEF k
  <2> QED BY <1>1, <1>2, <1>5, <2>1, <2>2, DetachBroker
<1>6. ASSUME NEW r \in ReadMsgs(p),
             subs' = [subs EXCEPT ![k].topics = NewTopics(@, r.msg)],
             UNCHANGED <<sock, pc, udp, subs_by_id, dgram, log>>
      PROVE  Promise!Next \/ UNCHANGED Promise!vars
  <2>1. r.msg \in UpMsg
    BY <1>2, ReadMsgsProperties
  <2>2. arrived' = arrived
    BY DEF Others
  <2> HIDE DEF k
  <2> QED BY <1>1, <1>2, <1>6, <2>1, <2>2, CommandBroker
<1> QED BY <1>3, <1>4, <1>5, <1>6

-----------------------------------------------------------------------------
(* handle_udp_msg.                                                          *)

(* The processes to hand the publication to, of the broker and of the list. *)
LEMMA Audience ==
  ASSUME IInv, IdsStay, ServerUp, NEW topic
  PROVE  {Sessions[id] : id \in {j \in SubIds : Promise!Interested(j, topic)}} =
         {p \in Procs : \E k \in 1..Len(subs) :
            SessionOf(p, k) /\ is_subscribed(subs[k].topics, topic)}
<1> DEFINE theirs == {Sessions[id] : id \in {j \in SubIds : Promise!Interested(j, topic)}}
           ours == {p \in Procs : \E k \in 1..Len(subs) :
                      SessionOf(p, k) /\ is_subscribed(subs[k].topics, topic)}
<1>1. ASSUME NEW p \in theirs
      PROVE  p \in ours
  <2>1. PICK id \in SubIds : Promise!Interested(id, topic) /\ p = Sessions[id]
    BY <1>1
  <2> DEFINE k == subs_by_id[id]
  <2>2. /\ SessionOfId(id) # NoProc /\ p = SessionOfId(id)
        /\ \E t \in InterestOfId(id) : <<t, topic>> \in Covers
    BY <2>1 DEF Promise!Interested, Sessions, Interests
  <2>3. k # 0 /\ Connected(k) /\ p = sock[subs[k].sock_fd]
    BY <2>2 DEF SessionOfId
  <2>4. k \in 1..Len(subs) /\ p \in Procs
    BY <2>3, MappingFacts, RecordFacts
  <2>5. is_subscribed(subs[k].topics, topic)
    BY <2>2, <2>3 DEF InterestOfId, is_subscribed
  <2> QED BY <2>3, <2>4, <2>5 DEF SessionOf
<1>2. ASSUME NEW p \in ours
      PROVE  p \in theirs
  <2>1. p \in Procs /\ \E k \in 1..Len(subs) :
            SessionOf(p, k) /\ is_subscribed(subs[k].topics, topic)
    BY <1>2
  <2>2. PICK k \in 1..Len(subs) : SessionOf(p, k) /\ is_subscribed(subs[k].topics, topic)
    BY <2>1
  <2> DEFINE id == subs[k].id
  <2>3. /\ id \in SubIds
        /\ SessionOfId(id) = p /\ p # NoProc
        /\ InterestOfId(id) = subs[k].topics
    BY <2>1, <2>2, MappingFacts, SocketsAssumption DEF SessionOf
  <2>4. Promise!Interested(id, topic) /\ p = Sessions[id]
    <3> HIDE DEF id
    <3> QED BY <2>2, <2>3 DEF Promise!Interested, Sessions, Interests, is_subscribed
  <2> QED BY <2>3, <2>4
<1> QED BY <1>1, <1>2

LEMMA HandleUdpBroker ==
  ASSUME IInv, IdsStay, DeliveryInv, HandleUdp, Others
  PROVE  Promise!Next
<1> DEFINE topic == Head(udp).topic
           theirs == {Sessions[id] : id \in {j \in SubIds : Promise!Interested(j, topic)}}
<1>1. /\ ServerUp /\ ServerUp' = ServerUp
      /\ pc = "pass" /\ dgram = NoDgram
      /\ UNCHANGED <<subs, subs_by_id, sock, log, arrived>>
      /\ udp' = Tail(udp)
      /\ Len(subs) \in Nat
  <2>1. ServerUp
    BY DEF HandleUdp, ServerUp
  <2> QED BY <2>1, RecordFacts DEF HandleUdp, ServerUp, DeliveryInv, HandedOut, Others
<1>2. udp # <<>>
  BY DEF HandleUdp, IInv, ReportedIsReady, InLoopOfMain
<1>3. Sessions' = Sessions /\ Interests' = Interests
  BY <1>1, MappingFrozen
<1>4. theirs = {p \in Procs : \E k \in 1..Len(subs) :
                  SessionOf(p, k) /\ is_subscribed(subs[k].topics, topic)}
  BY <1>1, Audience
<1>5. \/ dgram' = Head(udp) /\ Owed' = theirs
      \/ theirs = {} /\ UNCHANGED dgram /\ Owed' = Owed
  <2>1. CASE subs = <<>> /\ dgram' = dgram
    <3>1. \A k : k \notin 1..Len(subs)
      BY <2>1
    <3>2. theirs = {}
      <4> HIDE DEF theirs, topic
      <4> QED BY <1>4, <3>1
    <3>3. Owed' = Owed
      BY <1>1, <2>1, OwedNothing
    <3> QED BY <2>1, <3>2, <3>3
  <2>2. CASE cur' = Len(subs) /\ dgram' = Head(udp)
    <3>1. Head(udp) # NoDgram
      <4>1. Head(udp) = udp[1] /\ 1 \in DOMAIN udp
        BY <1>2, HeadTailProperties, LenProperties DEF IInv, TypeOK, SocketsTypeOK
      <4>2. Head(udp).n \in 1..arrived
        BY <4>1 DEF DeliveryInv, Numbered
      <4>3. NoDgram.n = 0
        BY DEF NoDgram
      <4> QED BY <4>2, <4>3
    <3>2. Owed' = {p \in Procs : \E k \in 1..Len(subs) :
                     SessionOf(p, k) /\ is_subscribed(subs[k].topics, topic)}
      <4>1. \A p, k : SessionOf(p, k)' <=> SessionOf(p, k)
        BY <1>1 DEF SessionOf, Connected
      <4>2. \A k : is_subscribed(subs'[k].topics, dgram'.topic)
                     <=> is_subscribed(subs[k].topics, topic)
        BY <1>1, <2>2
      <4>3. Owed' = {p \in Procs : \E k \in 1..cur' :
                       SessionOf(p, k)' /\ is_subscribed(subs'[k].topics, dgram'.topic)}
        BY <2>2, <3>1 DEF Owed, NoDgram
      <4> HIDE DEF topic
      <4> QED BY <2>2, <4>1, <4>2, <4>3
    <3> HIDE DEF theirs, topic
    <3> QED BY <1>4, <2>2, <3>2
  <2> QED BY <2>1, <2>2 DEF HandleUdp
<1>6. Promise!Publish
  BY <1>1, <1>2, <1>3, <1>5 DEF Promise!Publish, Promise!Idle
<1> QED BY <1>6 DEF Promise!Next

(* One node of the traversal.                                               *)
LEMMA FanoutBroker ==
  ASSUME IInv, ConnectionsOnce, IdsStay, DeliveryInv, Fanout, Others
  PROVE  Promise!Next \/ UNCHANGED Promise!vars
<1> DEFINE p0 == sock[subs[cur].sock_fd]
           owes(p, n) == \E k \in 1..n :
                           SessionOf(p, k) /\ is_subscribed(subs[k].topics, dgram.topic)
<1>1. /\ ServerUp /\ pc = "fanout"
      /\ cur \in 1..Len(subs) /\ Len(subs) \in Nat
      /\ dgram # NoDgram
      /\ UNCHANGED <<subs, subs_by_id, sock, udp, arrived>>
  <2>1. ServerUp /\ pc = "fanout"
    BY DEF Fanout, ServerUp
  <2>2. dgram.n \in 1..arrived /\ NoDgram.n = 0
    BY <2>1 DEF DeliveryInv, HandedOut, NoDgram
  <2>3. dgram # NoDgram
    BY <2>2
  <2> QED BY <2>1, <2>3, RecordFacts DEF IInv, CursorInRange, Fanout, Others
<1>2. Sessions' = Sessions /\ Interests' = Interests
  BY <1>1, MappingFrozen
<1>3. CASE pc' = "died" /\ UNCHANGED <<cur, dgram, log>>
  BY <1>1, <1>3, DieBroker
<1>4. Owed = {p \in Procs : owes(p, cur)}
  BY <1>1 DEF Owed
<1>5. \A p \in Procs : owes(p, cur) <=> owes(p, cur - 1) \/ (Eligible(cur) /\ p = p0)
  <2>1. \A k : k \in 1..cur <=> k = cur \/ k \in 1..(cur - 1)
    BY <1>1
  <2>2. \A p \in Procs : (SessionOf(p, cur) /\ is_subscribed(subs[cur].topics, dgram.topic))
                           <=> (Eligible(cur) /\ p = p0)
    BY DEF SessionOf, Eligible
  <2> HIDE DEF p0
  <2> QED BY <2>1, <2>2
<1>6. ASSUME NextNode
      PROVE  /\ ServerUp' = ServerUp
             /\ Owed' = {p \in Procs : owes(p, cur - 1)}
             /\ dgram' = dgram \/ (dgram' = NoDgram /\ Owed' = {})
             /\ cur = 1 => dgram' = NoDgram
             /\ cur # 1 => dgram' = dgram
  <2>1. CASE cur = 1
    <3>1. dgram' = NoDgram /\ pc' = "pass"
      BY <1>6, <2>1 DEF NextNode
    <3>2. Owed' = {}
      BY <3>1 DEF Owed, NoDgram
    <3>3. \A p : ~owes(p, cur - 1)
      BY <2>1
    <3> QED BY <1>1, <2>1, <3>1, <3>2, <3>3 DEF ServerUp
  <2>2. CASE cur # 1
    <3>1. dgram' = dgram /\ pc' = pc /\ cur' = cur - 1
      BY <1>6, <2>2 DEF NextNode
    <3>2. \A p, k : SessionOf(p, k)' <=> SessionOf(p, k)
      BY <1>1 DEF SessionOf, Connected
    <3>3. Owed' = {p \in Procs : \E k \in 1..cur' :
                     SessionOf(p, k)' /\ is_subscribed(subs'[k].topics, dgram'.topic)}
      BY <1>1, <3>1 DEF Owed, NoDgram
    <3> QED BY <1>1, <2>2, <3>1, <3>2, <3>3 DEF ServerUp
  <2> QED BY <2>1, <2>2
<1> HIDE DEF owes
<1>7. CASE ~Eligible(cur) /\ NextNode /\ log' = log
  <2>1. Owed' = Owed
    BY <1>4, <1>5, <1>6, <1>7
  <2>2. CASE dgram' = dgram
    BY <1>1, <1>2, <1>6, <1>7, <2>1, <2>2 DEF Promise!vars
  <2>3. CASE dgram' = NoDgram /\ Owed' = {}
    <3>1. Promise!Finish
      BY <1>1, <1>2, <1>6, <1>7, <2>1, <2>3 DEF Promise!Finish
    <3> QED BY <3>1 DEF Promise!Next
  <2> QED BY <1>6, <1>7, <2>2, <2>3
<1>8. CASE Eligible(cur) /\ NextNode /\ log' = [log EXCEPT ![p0] = Append(@, dgram.n)]
  <2>1. p0 \in Procs /\ SessionOf(p0, cur)
    BY <1>1, <1>8, RecordFacts DEF Eligible, SessionOf
  <2> HIDE DEF p0
  <2>2. ~owes(p0, cur - 1)
    <3> SUFFICES ASSUME NEW k \in 1..(cur - 1), SessionOf(p0, k) PROVE FALSE
      BY DEF owes
    <3>1. k \in 1..Len(subs) /\ k # cur
      BY <1>1
    <3> QED BY <1>1, <2>1, <3>1, OneRecordPerProcess
  <2>3. p0 \in Owed /\ Owed' = Owed \ {p0}
    BY <1>4, <1>5, <1>6, <1>8, <2>1, <2>2
  <2>4. dgram' \in {dgram} \cup (IF Owed' = {} THEN {NoDgram} ELSE {})
    BY <1>6, <1>8
  <2>5. Promise!HandOut(p0)
    BY <1>1, <1>2, <1>6, <1>8, <2>3, <2>4 DEF Promise!HandOut
  <2> QED BY <2>1, <2>5 DEF Promise!Next
<1> QED BY <1>3, <1>7, <1>8 DEF Fanout

-----------------------------------------------------------------------------
LEMMA InitBroker == Init => Promise!Init
<1> SUFFICES ASSUME Init PROVE Promise!Init
  OBVIOUS
<1>1. /\ pc = "pass" /\ subs_by_id = [id \in SubIds |-> 0]
      /\ arrived = 0 /\ udp = <<>> /\ dgram = NoDgram /\ log = [p \in Procs |-> <<>>]
  BY DEF Init, SocketsInit, ServerInit
<1>2. ServerUp = TRUE
  BY <1>1 DEF ServerUp
<1>3. Sessions = [id \in SubIds |-> NoProc] /\ Interests = [id \in SubIds |-> {}]
  BY <1>1 DEF Sessions, Interests, SessionOfId, InterestOfId
<1>4. Owed = {}
  BY <1>1 DEF Owed
<1> QED BY <1>1, <1>2, <1>3, <1>4 DEF Promise!Init

LEMMA NextBroker ==
  ASSUME IInv, LoopInv, DeliveryInv, IdsStay, [Next]_vars
  PROVE  [Promise!Next]_(Promise!vars)
<1>1. ASSUME ServerStep
      PROVE  Promise!Next \/ UNCHANGED Promise!vars
  <2>1. Others
    BY <1>1 DEF ServerStep, Others
  <2>2. ConnectionsOnce
    BY DEF LoopInv
  <2>3. BlockedSendFails => Promise!Next
    BY <2>1, DieBroker DEF BlockedSendFails, Die, Others
  <2> QED BY <1>1, <2>1, <2>2, <2>3, PollBroker, HandleStdinBroker, StopProgramBroker,
             CloseStoppedBroker, HandleUdpBroker, FanoutBroker, HandleListenBroker,
             ReceiveIdBroker, CloseRefusedBroker, HandleSubMsgBroker DEF ServerStep, ServerNext
<1>2. ASSUME NEW p \in Procs, SubscriberStep(p)
      PROVE  UNCHANGED Promise!vars
  <2>1. UNCHANGED <<srvVars, sock, udp, arrived>>
    BY <1>2 DEF SubscriberStep, SubscriberNext, Connect, SendId, sub_HandleStdin,
                HandleServerMsg, sub_BlockedSendFails, sub_Exit, Crash
  <2> QED BY <2>1, StutterBroker DEF srvVars
<1>3. TypeLine \/ UNCHANGED vars => UNCHANGED Promise!vars
  BY StutterBroker DEF TypeLine, vars, sockVars, srvVars
<1> QED BY <1>1, <1>2, <1>3, ArriveBroker DEF Next

(* The application keeps the promise of Broker, for any number of processes,*)
(* ids, patterns and datagrams: one session per id and per process, topics  *)
(* that outlive sessions, every datagram handed out in order of arrival, to *)
(* those subscribed to it and to nobody else, once.  This is so also when   *)
(* streams are out of step and the server executes messages nobody sent;    *)
(* only the topics of an id are then not those its user asked for.          *)
THEOREM KeepsPromise == Spec => ImplementsBroker
<1>1. Init => Promise!Init
  BY InitBroker
<1>2. IInv /\ LoopInv /\ DeliveryInv /\ IdsStay /\ [Next]_vars => [Promise!Next]_(Promise!vars)
  BY NextBroker
<1>3. Spec => Promise!Spec
  BY <1>1, <1>2, Invariance, LoopInvariance, DeliveryInvariance, IdsInvariance, PTL
     DEF Spec, Promise!Spec
<1> QED BY <1>3 DEF ImplementsBroker

-----------------------------------------------------------------------------
(* Who is registered as whom, without faults.                               *)

(* Connections of which the id has not been read.                           *)
Waiting(p) == InBacklog(p) \/ (pc = "recv_id" /\ sock[new_fd] = p)

Untouched(p) == srvSees[p] = "open" /\ cliSees[p] = "open" /\ down[p] = <<>>

(* Until its id is read a process has sent the id at most, got nothing, and *)
(* not ended.                                                               *)
IdIsFirst ==
  /\ \A p \in Procs : cli[p] = "off" => Untouched(p)
  /\ ServerUp => \A p \in Procs : Waiting(p) =>
       /\ Untouched(p)
       /\ \/ cli[p] = "connected" /\ up[p] = <<>>
          \/ cli[p] = "running" /\ up[p] = <<IdMsg>>

OwnIds ==
  ServerUp => \A k \in 1..Len(subs) :
    Connected(k) => subs[k].id = IdOf[sock[subs[k].sock_fd]]

IdentityInv == IdIsFirst /\ OwnIds

Same(p) == up'[p] = up[p] /\ down'[p] = down[p] /\ srvSees'[p] = srvSees[p] /\ cliSees'[p] = cliSees[p]

-----------------------------------------------------------------------------
(* The server.                                                              *)

(* A handler that touches accepted connections only.                        *)
LEMMA HandlerKeepsFirst ==
  ASSUME ConnectionsOnce, IdIsFirst, ServerUp, cli' = cli,
         \A q \in Procs : Same(q) \/ (Accepted(q) /\ ~Waiting(q)'),
         \A q \in Procs : Waiting(q)' => Waiting(q)
  PROVE  IdIsFirst'
<1>1. \A q \in Procs : cli[q] = "off" => Same(q)
  BY DEF ConnectionsOnce
<1>2. \A q \in Procs : Waiting(q)' => Waiting(q) /\ Same(q)
  OBVIOUS
<1> QED BY <1>1, <1>2 DEF IdIsFirst, Untouched, Same

(* The end of the server is seen by connected processes only.               *)
LEMMA EndKeepsIdentity ==
  ASSUME IInv, ConnectionsOnce, IdentityInv, cli' = cli, ~ServerUp',
         CloseEverything, UNCHANGED <<up, down, srvSees>>
  PROVE  IdentityInv'
<1>1. \A q \in Procs : cli[q] = "off" => cliSees'[q] = cliSees[q]
  BY DEF ConnectionsOnce, CloseEverything
<1>2. IdIsFirst'
  BY <1>1 DEF IdentityInv, IdIsFirst, Untouched
<1>3. OwnIds'
  BY DEF OwnIds
<1> QED BY <1>2, <1>3 DEF IdentityInv

LEMMA DieIdentity ==
  ASSUME IInv, ConnectionsOnce, IdentityInv, Die, Others
  PROVE  IdentityInv'
BY EndKeepsIdentity DEF Die, ServerUp, Others, cliVars

(* Steps that touch no connection.                                          *)
LEMMA QuietIdentity ==
  ASSUME IInv, ConnectionsOnce, IdentityInv, ServerUp, ServerUp', cli' = cli, pc' # "recv_id",
         UNCHANGED <<backlog, sock, up, down, srvSees, cliSees, subs>>
  PROVE  IdentityInv'
<1>1. \A q \in Procs : Waiting(q)' => Waiting(q)
  BY DEF Waiting, InBacklog
<1>2. IdIsFirst'
  BY <1>1, HandlerKeepsFirst DEF IdentityInv, Same
<1>3. OwnIds'
  BY DEF IdentityInv, OwnIds, Connected
<1> QED BY <1>2, <1>3 DEF IdentityInv

LEMMA SendDownTouches ==
  ASSUME IInv, NEW p \in Procs, NEW m, SendDown(p, m), NEW q \in Procs, q # p
  PROVE  down'[q] = down[q] /\ srvSees'[q] = srvSees[q]
<1>1. down \in [Procs -> Seq(DownMsg)] /\ srvSees \in [Procs -> View]
  BY DEF IInv, TypeOK, SocketsTypeOK
<1>2. /\ down' = down \/ down' = [down EXCEPT ![p] = Append(@, m)]
      /\ srvSees' = srvSees \/ \E view \in {"fin", "finrst"} : srvSees' = [srvSees EXCEPT ![p] = view]
  BY Zenon DEF SendDown
<1> QED BY <1>1, <1>2

(* The process behind a descriptor does not wait for its id to be read,     *)
(* unless the descriptor is the new one.                                    *)
LEMMA AcceptedNotWaiting ==
  ASSUME ConnectionsOnce, NEW p \in Procs, NEW fd \in Fds, sock[fd] = p, pc # "recv_id"
  PROVE  Accepted(p) /\ ~Waiting(p)
BY DEF ConnectionsOnce, Accepted, Waiting, InBacklog

LEMMA StopProgramIdentity ==
  ASSUME IInv, ConnectionsOnce, IdentityInv, StopProgram, Others
  PROVE  IdentityInv'
<1> DEFINE fd == subs[cur].sock_fd
           p == sock[fd]
<1>1. /\ pc = "stopping" /\ ServerUp /\ cli' = cli
      /\ UNCHANGED <<up, sock, subs>>
  BY DEF StopProgram, ServerUp, Others, cliVars
<1>2. CASE CloseEverything /\ UNCHANGED <<down, srvSees>> /\ pc' \in {"exited", "died"}
  BY <1>1, <1>2, EndKeepsIdentity DEF ServerUp
<1>3. CASE UNCHANGED <<pc, backlog, down, srvSees, cliSees>>
  BY <1>1, <1>3, QuietIdentity DEF ServerUp
<1>4. CASE /\ cur > 0 /\ Connected(cur)
           /\ SendDown(p, CloseSrvMsg)
           /\ pc' = "closing"
           /\ UNCHANGED <<backlog, cliSees>>
  <2>1. /\ cur \in 1..Len(subs)
        /\ fd \in Fds /\ p \in Procs
    BY <1>1, <1>4, RecordFacts DEF IInv, CursorInRange, TypeOK, ServerTypeOK
  <2>2. SendDown(p, CloseSrvMsg)
    BY <1>4
  <2> HIDE DEF fd, p
  <2>3. p = sock[fd]
    BY DEF p, fd
  <2>4. \A q \in Procs : q # p => Same(q)
    BY <1>1, <1>4, <2>1, <2>2, SendDownTouches DEF Same
  <2>5. \A q \in Procs : Waiting(q)' => Waiting(q)
    BY <1>1, <1>4 DEF Waiting, InBacklog
  <2>6. Accepted(p) /\ ~Waiting(p)
    BY <1>1, <2>1, <2>3, AcceptedNotWaiting
  <2>7. IdIsFirst'
    BY <1>1, <2>4, <2>5, <2>6, HandlerKeepsFirst DEF IdentityInv
  <2>8. OwnIds'
    BY <1>1 DEF IdentityInv, OwnIds, Connected
  <2> QED BY <2>7, <2>8 DEF IdentityInv
<1> QED BY <1>1, <1>2, <1>3, <1>4 DEF StopProgram, srv_tells_sub

(* The close() of a connection the server has no use for any more.          *)
LEMMA CloseTouches ==
  ASSUME IInv, ConnectionsOnce, IdentityInv, ServerUp, pc \notin {"recv_id"}, pc' # "recv_id",
         cli' = cli, UNCHANGED <<backlog, up, down, srvSees>>,
         NEW fd \in Fds, sock[fd] \in Procs, srv_closes_sub_connection(fd)
  PROVE  IdIsFirst'
<1> PICK p : p = sock[fd]
  OBVIOUS
<1>1. p \in Procs /\ cliSees \in [Procs -> View]
  BY DEF IInv, TypeOK, SocketsTypeOK
<1>2. cliSees' = [cliSees EXCEPT ![p] = ClosedWith(up[p])]
  BY DEF srv_closes_sub_connection
<1>3. \A q \in Procs : q # p => Same(q)
  BY <1>1, <1>2 DEF Same
<1>4. \A q \in Procs : Waiting(q)' => Waiting(q)
  BY DEF Waiting, InBacklog
<1>5. Accepted(p) /\ ~Waiting(p)
  BY <1>1, AcceptedNotWaiting
<1> QED BY <1>3, <1>4, <1>5, HandlerKeepsFirst DEF IdentityInv

LEMMA CloseStoppedIdentity ==
  ASSUME IInv, ConnectionsOnce, IdentityInv, CloseStopped, Others
  PROVE  IdentityInv'
<1> DEFINE fd == subs[cur].sock_fd
<1>1. /\ pc = "closing" /\ pc' = "stopping" /\ ServerUp /\ cli' = cli
      /\ UNCHANGED <<backlog, up, down, srvSees>>
      /\ srv_closes_sub_connection(fd)
      /\ sock' = [sock EXCEPT ![fd] = NoProc]
      /\ subs' = [subs EXCEPT ![cur].sock_fd = NoFd]
  BY DEF CloseStopped, srv_closes_sub_connection, ServerUp, Others, cliVars
<1>2. /\ cur \in 1..Len(subs) /\ Connected(cur)
      /\ sock \in [Fds -> Procs \cup {NoProc}]
  BY <1>1 DEF IInv, CursorInRange, TypeOK, SocketsTypeOK
<1>3. fd \in Fds /\ sock[fd] \in Procs
  BY <1>1, <1>2, RecordFacts
<1>4. \A k \in 1..Len(subs) : k # cur /\ Connected(k) => subs[k].sock_fd # fd
  BY <1>1, <1>2, RecordFacts
<1> HIDE DEF fd
<1>5. IdIsFirst'
  BY <1>1, <1>3, CloseTouches
<1>6. OwnIds'
  <2>1. /\ Len(subs') = Len(subs)
        /\ \A k \in 1..Len(subs) : k # cur => subs'[k] = subs[k]
        /\ subs'[cur].sock_fd = NoFd
    BY <1>1, <1>2, RecordFacts
  <2>2. \A k \in 1..Len(subs) : k # cur /\ Connected(k) =>
          sock'[subs[k].sock_fd] = sock[subs[k].sock_fd]
    BY <1>1, <1>2, <1>3, <1>4, RecordFacts
  <2> QED BY <1>1, <2>1, <2>2 DEF IdentityInv, OwnIds, Connected
<1> QED BY <1>5, <1>6 DEF IdentityInv

LEMMA FanoutIdentity ==
  ASSUME IInv, ConnectionsOnce, IdentityInv, Fanout, Others
  PROVE  IdentityInv'
<1> DEFINE fd == subs[cur].sock_fd
           p == sock[fd]
<1>1. /\ pc = "fanout" /\ ServerUp /\ cli' = cli
      /\ UNCHANGED <<up, sock, subs>>
      /\ cur \in 1..Len(subs)
  BY DEF Fanout, ServerUp, Others, cliVars, IInv, CursorInRange
<1>2. \/ /\ pc' = "died" /\ CloseEverything /\ UNCHANGED <<down, srvSees>>
      \/ /\ pc' \in {"pass", "fanout"}
         /\ UNCHANGED <<backlog, cliSees>>
         /\ \/ UNCHANGED <<down, srvSees>>
            \/ Eligible(cur) /\ SendDown(p, dgram)
  BY <1>1 DEF Fanout, NextNode
<1>3. CASE pc' = "died" /\ CloseEverything /\ UNCHANGED <<down, srvSees>>
  BY <1>1, <1>3, EndKeepsIdentity DEF ServerUp
<1>4. CASE pc' \in {"pass", "fanout"} /\ UNCHANGED <<backlog, cliSees, down, srvSees>>
  BY <1>1, <1>4, QuietIdentity DEF ServerUp
<1>5. CASE /\ pc' \in {"pass", "fanout"} /\ UNCHANGED <<backlog, cliSees>>
           /\ Eligible(cur) /\ SendDown(p, dgram)
  <2>1. fd \in Fds /\ p \in Procs
    BY <1>1, <1>5, RecordFacts DEF Eligible
  <2>2. SendDown(p, dgram)
    BY <1>5
  <2> HIDE DEF fd, p
  <2>3. p = sock[fd]
    BY DEF p, fd
  <2>4. \A q \in Procs : q # p => Same(q)
    BY <1>1, <1>5, <2>1, <2>2, SendDownTouches DEF Same
  <2>5. \A q \in Procs : Waiting(q)' => Waiting(q)
    BY <1>1, <1>5 DEF Waiting, InBacklog
  <2>6. Accepted(p) /\ ~Waiting(p)
    BY <1>1, <2>1, <2>3, AcceptedNotWaiting
  <2>7. IdIsFirst'
    BY <1>1, <2>4, <2>5, <2>6, HandlerKeepsFirst DEF IdentityInv
  <2>8. OwnIds'
    BY <1>1, <1>5 DEF IdentityInv, OwnIds, Connected, ServerUp
  <2> QED BY <2>7, <2>8 DEF IdentityInv
<1> QED BY <1>2, <1>3, <1>4, <1>5

LEMMA PassIdentity ==
  ASSUME IInv, ConnectionsOnce, IdentityInv, Poll \/ HandleStdin \/ HandleUdp, Others
  PROVE  IdentityInv'
<1>1. CASE Die
  BY <1>1, DieIdentity
<1>2. CASE /\ ServerUp /\ ServerUp' /\ pc' # "recv_id"
           /\ UNCHANGED <<backlog, sock, up, down, srvSees, cliSees, subs>>
  BY <1>2, QuietIdentity DEF Others, cliVars
<1> QED BY <1>1, <1>2 DEF Poll, HandleStdin, HandleUdp, ServerUp, sockVars

(* accept() takes the head of the backlog, which goes on waiting.           *)
LEMMA HandleListenIdentity ==
  ASSUME IInv, ConnectionsOnce, IdentityInv, HandleListen, Others
  PROVE  IdentityInv'
<1>1. CASE Die
  BY <1>1, DieIdentity
<1>2. ASSUME NEW fd \in FreeFds,
             new_fd' = fd, sock' = [sock EXCEPT ![fd] = Head(backlog)],
             backlog' = Tail(backlog), pc' = "recv_id",
             UNCHANGED <<up, down, srvSees, cliSees, subs>>
      PROVE  IdentityInv'
  <2>1. /\ pc = "pass" /\ "tcp" \in rev /\ cli' = cli
        /\ ServerUp /\ ServerUp' /\ InLoopOfMain
    BY <1>2 DEF HandleListen, ServerUp, InLoopOfMain, Others, cliVars
  <2>2. /\ fd \in Fds /\ sock[fd] = NoProc
        /\ sock \in [Fds -> Procs \cup {NoProc}]
        /\ backlog \in Seq(Procs) /\ backlog # <<>>
    BY <1>2, <2>1 DEF FreeFds, IInv, TypeOK, SocketsTypeOK, ReportedIsReady
  <2>3. /\ Len(backlog) \in Nat \ {0} /\ DOMAIN backlog = 1..Len(backlog)
        /\ Head(backlog) = backlog[1]
        /\ DOMAIN backlog' = 1..(Len(backlog) - 1)
        /\ \A n \in 1..(Len(backlog) - 1) : backlog'[n] = backlog[n + 1]
    BY <1>2, <2>2
  <2>4. \A q \in Procs : Waiting(q)' => Waiting(q)
    BY <1>2, <2>1, <2>2, <2>3 DEF Waiting, InBacklog
  <2>5. IdIsFirst'
    BY <1>2, <2>1, <2>4, HandlerKeepsFirst DEF IdentityInv, Same
  <2>6. OwnIds'
    <3>1. \A k \in 1..Len(subs) : Connected(k) => subs[k].sock_fd \in Fds /\ subs[k].sock_fd # fd
      BY <2>1, <2>2, RecordFacts, SocketsAssumption
    <3> QED BY <1>2, <2>1, <2>2, <3>1 DEF IdentityInv, OwnIds, Connected
  <2> QED BY <2>5, <2>6 DEF IdentityInv
<1> QED BY <1>1, <1>2 DEF HandleListen

(* The id read is the id of the process, and nothing else is read; the rest *)
(* of an over-long id stays in the stream.                                  *)
LEMMA ReadIdFacts ==
  ASSUME IInv, ConnectionsOnce, IdentityInv, ReceiveId, Others, NEW p, p = sock[new_fd]
  PROVE  /\ pc = "recv_id" /\ cli' = cli /\ UNCHANGED <<backlog, sock, cliSees>>
         /\ InLoopOfMain /\ InLoopOfMain' /\ ServerUp
         /\ new_fd \in Fds /\ new_fd \notin PollFds /\ p \in Procs
         /\ sock \in [Fds -> Procs \cup {NoProc}]
         /\ up \in [Procs -> Seq(UpMsg)]
         /\ Waiting(p) /\ Accepted(p)
         /\ up[p] = <<IdMsg>>
         /\ \E rest : up' = [up EXCEPT ![p] = rest]
         /\ p \notin Overlong => /\ up' = [up EXCEPT ![p] = <<>>]
                                 /\ skew' = [skew EXCEPT ![p] = FALSE]
         /\ LET k == subs_by_id[IdOf[p]] IN
            \/ /\ k = 0
               /\ add_new_sub(new_fd, IdOf[p])
               /\ Registered
            \/ /\ k # 0 /\ IsPast(k)
               /\ revive_sub_connection(k, new_fd)
               /\ Registered
            \/ /\ k # 0 /\ ~IsPast(k)
               /\ srv_tells_sub(new_fd)
               /\ pc' = "refusing"
               /\ UNCHANGED <<subs, subs_by_id>>
         /\ \A h \in 1..Len(subs) : Connected(h) => subs[h].sock_fd \in Fds \ {new_fd}
<1>1. /\ pc = "recv_id" /\ cli' = cli /\ UNCHANGED <<backlog, sock, cliSees>>
      /\ InLoopOfMain /\ InLoopOfMain' /\ ServerUp
      /\ Readable(new_fd)
  BY DEF ReceiveId, Registered, InLoopOfMain, ServerUp, Others, cliVars
<1>2. /\ new_fd \in Fds /\ new_fd \notin PollFds /\ p \in Procs
      /\ sock \in [Fds -> Procs \cup {NoProc}]
      /\ up \in [Procs -> Seq(UpMsg)]
  BY <1>1, LoopFacts DEF DescriptorsAgree, IInv, TypeOK, ServerTypeOK, SocketsTypeOK
<1>3. Waiting(p) /\ Accepted(p)
  BY <1>1, <1>2 DEF Waiting, Accepted
<1>4. up[p] = <<IdMsg>>
  BY <1>1, <1>2, <1>3 DEF IdentityInv, IdIsFirst, Untouched, Readable
<1>5. \A r \in ReadIds(p) :
        r.id = IdOf[p] /\ (p \notin Overlong => r.rest = <<>> /\ r.skew = FALSE)
  <2>1. Tail(up[p]) = <<>> /\ Len(up[p]) = 1 /\ up[p] # <<>>
    BY <1>4
  <2>2. CASE p \in Overlong
    BY <2>1, <2>2 DEF ReadIds
  <2>3. CASE p \notin Overlong
    BY <2>1, <2>3 DEF ReadIds
  <2> QED BY <2>2, <2>3
<1>6. PICK r \in ReadIds(p) :
        /\ up' = [up EXCEPT ![p] = r.rest]
        /\ skew' = [skew EXCEPT ![p] = r.skew]
        /\ LET k == subs_by_id[r.id] IN
           \/ /\ k = 0
              /\ add_new_sub(new_fd, r.id)
              /\ Registered
           \/ /\ k # 0 /\ IsPast(k)
              /\ revive_sub_connection(k, new_fd)
              /\ Registered
           \/ /\ k # 0 /\ ~IsPast(k)
              /\ srv_tells_sub(new_fd)
              /\ pc' = "refusing"
              /\ UNCHANGED <<new_fd, pfds, max_nfds, subs, subs_by_id, subs_by_fd>>
  BY Zenon DEF ReceiveId
<1>7. r.id = IdOf[p] /\ (p \notin Overlong => r.rest = <<>> /\ r.skew = FALSE)
  BY <1>5
<1>8. \A h \in 1..Len(subs) : Connected(h) => subs[h].sock_fd \in Fds \ {new_fd}
  <2> SUFFICES ASSUME NEW h \in 1..Len(subs), Connected(h)
               PROVE  subs[h].sock_fd \in Fds \ {new_fd}
    OBVIOUS
  <2>1. subs[h].sock_fd \in Fds /\ subs_by_fd[subs[h].sock_fd] = h
    BY <1>1, RecordFacts
  <2>2. h # 0
    BY <1>1, RecordFacts
  <2> QED BY <1>1, <1>2, <2>1, <2>2, LoopFacts DEF PollAgrees
<1>9. /\ \E rest : up' = [up EXCEPT ![p] = rest]
      /\ p \notin Overlong => /\ up' = [up EXCEPT ![p] = <<>>]
                              /\ skew' = [skew EXCEPT ![p] = FALSE]
  BY <1>6, <1>7
<1>10. LET k == subs_by_id[IdOf[p]] IN
       \/ /\ k = 0
          /\ add_new_sub(new_fd, IdOf[p])
          /\ Registered
       \/ /\ k # 0 /\ IsPast(k)
          /\ revive_sub_connection(k, new_fd)
          /\ Registered
       \/ /\ k # 0 /\ ~IsPast(k)
          /\ srv_tells_sub(new_fd)
          /\ pc' = "refusing"
          /\ UNCHANGED <<subs, subs_by_id>>
  BY <1>6, <1>7, Zenon
<1> QED BY <1>1, <1>2, <1>3, <1>4, <1>8, <1>9, <1>10, Zenon

LEMMA ReceiveIdIdentity ==
  ASSUME IInv, ConnectionsOnce, IdentityInv, ReceiveId, Others
  PROVE  IdentityInv'
<1> DEFINE p == sock[new_fd]
           k == subs_by_id[IdOf[p]]
<1>1. /\ pc = "recv_id" /\ cli' = cli /\ UNCHANGED <<backlog, sock, cliSees>>
      /\ InLoopOfMain /\ ServerUp
  BY ReadIdFacts, Zenon
<1>2. /\ new_fd \in Fds /\ new_fd \notin PollFds /\ p \in Procs
      /\ sock \in [Fds -> Procs \cup {NoProc}]
      /\ up \in [Procs -> Seq(UpMsg)]
  BY ReadIdFacts, Zenon
<1>3. Waiting(p) /\ Accepted(p)
  BY ReadIdFacts, Zenon
<1>4. PICK rest : up' = [up EXCEPT ![p] = rest]
  BY ReadIdFacts, Zenon
<1>5. \/ add_new_sub(new_fd, IdOf[p]) /\ pc' = "pass" /\ UNCHANGED <<down, srvSees>>
      \/ /\ k # 0 /\ revive_sub_connection(k, new_fd)
         /\ pc' = "pass" /\ UNCHANGED <<down, srvSees>>
      \/ SendDown(p, CloseSrvMsg) /\ pc' = "refusing" /\ UNCHANGED subs
  BY ReadIdFacts, Zenon DEF Registered, srv_tells_sub
<1>6. \A h \in 1..Len(subs) : Connected(h) => subs[h].sock_fd \in Fds \ {new_fd}
  BY ReadIdFacts, Zenon
<1>7. \A q \in Procs : q # p => Same(q)
  <2>1. \A q \in Procs : q # p => up'[q] = up[q]
    BY <1>2, <1>4
  <2>2. CASE UNCHANGED <<down, srvSees>>
    BY <1>1, <2>1, <2>2 DEF Same
  <2>3. CASE SendDown(p, CloseSrvMsg)
    <3> HIDE DEF p
    <3> QED BY <1>1, <1>2, <2>1, <2>3, SendDownTouches DEF Same
  <2> QED BY <1>5, <2>2, <2>3
<1>8. \A q \in Procs : Waiting(q)' => Waiting(q) /\ q # p
  <2>1. ~InBacklog(p)
    BY <1>2 DEF ConnectionsOnce, InBacklog
  <2>2. pc' # "recv_id"
    BY <1>5
  <2> QED BY <1>1, <2>1, <2>2 DEF Waiting, InBacklog
<1>9. IdIsFirst'
  BY <1>1, <1>2, <1>3, <1>7, <1>8, HandlerKeepsFirst DEF IdentityInv
<1>10. OwnIds'
  <2> DEFINE id == IdOf[p]
  <2>1. Len(subs) \in Nat /\ DOMAIN subs = 1..Len(subs)
    BY <1>1, LoopFacts
  <2>2. CASE add_new_sub(new_fd, id)
    <3> DEFINE new == [id |-> id, sock_fd |-> new_fd, topics |-> {}]
    <3>1. subs' = Append(subs, new)
      BY <2>2 DEF add_new_sub
    <3>2. /\ Len(subs') = Len(subs) + 1
          /\ \A h \in 1..Len(subs) : subs'[h] = subs[h]
          /\ subs'[Len(subs) + 1] = new
      <4> HIDE DEF new
      <4> QED BY <1>1, <3>1, LoopFacts, AppendProperties
    <3>3. new.id = IdOf[sock[new.sock_fd]] /\ new.id = IdOf[sock'[new.sock_fd]]
      BY <1>1
    <3> HIDE DEF new
    <3> QED BY <1>1, <2>1, <3>2, <3>3 DEF IdentityInv, OwnIds, Connected
  <2>3. CASE k # 0 /\ revive_sub_connection(k, new_fd)
    <3>1. subs' = [subs EXCEPT ![k].sock_fd = new_fd]
      BY <2>3 DEF revive_sub_connection
    <3>2. k \in 1..Len(subs) /\ subs[k].id = id
      <4>1. id \in SubIds
        BY <1>2, ServerAssumption DEF SubIds
      <4> QED BY <1>1, <2>1, <2>3, <4>1, LoopFacts DEF IdsAgree
    <3>3. /\ Len(subs') = Len(subs)
          /\ \A h \in 1..Len(subs) : h # k => subs'[h] = subs[h]
          /\ subs'[k].id = subs[k].id /\ subs'[k].sock_fd = new_fd
      BY <1>1, <3>1, <3>2, LoopFacts
    <3> QED BY <1>1, <3>2, <3>3 DEF IdentityInv, OwnIds, Connected
  <2>4. CASE UNCHANGED subs
    BY <1>1, <2>4 DEF IdentityInv, OwnIds, Connected
  <2> QED BY <1>5, <2>2, <2>3, <2>4
<1> QED BY <1>9, <1>10 DEF IdentityInv

LEMMA CloseRefusedIdentity ==
  ASSUME IInv, ConnectionsOnce, IdentityInv, CloseRefused, Others
  PROVE  IdentityInv'
<1>1. /\ pc = "refusing" /\ pc' = "pass" /\ InLoopOfMain /\ ServerUp /\ cli' = cli
      /\ UNCHANGED <<backlog, up, down, srvSees, subs>>
      /\ srv_closes_sub_connection(new_fd)
      /\ sock' = [sock EXCEPT ![new_fd] = NoProc]
  BY DEF CloseRefused, srv_closes_sub_connection, InLoopOfMain, ServerUp, Others, cliVars
<1>2. /\ new_fd \in Fds /\ new_fd # NoFd /\ subs_by_fd[new_fd] = 0
      /\ sock \in [Fds -> Procs \cup {NoProc}] /\ sock[new_fd] \in Procs
  BY <1>1, LoopFacts DEF DescriptorsAgree, PollAgrees, IInv, TypeOK, ServerTypeOK
<1>3. IdIsFirst'
  BY <1>1, <1>2, CloseTouches
<1>4. OwnIds'
  <2>1. \A k \in 1..Len(subs) : Connected(k) =>
          subs[k].sock_fd \in Fds /\ subs[k].sock_fd # new_fd
    <3>1. Len(subs) \in Nat
      BY <1>1, RecordFacts
    <3> QED BY <1>1, <1>2, <3>1, RecordFacts
  <2> QED BY <1>1, <1>2, <2>1 DEF IdentityInv, OwnIds, Connected
<1> QED BY <1>3, <1>4 DEF IdentityInv

LEMMA HandleSubMsgIdentity ==
  ASSUME IInv, ConnectionsOnce, IdentityInv, NEW j \in 1..Len(pfds), HandleSubMsg(j), Others
  PROVE  IdentityInv'
<1> DEFINE k == subs_by_fd[pfds[j].fd]
           fd == subs[k].sock_fd
           p == sock[fd]
<1>1. pc = "pass" /\ InLoopOfMain /\ ServerUp /\ cli' = cli
  BY DEF HandleSubMsg, InLoopOfMain, ServerUp, Others, cliVars
<1>2. /\ k \in 1..Len(subs) /\ fd \in Fds /\ fd = pfds[j].fd /\ p \in Procs
      /\ Connected(k)
      /\ sock \in [Fds -> Procs \cup {NoProc}]
      /\ up \in [Procs -> Seq(UpMsg)]
      /\ cliSees \in [Procs -> View]
      /\ Len(subs) \in Nat /\ DOMAIN subs = 1..Len(subs)
  BY <1>1, EntryFacts, LoopFacts, ServerAssumption
     DEF IInv, TypeOK, SocketsTypeOK, Connected
<1>3. \/ Die
      \/ \E rest, topics :
           /\ up' = [up EXCEPT ![p] = rest]
           /\ UNCHANGED <<pc, backlog, down, srvSees>>
           /\ \/ sub_closes_srv_connection(k, j, rest)
              \/ /\ subs' = [subs EXCEPT ![k].topics = topics]
                 /\ UNCHANGED <<sock, cliSees>>
  BY Zenon DEF HandleSubMsg
<1>4. CASE Die
  BY <1>4, DieIdentity
<1>5. ASSUME NEW rest, NEW topics,
             up' = [up EXCEPT ![p] = rest],
             UNCHANGED <<pc, backlog, down, srvSees>>,
             \/ sub_closes_srv_connection(k, j, rest)
             \/ /\ subs' = [subs EXCEPT ![k].topics = topics]
                /\ UNCHANGED <<sock, cliSees>>
      PROVE  IdentityInv'
  <2>1. \/ /\ sock' = [sock EXCEPT ![fd] = NoProc]
           /\ cliSees' = [cliSees EXCEPT ![p] = ClosedWith(rest)]
           /\ subs' = [subs EXCEPT ![k].sock_fd = NoFd]
        \/ /\ subs' = [subs EXCEPT ![k].topics = topics]
           /\ UNCHANGED <<sock, cliSees>>
    BY <1>5, Zenon DEF sub_closes_srv_connection
  <2>2. \A q \in Procs : q # p => Same(q)
    <3> HIDE DEF p
    <3> QED BY <1>2, <1>5, <2>1 DEF Same
  <2>3. \A q \in Procs : Waiting(q)' => Waiting(q)
    BY <1>1, <1>5 DEF Waiting, InBacklog
  <2>4. Accepted(p) /\ ~Waiting(p)
    BY <1>1, <1>2, AcceptedNotWaiting
  <2>5. IdIsFirst'
    BY <1>1, <2>2, <2>3, <2>4, HandlerKeepsFirst DEF IdentityInv
  <2>6. OwnIds'
    <3>1. \A h \in 1..Len(subs) : h # k /\ Connected(h) =>
            subs[h].sock_fd \in Fds /\ subs[h].sock_fd # fd
      BY <1>1, <1>2, RecordFacts
    <3>2. CASE /\ sock' = [sock EXCEPT ![fd] = NoProc]
               /\ subs' = [subs EXCEPT ![k].sock_fd = NoFd]
      <4>1. /\ Len(subs') = Len(subs)
            /\ \A h \in 1..Len(subs) : h # k => subs'[h] = subs[h]
            /\ subs'[k].sock_fd = NoFd
        BY <1>1, <1>2, <3>2, LoopFacts
      <4> QED BY <1>1, <1>2, <3>1, <3>2, <4>1 DEF IdentityInv, OwnIds, Connected
    <3>3. CASE subs' = [subs EXCEPT ![k].topics = topics] /\ sock' = sock
      <4>1. /\ Len(subs') = Len(subs)
            /\ \A h \in 1..Len(subs) : subs'[h].id = subs[h].id /\ subs'[h].sock_fd = subs[h].sock_fd
        BY <1>1, <1>2, <3>3, LoopFacts
      <4> QED BY <1>1, <3>3, <4>1 DEF IdentityInv, OwnIds, Connected
    <3> QED BY <2>1, <3>2, <3>3
  <2> QED BY <2>5, <2>6 DEF IdentityInv
<1> HIDE DEF k, p
<1> QED BY <1>3, <1>4, <1>5

LEMMA ServerIdentity ==
  ASSUME IInv, ConnectionsOnce, IdentityInv, ServerStep
  PROVE  IdentityInv'
<1>1. Others
  BY DEF ServerStep, Others
<1> QED BY <1>1, PassIdentity, StopProgramIdentity, CloseStoppedIdentity, FanoutIdentity,
           HandleListenIdentity, ReceiveIdIdentity, CloseRefusedIdentity, HandleSubMsgIdentity,
           DieIdentity
        DEF ServerStep, ServerNext, BlockedSendFails

-----------------------------------------------------------------------------
(* The subscribers.                                                         *)

(* A process that is not killed touches its own connection only.            *)
LEMMA SubscriberTouches ==
  ASSUME IInv, Faults = {}, NEW p \in Procs, SubscriberNext(p), NEW q \in Procs, q # p
  PROVE  Same(q) /\ cli'[q] = cli[q]
<1>1. /\ cli \in [Procs -> CliState]
      /\ up \in [Procs -> Seq(UpMsg)] /\ down \in [Procs -> Seq(DownMsg)]
      /\ srvSees \in [Procs -> View] /\ cliSees \in [Procs -> View]
  BY DEF IInv, TypeOK, SubscriberTypeOK, SocketsTypeOK
<1>2. /\ up' = up \/ \E m : up' = [up EXCEPT ![p] = Append(@, m)]
      /\ down' = down \/ down' = [down EXCEPT ![p] = Tail(@)]
      /\ srvSees' = srvSees \/ \E view : srvSees' = [srvSees EXCEPT ![p] = view]
      /\ cliSees' = cliSees \/ \E view : cliSees' = [cliSees EXCEPT ![p] = view]
      /\ cli' = cli \/ \E state : cli' = [cli EXCEPT ![p] = state]
  <2>1. CASE Connect(p)
    BY <2>1, Zenon DEF Connect
  <2>2. CASE SendId(p)
    BY <2>2, Zenon DEF SendId, SendUp, sub_close
  <2>3. CASE sub_HandleStdin(p)
    BY <2>3, Zenon DEF sub_HandleStdin, sub_stop_program, update_subscriptions, SendUp, sub_close
  <2>4. CASE HandleServerMsg(p)
    BY <2>4, Zenon DEF HandleServerMsg, sub_close
  <2>5. CASE sub_BlockedSendFails(p)
    BY <2>5, Zenon DEF sub_BlockedSendFails, sub_close
  <2>6. CASE sub_Exit(p)
    BY <2>6, Zenon DEF sub_Exit, sub_close
  <2>7. ~Crash(p)
    BY DEF Crash
  <2> QED BY <2>1, <2>2, <2>3, <2>4, <2>5, <2>6, <2>7 DEF SubscriberNext
<1> QED BY <1>1, <1>2 DEF Same

(* A process that is not started, or waits for its id to be read, only      *)
(* connects and sends the id: its user is patient, nothing comes, and it is *)
(* not killed.                                                              *)
LEMMA SubscriberIdentity ==
  ASSUME IInv, ConnectionsOnce, IdentityInv, Faults = {}, NEW p \in Procs, SubscriberStep(p)
  PROVE  IdentityInv'
<1>1. /\ UNCHANGED <<pc, sock, subs, new_fd>>
      /\ cli \in [Procs -> CliState] /\ backlog \in Seq(Procs)
      /\ up \in [Procs -> Seq(UpMsg)] /\ down \in [Procs -> Seq(DownMsg)]
      /\ srvSees \in [Procs -> View] /\ cliSees \in [Procs -> View]
  BY DEF SubscriberStep, SubscriberNext, Connect, SendId, sub_HandleStdin, HandleServerMsg,
         sub_BlockedSendFails, sub_Exit, Crash, srvVars, IInv, TypeOK, SubscriberTypeOK, SocketsTypeOK
<1>2. SubscriberNext(p)
  BY DEF SubscriberStep
<1>3. OwnIds'
  BY <1>1 DEF IdentityInv, OwnIds, Connected, ServerUp
<1>4. \A q \in Procs : q # p => Same(q) /\ cli'[q] = cli[q]
  BY <1>2, SubscriberTouches
<1>5. \A q \in Procs : q # p /\ Waiting(q)' => Waiting(q)
  <2>1. backlog' = backlog \/ backlog' = Append(backlog, p)
    BY <1>2 DEF SubscriberNext, Connect, SendId, sub_HandleStdin, HandleServerMsg,
                sub_BlockedSendFails, sub_Exit, Crash
  <2>2. CASE backlog' = backlog
    BY <1>1, <2>2 DEF Waiting, InBacklog
  <2>3. CASE backlog' = Append(backlog, p)
    <3>1. /\ DOMAIN backlog' = 1..(Len(backlog) + 1) /\ DOMAIN backlog = 1..Len(backlog)
          /\ \A n \in 1..Len(backlog) : backlog'[n] = backlog[n]
          /\ backlog'[Len(backlog) + 1] = p
          /\ Len(backlog) \in Nat
      BY <1>1, <2>3, AppendProperties, LenProperties
    <3>2. \A q \in Procs : q # p /\ InBacklog(q)' => InBacklog(q)
      <4> SUFFICES ASSUME NEW q \in Procs, q # p, NEW n \in DOMAIN backlog', backlog'[n] = q
                   PROVE  n \in DOMAIN backlog /\ backlog[n] = q
        BY DEF InBacklog
      <4>1. n \in 1..Len(backlog)
        BY <3>1
      <4> QED BY <3>1, <4>1
    <3> QED BY <1>1, <3>2 DEF Waiting
  <2> QED BY <2>1, <2>2, <2>3
<1>6. cli'[p] # "off" \/ (cli[p] = "off" /\ Same(p))
  BY <1>1, <1>2 DEF SubscriberNext, Connect, SendId, sub_HandleStdin, sub_stop_program,
     update_subscriptions, HandleServerMsg, sub_BlockedSendFails, sub_Exit, Crash, InLoop, Runs,
     CliState
<1>7. ASSUME ServerUp, Waiting(p)'
      PROVE  /\ Untouched(p)'
             /\ \/ cli'[p] = "connected" /\ up'[p] = <<>>
                \/ cli'[p] = "running" /\ up'[p] = <<IdMsg>>
  <2>1. CASE Connect(p)
    <3>1. cli[p] = "off" /\ Untouched(p) /\ up[p] = <<>>
      BY <2>1 DEF Connect, IdentityInv, IdIsFirst, IInv, StreamShape
    <3>2. ~Waiting(p)
      BY <1>7, <3>1, LoopFacts DEF Waiting, ConnectionsOnce, Accepted, IInv, TypeOK,
         ServerTypeOK, DescriptorsAgree, InLoopOfMain
    <3>3. listening
      BY <1>1, <1>7, <2>1, <3>2 DEF Connect, Waiting, InBacklog
    <3>4. cli'[p] = "connected" /\ UNCHANGED <<up, down, srvSees, cliSees>>
      BY <1>1, <2>1, <3>3 DEF Connect
    <3> QED BY <3>1, <3>4 DEF Untouched
  <2>2. ASSUME ~Connect(p)
        PROVE  /\ Untouched(p)'
               /\ \/ cli'[p] = "connected" /\ up'[p] = <<>>
                  \/ cli'[p] = "running" /\ up'[p] = <<IdMsg>>
    <3>1. Waiting(p)
      BY <1>1, <1>2, <1>7, <2>2 DEF Waiting, InBacklog, SubscriberNext, SendId, sub_HandleStdin,
         HandleServerMsg, sub_BlockedSendFails, sub_Exit, Crash
    <3>2. /\ Untouched(p)
          /\ \/ cli[p] = "connected" /\ up[p] = <<>>
             \/ cli[p] = "running" /\ up[p] = <<IdMsg>>
      BY <1>7, <3>1 DEF IdentityInv, IdIsFirst
    <3>3. SendId(p)
      <4>1. ~HandleServerMsg(p) /\ ~sub_BlockedSendFails(p) /\ ~sub_Exit(p)
        BY <3>2 DEF HandleServerMsg, sub_BlockedSendFails, sub_Exit, CliSendFails, Untouched
      <4>2. ~sub_HandleStdin(p)
        <5>1. InLoop(p) => up[p] = <<IdMsg>> /\ 1 \in DOMAIN up[p] /\ up[p][1].type = "id"
          BY <3>2 DEF InLoop, IdMsg
        <5> QED BY <5>1 DEF sub_HandleStdin, Patient
      <4> QED BY <1>2, <2>2, <4>1, <4>2 DEF SubscriberNext, Crash
    <3>4. /\ cli[p] = "connected" /\ cli'[p] = "running" /\ up'[p] = Append(<<>>, IdMsg)
          /\ UNCHANGED <<down, srvSees, cliSees>>
      BY <1>1, <3>2, <3>3 DEF SendId, SendUp, Sendable, Untouched
    <3> QED BY <3>2, <3>4 DEF Untouched
  <2> QED BY <2>1, <2>2
<1>8. IdIsFirst'
  <2>1. \A q \in Procs : cli'[q] = "off" => Untouched(q)'
    BY <1>4, <1>6 DEF IdentityInv, IdIsFirst, Untouched, Same
  <2>2. ASSUME ServerUp', NEW q \in Procs, Waiting(q)'
        PROVE  /\ Untouched(q)'
               /\ \/ cli'[q] = "connected" /\ up'[q] = <<>>
                  \/ cli'[q] = "running" /\ up'[q] = <<IdMsg>>
    <3>1. ServerUp
      BY <1>1, <2>2 DEF ServerUp
    <3>2. CASE q = p
      BY <1>7, <2>2, <3>1, <3>2
    <3>3. CASE q # p
      BY <1>4, <1>5, <2>2, <3>1, <3>3 DEF IdentityInv, IdIsFirst, Untouched, Same
    <3> QED BY <3>2, <3>3
  <2> QED BY <2>1, <2>2 DEF IdIsFirst
<1> QED BY <1>3, <1>8 DEF IdentityInv

LEMMA EnvironmentIdentity ==
  ASSUME IdentityInv, UdpArrival \/ TypeLine \/ UNCHANGED vars
  PROVE  IdentityInv'
<1>1. UNCHANGED <<srvVars, cli, sock, up, down, srvSees, cliSees, backlog>>
  BY DEF UdpArrival, TypeLine, vars, sockVars, cliVars
<1> QED BY <1>1 DEF IdentityInv, IdIsFirst, OwnIds, Untouched, Waiting, InBacklog, Connected,
        ServerUp, srvVars

LEMMA InitIdentity == Init => IdentityInv
<1> SUFFICES ASSUME Init PROVE IdentityInv
  OBVIOUS
<1>1. /\ subs = <<>> /\ Len(subs) = 0 /\ backlog = <<>> /\ pc = "pass"
      /\ \A n \in DOMAIN backlog : FALSE
      /\ \A q \in Procs : Untouched(q)
  BY DEF Init, SocketsInit, ServerInit, Untouched
<1> QED BY <1>1 DEF IdentityInv, IdIsFirst, OwnIds, Waiting, InBacklog

-----------------------------------------------------------------------------
(* IdentityInv is inductive relative to IInv and LoopInv.                   *)
THEOREM IdentityInvariance ==
  ASSUME Faults = {}
  PROVE  Spec => []IdentityInv
<1>1. Init => IdentityInv
  BY InitIdentity
<1>2. IInv /\ LoopInv /\ IdentityInv /\ [Next]_vars => IdentityInv'
  BY ServerIdentity, SubscriberIdentity, EnvironmentIdentity DEF Next, LoopInv
<1> QED BY <1>1, <1>2, Invariance, LoopInvariance, PTL DEF Spec

(* With patient users and without crashes a connection is registered under  *)
(* the id of the process behind it, for any number of processes, restarts   *)
(* and reused descriptors (handle_listen_tcp_msg lines 364-380).            *)
THEOREM IdentityOfSessions ==
  ASSUME Faults = {}
  PROVE  Spec => []RegisteredUnderOwnId
<1>1. IInv /\ IdentityInv => RegisteredUnderOwnId
  <2> SUFFICES ASSUME IInv, IdentityInv, InLoopOfMain, NEW k \in DOMAIN subs, Connected(k)
               PROVE  subs[k].id = IdOf[sock[subs[k].sock_fd]]
    BY DEF RegisteredUnderOwnId
  <2> QED BY LoopFacts DEF IdentityInv, OwnIds, ServerUp, InLoopOfMain
<1> QED BY <1>1, IdentityInvariance, Invariance, PTL

(* And no two processes that were started with one id ever have a session   *)
(* at a time (handle_listen_tcp_msg lines 370-378).                         *)
THEOREM OneSession ==
  ASSUME Faults = {}
  PROVE  Spec => []OneSessionPerId
<1>1. IInv /\ IdentityInv => OneSessionPerId
  <2> SUFFICES ASSUME IInv, IdentityInv, InLoopOfMain, NEW fd \in PollFds, NEW gd \in PollFds,
                      IdOf[sock[fd]] = IdOf[sock[gd]]
               PROVE  fd = gd
    BY DEF OneSessionPerId
  <2> DEFINE k == subs_by_fd[fd]
             h == subs_by_fd[gd]
  <2>1. /\ k \in 1..Len(subs) /\ subs[k].sock_fd = fd /\ fd \in Fds
        /\ h \in 1..Len(subs) /\ subs[h].sock_fd = gd /\ gd \in Fds
    BY LoopFacts DEF PollAgrees, FdsAgree
  <2>2. Connected(k) /\ Connected(h)
    BY <2>1, SocketsAssumption, ServerAssumption DEF Connected
  <2>3. subs[k].id = IdOf[sock[fd]] /\ subs[h].id = IdOf[sock[gd]]
    BY <2>1, <2>2 DEF IdentityInv, OwnIds, ServerUp, InLoopOfMain
  <2>4. k = h
    BY <2>1, <2>3, LoopFacts DEF IdsAgree
  <2> QED BY <2>1, <2>4
<1> QED BY <1>1, IdentityInvariance, Invariance, PTL

-----------------------------------------------------------------------------
(* The subscriptions, without faults.                                       *)

(* Replaying commands.                                                      *)

(* f[k] is what is left of topics after k messages, for k up to n.          *)
Replays(f, n, topics, msgs) ==
  /\ f \in [0..n -> SUBSET Storable]
  /\ f[0] = topics
  /\ \A k \in 1..n : f[k] = NewTopics(f[k - 1], msgs[k])

LEMMA NewTopicsType ==
  ASSUME NEW topics \in SUBSET Storable, NEW m \in UpMsg
  PROVE  NewTopics(topics, m) \in SUBSET Storable
BY DEF NewTopics, UpMsg, IdMsg, CloseMsg, OtherMsg

LEMMA ReplayExists ==
  ASSUME NEW topics \in SUBSET Storable, NEW msgs \in Seq(UpMsg)
  PROVE  \E f : Replays(f, Len(msgs), topics, msgs)
<1> DEFINE S == {n \in 0..Len(msgs) : \E f : Replays(f, n, topics, msgs)}
<1>1. Len(msgs) \in Nat /\ \A n \in 1..Len(msgs) : msgs[n] \in UpMsg
  BY LenProperties, ElementOfSeq
<1>2. 0 \in S
  <2>1. Replays([n \in 0..0 |-> topics], 0, topics, msgs)
    BY DEF Replays
  <2>2. 0 \in 0..Len(msgs)
    BY <1>1
  <2> QED BY <2>1, <2>2
<1>3. ASSUME NEW k \in 0..(Len(msgs) - 1), k \in S
      PROVE  k + 1 \in S
  <2>1. PICK f : Replays(f, k, topics, msgs)
    BY <1>3
  <2> DEFINE new == NewTopics(f[k], msgs[k + 1])
             g == [n \in 0..(k + 1) |-> IF n = k + 1 THEN new ELSE f[n]]
  <2>2. new \in SUBSET Storable
    <3>1. f[k] \in SUBSET Storable /\ msgs[k + 1] \in UpMsg
      BY <1>1, <2>1 DEF Replays
    <3> QED BY <3>1, NewTopicsType
  <2>3. g[k] = f[k] /\ g[k + 1] = new
    BY <1>1
  <2>4. g \in [0..(k + 1) -> SUBSET Storable] /\ g[0] = topics
    <3> HIDE DEF new
    <3> QED BY <1>1, <2>1, <2>2 DEF Replays
  <2>5. ASSUME NEW n \in 1..(k + 1)
        PROVE  g[n] = NewTopics(g[n - 1], msgs[n])
    <3>1. CASE n = k + 1
      BY <2>3, <3>1
    <3>2. CASE n # k + 1
      <4>1. n \in 1..k /\ n - 1 \in 0..(k + 1) /\ n \in 0..(k + 1) /\ n - 1 # k + 1
        BY <1>1, <3>2
      <4>2. g[n] = f[n] /\ g[n - 1] = f[n - 1]
        BY <3>2, <4>1
      <4> QED BY <2>1, <4>1, <4>2 DEF Replays
    <3> QED BY <3>1, <3>2
  <2>6. Replays(g, k + 1, topics, msgs)
    <3> HIDE DEF g
    <3> QED BY <2>4, <2>5 DEF Replays
  <2>7. k + 1 \in 0..Len(msgs)
    BY <1>1
  <2> QED BY <2>6, <2>7
<1>4. Len(msgs) \in 0..Len(msgs)
  BY <1>1
<1>5. Len(msgs) \in S
  <2> HIDE DEF S
  <2> QED BY <1>1, <1>2, <1>3, <1>4, Induction
<1> QED BY <1>5

LEMMA ReplaysUnique ==
  ASSUME NEW topics, NEW msgs, NEW n \in Nat, NEW f, NEW g,
         f[0] = g[0],
         \A k \in 1..n : f[k] = NewTopics(f[k - 1], msgs[k]),
         \A k \in 1..n : g[k] = NewTopics(g[k - 1], msgs[k])
  PROVE  f[n] = g[n]
<1> DEFINE S == {k \in 0..n : f[k] = g[k]}
<1>1. 0 \in S
  OBVIOUS
<1>2. ASSUME NEW k \in 0..(n - 1), k \in S
      PROVE  k + 1 \in S
  <2>1. k + 1 \in 1..n /\ (k + 1) - 1 = k /\ f[k] = g[k]
    BY <1>2
  <2>2. f[k + 1] = NewTopics(f[k], msgs[k + 1]) /\ g[k + 1] = NewTopics(g[k], msgs[k + 1])
    BY <2>1
  <2> QED BY <2>1, <2>2
<1>3. n \in S
  <2> HIDE DEF S
  <2> QED BY <1>1, <1>2, Induction
<1> QED BY <1>3

(* Replay is the last value of any such f.                                  *)
LEMMA ReplayIs ==
  ASSUME NEW topics \in SUBSET Storable, NEW msgs \in Seq(UpMsg),
         NEW f, Replays(f, Len(msgs), topics, msgs)
  PROVE  Replay(topics, msgs) = f[Len(msgs)]
<1> DEFINE Step(g) == [n \in 0..Len(msgs) |->
                         IF n = 0 THEN topics ELSE NewTopics(g[n - 1], msgs[n])]
           after == CHOOSE g : g = Step(g)
<1>1. Len(msgs) \in Nat
  BY LenProperties
<1>2. f = Step(f)
  <2>1. /\ f = [n \in 0..Len(msgs) |-> f[n]]
        /\ f[0] = topics
        /\ \A n \in 1..Len(msgs) : f[n] = NewTopics(f[n - 1], msgs[n])
    BY DEF Replays
  <2>2. \A n \in 0..Len(msgs) : f[n] = IF n = 0 THEN topics ELSE NewTopics(f[n - 1], msgs[n])
    BY <1>1, <2>1
  <2> QED BY <2>1, <2>2
<1>3. after = Step(after)
  <2> HIDE DEF Step
  <2> QED BY <1>2
<1>4. Replay(topics, msgs) = after[Len(msgs)]
  BY DEF Replay
<1> HIDE DEF after
<1>5. /\ after[0] = topics
      /\ \A n \in 1..Len(msgs) : after[n] = NewTopics(after[n - 1], msgs[n])
  <2>1. \A n \in 0..Len(msgs) :
          after[n] = IF n = 0 THEN topics ELSE NewTopics(after[n - 1], msgs[n])
    BY <1>3
  <2> QED BY <1>1, <2>1
<1>6. after[Len(msgs)] = f[Len(msgs)]
  <2>1. f[0] = topics /\ \A n \in 1..Len(msgs) : f[n] = NewTopics(f[n - 1], msgs[n])
    BY DEF Replays
  <2>2. after[0] = f[0]
    BY <1>5, <2>1
  <2> HIDE DEF Step
  <2> QED BY <1>1, <1>5, <2>1, <2>2, ReplaysUnique
<1> QED BY <1>4, <1>6

LEMMA ReplayNothing ==
  ASSUME NEW topics \in SUBSET Storable
  PROVE  Replay(topics, <<>>) = topics
<1>1. <<>> \in Seq(UpMsg) /\ Len(<<>>) = 0
  OBVIOUS
<1>2. PICK f : Replays(f, Len(<<>>), topics, <<>>)
  BY <1>1, ReplayExists
<1>3. f[0] = topics
  BY <1>2 DEF Replays
<1> QED BY <1>1, <1>2, <1>3, ReplayIs

LEMMA ReplayType ==
  ASSUME NEW topics \in SUBSET Storable, NEW msgs \in Seq(UpMsg)
  PROVE  Replay(topics, msgs) \in SUBSET Storable
<1>1. PICK f : Replays(f, Len(msgs), topics, msgs)
  BY ReplayExists
<1>2. Len(msgs) \in 0..Len(msgs)
  BY LenProperties
<1> QED BY <1>1, <1>2, ReplayIs DEF Replays

(* A message that comes is the last to be handled.                          *)
LEMMA ReplayAppend ==
  ASSUME NEW topics \in SUBSET Storable, NEW msgs \in Seq(UpMsg), NEW m \in UpMsg
  PROVE  Replay(topics, Append(msgs, m)) = NewTopics(Replay(topics, msgs), m)
<1> DEFINE more == Append(msgs, m)
<1>1. /\ more \in Seq(UpMsg) /\ Len(more) = Len(msgs) + 1 /\ Len(msgs) \in Nat
      /\ \A n \in 1..Len(msgs) : more[n] = msgs[n]
      /\ more[Len(msgs) + 1] = m
  BY AppendProperties, LenProperties
<1> HIDE DEF more
<1>2. PICK f : Replays(f, Len(more), topics, more)
  BY <1>1, ReplayExists
<1>3. PICK g : Replays(g, Len(msgs), topics, msgs)
  BY ReplayExists
<1>4. f[Len(msgs)] = g[Len(msgs)]
  <2>1. f[0] = g[0]
    BY <1>2, <1>3 DEF Replays
  <2>2. \A k \in 1..Len(msgs) : f[k] = NewTopics(f[k - 1], msgs[k])
    BY <1>1, <1>2 DEF Replays
  <2>3. \A k \in 1..Len(msgs) : g[k] = NewTopics(g[k - 1], msgs[k])
    BY <1>3 DEF Replays
  <2> QED BY <1>1, <2>1, <2>2, <2>3, ReplaysUnique
<1>5. f[Len(msgs) + 1] = NewTopics(f[Len(msgs)], m)
  <2>1. Len(msgs) + 1 \in 1..Len(more) /\ (Len(msgs) + 1) - 1 = Len(msgs)
    BY <1>1
  <2> QED BY <1>1, <1>2, <2>1 DEF Replays
<1>6. Replay(topics, more) = f[Len(msgs) + 1] /\ Replay(topics, msgs) = g[Len(msgs)]
  BY <1>1, <1>2, <1>3, ReplayIs
<1> QED BY <1>4, <1>5, <1>6 DEF more

(* A message that is read is the first to be handled.                       *)
LEMMA ReplayTail ==
  ASSUME NEW topics \in SUBSET Storable, NEW msgs \in Seq(UpMsg), msgs # <<>>
  PROVE  Replay(NewTopics(topics, Head(msgs)), Tail(msgs)) = Replay(topics, msgs)
<1> DEFINE m == Head(msgs)
           rest == Tail(msgs)
           next == NewTopics(topics, m)
<1>1. /\ m = msgs[1] /\ m \in UpMsg /\ rest \in Seq(UpMsg)
      /\ Len(msgs) \in Nat \ {0} /\ Len(rest) = Len(msgs) - 1
      /\ \A n \in 1..(Len(msgs) - 1) : rest[n] = msgs[n + 1]
  BY HeadTailProperties, LenProperties, EmptySeq
<1>2. next \in SUBSET Storable
  BY <1>1, NewTopicsType
<1> HIDE DEF rest, next
<1>3. PICK f : Replays(f, Len(msgs), topics, msgs)
  BY ReplayExists
<1>4. PICK g : Replays(g, Len(rest), next, rest)
  BY <1>1, <1>2, ReplayExists
<1> DEFINE h == [n \in Nat |-> f[n + 1]]
<1>5. h[0] = g[0]
  <2>1. f[1] = NewTopics(f[0], msgs[1]) /\ f[0] = topics
    BY <1>1, <1>3 DEF Replays
  <2>2. h[0] = f[1]
    OBVIOUS
  <2>3. g[0] = next
    BY <1>4 DEF Replays
  <2> QED BY <1>1, <2>1, <2>2, <2>3 DEF next
<1>6. \A k \in 1..Len(rest) : h[k] = NewTopics(h[k - 1], rest[k])
  <2> SUFFICES ASSUME NEW k \in 1..Len(rest) PROVE h[k] = NewTopics(h[k - 1], rest[k])
    OBVIOUS
  <2>1. k + 1 \in 1..Len(msgs) /\ rest[k] = msgs[k + 1] /\ (k + 1) - 1 = k
    BY <1>1
  <2>2. h[k] = f[k + 1] /\ h[k - 1] = f[k]
    BY <1>1
  <2> QED BY <1>3, <2>1, <2>2 DEF Replays
<1>7. \A k \in 1..Len(rest) : g[k] = NewTopics(g[k - 1], rest[k])
  BY <1>4 DEF Replays
<1>8. h[Len(rest)] = f[Len(msgs)]
  BY <1>1
<1>9. h[Len(rest)] = g[Len(rest)]
  <2> HIDE DEF h
  <2> QED BY <1>1, <1>5, <1>6, <1>7, ReplaysUnique
<1>10. Replay(topics, msgs) = f[Len(msgs)]
  BY <1>3, ReplayIs
<1>11. Replay(next, rest) = g[Len(rest)]
  BY <1>1, <1>2, <1>4, ReplayIs
<1>12. Replay(next, rest) = Replay(topics, msgs)
  BY <1>8, <1>9, <1>10, <1>11
<1> QED BY <1>12 DEF rest, next
-----------------------------------------------------------------------------
(* The inductive invariant.                                                 *)

(* What is sent but not read yet of the commands for a record.              *)
Pending(k) == IF Connected(k) THEN up[sock[subs[k].sock_fd]] ELSE <<>>

NotClosing(msgs, n) == \A h \in 1..n : msgs[h].type # "close"

(* A process that has a session is served until it exits: it has not been   *)
(* told to close, and CLOSE_SUB_MSG is the last message it sends.           *)
InSession(p) ==
  /\ cliSees[p] = "open"
  /\ \A n \in DOMAIN down[p] : down[p][n] # CloseSrvMsg
  /\ \/ cli[p] = "running" /\ srvSees[p] = "open" /\ NotClosing(up[p], Len(up[p]))
     \/ /\ cli[p] \in {"closing", "exited"}
        /\ up[p] # <<>> /\ up[p][Len(up[p])].type = "close"
        /\ NotClosing(up[p], Len(up[p]) - 1)

RecordApplied(k) ==
  /\ Connected(k) => InSession(sock[subs[k].sock_fd])
  /\ want[subs[k].id] = Replay(subs[k].topics, Pending(k))

CommandsInv ==
  InLoopOfMain =>
    /\ \A p \in Procs : ~skew[p]
    /\ \A id \in SubIds : subs_by_id[id] = 0 => want[id] = {}
    /\ \A k \in 1..Len(subs) : RecordApplied(k)

LEMMA RecordKept ==
  ASSUME NEW k, RecordApplied(k), subs'[k] = subs[k], want'[subs[k].id] = want[subs[k].id],
         Connected(k) =>
           LET p == sock[subs[k].sock_fd] IN
           sock'[subs[k].sock_fd] = p /\ up'[p] = up[p] /\ (InSession(p) => InSession(p)')
  PROVE  RecordApplied(k)'
<1>1. Connected(k)' <=> Connected(k)
  BY DEF Connected
<1>2. Pending(k)' = Pending(k)
  BY <1>1 DEF Pending
<1> QED BY <1>1, <1>2 DEF RecordApplied

(* Steps that read no message and change no record.                         *)
LEMMA QuietCommands ==
  ASSUME IInv, CommandsInv, InLoopOfMain,
         UNCHANGED <<subs, subs_by_id, skew, want>>,
         \A k \in 1..Len(subs) : Connected(k) =>
           LET p == sock[subs[k].sock_fd] IN
           sock'[subs[k].sock_fd] = p /\ up'[p] = up[p] /\ (InSession(p) => InSession(p)')
  PROVE  CommandsInv'
<1>1. \A k \in 1..Len(subs) : RecordApplied(k)
  BY DEF CommandsInv
<1>2. \A k \in 1..Len(subs) : RecordApplied(k)'
  BY <1>1, RecordKept
<1> QED BY <1>2 DEF CommandsInv

LEMMA SessionFacts ==
  ASSUME IInv, CommandsInv, InLoopOfMain
  PROVE  /\ \A k \in 1..Len(subs) :
              subs[k].id \in SubIds /\ subs[k].topics \in SUBSET Storable /\ Pending(k) \in Seq(UpMsg)
         /\ \A k \in 1..Len(subs) : Connected(k) =>
              /\ subs[k].sock_fd \in Fds
              /\ sock[subs[k].sock_fd] \in Procs
              /\ InSession(sock[subs[k].sock_fd])
         /\ up \in [Procs -> Seq(UpMsg)] /\ down \in [Procs -> Seq(DownMsg)]
         /\ srvSees \in [Procs -> View] /\ cliSees \in [Procs -> View]
         /\ want \in [SubIds -> SUBSET Storable] /\ skew \in [Procs -> BOOLEAN]
<1>1. ServerUp
  BY DEF InLoopOfMain, ServerUp
<1>2. up \in [Procs -> Seq(UpMsg)] /\ <<>> \in Seq(UpMsg)
  BY DEF IInv, TypeOK, SocketsTypeOK
<1>3. \A k \in 1..Len(subs) : Pending(k) \in Seq(UpMsg)
  BY <1>1, <1>2, RecordFacts DEF Pending
<1> QED BY <1>1, <1>2, <1>3, RecordFacts
        DEF CommandsInv, RecordApplied, IInv, TypeOK, SocketsTypeOK, ServerTypeOK

-----------------------------------------------------------------------------
(* The server.                                                              *)

LEMMA PassCommands ==
  ASSUME IInv, CommandsInv, InLoopOfMain, InLoopOfMain', Poll \/ HandleStdin \/ HandleUdp, Others
  PROVE  CommandsInv'
<1>1. UNCHANGED <<subs, subs_by_id, skew, want, cli, sock, up, down, srvSees, cliSees>>
  BY DEF Poll, HandleStdin, HandleUdp, Die, InLoopOfMain, sockVars, Others, cliVars
<1>2. \A p \in Procs : InSession(p) => InSession(p)'
  BY <1>1 DEF InSession
<1> QED BY <1>1, <1>2, QuietCommands, SessionFacts

LEMMA HandleListenCommands ==
  ASSUME IInv, CommandsInv, InLoopOfMain, InLoopOfMain', HandleListen, Others
  PROVE  CommandsInv'
<1>1. /\ UNCHANGED <<subs, subs_by_id, skew, want, cli, up, down, srvSees, cliSees>>
      /\ \E fd \in FreeFds : sock' = [sock EXCEPT ![fd] = Head(backlog)]
  BY DEF HandleListen, Die, InLoopOfMain, Others, cliVars
<1>2. \A p \in Procs : InSession(p) => InSession(p)'
  BY <1>1 DEF InSession
<1>3. \A fd \in Fds : sock[fd] \in Procs => sock'[fd] = sock[fd]
  BY <1>1, SocketsAssumption DEF FreeFds, IInv, TypeOK, SocketsTypeOK
<1> QED BY <1>1, <1>2, <1>3, QuietCommands, SessionFacts

(* A datagram is no CLOSE_SRV_MSG, and who has exited gets it or not.       *)
LEMMA FanoutCommands ==
  ASSUME IInv, DeliveryInv, CommandsInv, InLoopOfMain, InLoopOfMain', Fanout, Others
  PROVE  CommandsInv'
<1> DEFINE p == sock[subs[cur].sock_fd]
<1>1. /\ UNCHANGED <<subs, subs_by_id, skew, want, cli, sock, up, cliSees>>
      /\ UNCHANGED <<down, srvSees>> \/ (Connected(cur) /\ SendDown(p, dgram))
      /\ cur \in 1..Len(subs)
      /\ dgram.n \in 1..arrived /\ arrived \in Nat
  BY DEF Fanout, Eligible, InLoopOfMain, Others, cliVars, IInv, CursorInRange, DeliveryInv,
         HandedOut, TypeOK
<1>2. ASSUME Connected(cur), SendDown(p, dgram), NEW q \in Procs, InSession(q)
      PROVE  InSession(q)'
  <2>1. p \in Procs /\ down \in [Procs -> Seq(DownMsg)] /\ srvSees \in [Procs -> View]
    BY <1>1, <1>2, SessionFacts
  <2>2. CASE q # p
    BY <1>1, <1>2, <2>1, <2>2, SendDownTouches DEF InSession
  <2>3. CASE q = p
    <3> HIDE DEF p
    <3>1. CASE srvSees[p] = "open" /\ down' = [down EXCEPT ![p] = Append(@, dgram)] /\ srvSees' = srvSees
      <4>1. /\ DOMAIN down[p] = 1..Len(down[p]) /\ DOMAIN down'[p] = 1..(Len(down[p]) + 1)
            /\ Len(down[p]) \in Nat
            /\ \A n \in 1..Len(down[p]) : down'[p][n] = down[p][n]
            /\ down'[p][Len(down[p]) + 1] = dgram
        <5>1. dgram \in DownMsg /\ down[p] \in Seq(DownMsg) /\ down'[p] = Append(down[p], dgram)
          BY <2>1, <3>1 DEF IInv, TypeOK, ServerTypeOK
        <5> QED BY <5>1, AppendProperties, LenProperties
      <4>2. dgram # CloseSrvMsg
        BY <1>1 DEF CloseSrvMsg
      <4>3. \A n \in DOMAIN down'[p] : down'[p][n] # CloseSrvMsg
        BY <1>2, <2>3, <4>1, <4>2 DEF InSession
      <4> QED BY <1>1, <1>2, <2>3, <3>1, <4>3 DEF InSession
    <3>2. CASE srvSees[p] = "fin" /\ down' = down
      BY <1>1, <1>2, <2>3, <3>2 DEF InSession
    <3> QED BY <1>2, <3>1, <3>2 DEF SendDown
  <2> QED BY <2>2, <2>3
<1>3. \A q \in Procs : InSession(q) => InSession(q)'
  <2>1. CASE UNCHANGED <<down, srvSees>>
    BY <1>1, <2>1 DEF InSession
  <2> QED BY <1>1, <1>2, <2>1
<1> QED BY <1>1, <1>3, QuietCommands, SessionFacts

(* A record whose process is touched by no step.                            *)
LEMMA OtherRecord ==
  ASSUME IInv, CommandsInv, InLoopOfMain, NEW k \in 1..Len(subs),
         subs'[k] = subs[k], want'[subs[k].id] = want[subs[k].id],
         Connected(k) =>
           LET p == sock[subs[k].sock_fd] IN
           sock'[subs[k].sock_fd] = p /\ Same(p) /\ cli'[p] = cli[p]
  PROVE  RecordApplied(k)'
<1>1. RecordApplied(k)
  BY DEF CommandsInv
<1>2. \A p \in Procs : Same(p) /\ cli'[p] = cli[p] /\ InSession(p) => InSession(p)'
  BY DEF InSession, Same
<1> QED BY <1>1, <1>2, SessionFacts, RecordKept DEF Same

(* A new record has nothing, a revived one what it had.                     *)
LEMMA ReceiveIdCommands ==
  ASSUME IInv, ConnectionsOnce, IdentityInv, CommandsInv, Overlong = {}, ReceiveId, Others
  PROVE  CommandsInv'
<1> PICK p : p = sock[new_fd]
  OBVIOUS
<1> DEFINE id == IdOf[p]
<1> PICK k : k = subs_by_id[id]
  OBVIOUS
<1>1. /\ pc = "recv_id" /\ cli' = cli /\ UNCHANGED <<sock, cliSees>>
      /\ InLoopOfMain /\ ServerUp
      /\ new_fd \in Fds /\ p \in Procs
      /\ sock \in [Fds -> Procs \cup {NoProc}]
      /\ up \in [Procs -> Seq(UpMsg)]
      /\ Waiting(p)
      /\ up[p] = <<IdMsg>> /\ up' = [up EXCEPT ![p] = <<>>]
      /\ skew' = [skew EXCEPT ![p] = FALSE]
  BY ReadIdFacts, Zenon
<1>2. \A h \in 1..Len(subs) : Connected(h) => subs[h].sock_fd \in Fds \ {new_fd}
  BY ReadIdFacts, Zenon
<1>3. want' = want /\ InLoopOfMain'
  BY ReadIdFacts DEF Others
<1>4. \/ k = 0 /\ add_new_sub(new_fd, id) /\ UNCHANGED <<down, srvSees>>
      \/ /\ k # 0 /\ ~Connected(k)
         /\ revive_sub_connection(k, new_fd) /\ UNCHANGED <<down, srvSees>>
      \/ SendDown(p, CloseSrvMsg) /\ UNCHANGED <<subs, subs_by_id>>
  BY ReadIdFacts, Zenon DEF IsPast, Registered, srv_tells_sub
<1>5. /\ subs \in Seq([id : SubIds, sock_fd : Fds \cup {NoFd}, topics : SUBSET Storable])
      /\ Len(subs) \in Nat /\ id \in SubIds /\ k \in Nat
      /\ subs_by_id \in [SubIds -> Nat]
  BY <1>1, LoopFacts, ServerAssumption DEF SubIds
<1>6. /\ \A q \in Procs : ~skew[q]
      /\ \A d \in SubIds : subs_by_id[d] = 0 => want[d] = {}
      /\ skew \in [Procs -> BOOLEAN]
  BY <1>1, SessionFacts DEF CommandsInv
<1>7. \A q \in Procs : ~skew'[q]
  BY <1>1, <1>6
<1>8. \A h \in 1..Len(subs) : Connected(h) =>
        /\ sock[subs[h].sock_fd] \in Procs /\ sock[subs[h].sock_fd] # p
        /\ sock'[subs[h].sock_fd] = sock[subs[h].sock_fd]
  <2>1. \A h \in 1..Len(subs) : Connected(h) =>
          sock[subs[h].sock_fd] \in Procs /\ sock[subs[h].sock_fd] # p
    BY <1>1, <1>2, RecordFacts, SocketsAssumption DEF ConnectionsOnce
  <2> QED BY <1>1, <2>1
<1>9. \A q \in Procs : q # p => Same(q)
  <2>1. \A q \in Procs : q # p => up'[q] = up[q]
    BY <1>1
  <2>2. CASE UNCHANGED <<down, srvSees>>
    BY <1>1, <2>1, <2>2 DEF Same
  <2>3. CASE SendDown(p, CloseSrvMsg)
    BY <1>1, <2>1, <2>3, SendDownTouches DEF Same
  <2> QED BY <1>4, <2>2, <2>3
<1>10. \A h \in 1..Len(subs) : subs'[h] = subs[h] => RecordApplied(h)'
  <2> SUFFICES ASSUME NEW h \in 1..Len(subs), subs'[h] = subs[h]
               PROVE  RecordApplied(h)'
    OBVIOUS
  <2> QED BY <1>1, <1>3, <1>8, <1>9, OtherRecord
<1>11. ASSUME UNCHANGED <<down, srvSees>>,
              NEW h, subs'[h].sock_fd = new_fd, subs'[h].id = id,
              subs'[h].topics \in SUBSET Storable, want[id] = subs'[h].topics
       PROVE  RecordApplied(h)'
  <2>1. Untouched(p) /\ cli[p] = "running"
    BY <1>1, EmptySeq DEF IdentityInv, IdIsFirst, IdMsg
  <2>2. up'[p] = <<>> /\ Len(<<>>) = 0
    BY <1>1
  <2>3. InSession(p)'
    <3>1. cliSees'[p] = "open" /\ srvSees'[p] = "open" /\ down'[p] = <<>> /\ cli'[p] = "running"
      BY <1>1, <1>11, <2>1 DEF Untouched
    <3>2. \A n \in DOMAIN down'[p] : down'[p][n] # CloseSrvMsg
      <4>1. \A n \in DOMAIN <<>> : FALSE
        OBVIOUS
      <4> QED BY <3>1, <4>1
    <3>3. NotClosing(up[p], Len(up[p]))'
      BY <2>2 DEF NotClosing
    <3> QED BY <3>1, <3>2, <3>3 DEF InSession
  <2>4. sock'[subs'[h].sock_fd] = p /\ Pending(h)' = <<>>
    <3>1. Connected(h)'
      BY <1>1, <1>11, SocketsAssumption, ServerAssumption DEF Connected
    <3> QED BY <1>1, <1>11, <2>2, <3>1 DEF Pending
  <2>5. want'[subs'[h].id] = Replay(subs'[h].topics, <<>>)
    BY <1>3, <1>11, ReplayNothing
  <2> QED BY <2>3, <2>4, <2>5 DEF RecordApplied
<1>12. CASE k = 0 /\ add_new_sub(new_fd, id) /\ UNCHANGED <<down, srvSees>>
  <2> DEFINE new == [id |-> id, sock_fd |-> new_fd, topics |-> {}]
  <2>1. subs' = Append(subs, new) /\ subs_by_id' = [subs_by_id EXCEPT ![id] = Len(subs) + 1]
    BY <1>12 DEF add_new_sub
  <2>2. /\ Len(subs') = Len(subs) + 1
        /\ \A h \in 1..Len(subs) : subs'[h] = subs[h]
        /\ subs'[Len(subs) + 1] = new
    <3> HIDE DEF new
    <3> QED BY <1>1, <2>1, LoopFacts, AppendProperties
  <2>3. want[id] = {}
    BY <1>5, <1>6, <1>12
  <2>4. ASSUME NEW h, h = Len(subs) + 1
        PROVE  RecordApplied(h)'
    <3>1. subs'[h].sock_fd = new_fd /\ subs'[h].id = id /\ subs'[h].topics = {}
      BY <2>2, <2>4
    <3> HIDE DEF id, new
    <3> QED BY <1>11, <1>12, <2>3, <3>1
  <2>5. \A h \in 1..Len(subs') : RecordApplied(h)'
    BY <1>5, <1>10, <2>2, <2>4
  <2>6. \A d \in SubIds : subs_by_id'[d] = 0 => want'[d] = {}
    BY <1>3, <1>5, <1>6, <2>1
  <2> QED BY <1>7, <2>5, <2>6 DEF CommandsInv
<1>13. CASE /\ k # 0 /\ ~Connected(k)
            /\ revive_sub_connection(k, new_fd) /\ UNCHANGED <<down, srvSees>>
  <2>1. subs' = [subs EXCEPT ![k].sock_fd = new_fd] /\ subs_by_id' = subs_by_id
    BY <1>13 DEF revive_sub_connection
  <2>2. k \in 1..Len(subs) /\ subs[k].id = id /\ subs[k].topics \in SUBSET Storable
    <3>1. k \in 1..Len(subs) /\ subs[k].id = id
      BY <1>1, <1>5, <1>13, LoopFacts DEF IdsAgree
    <3> QED BY <1>1, <3>1, SessionFacts
  <2>3. /\ Len(subs') = Len(subs)
        /\ \A h \in 1..Len(subs) : h # k => subs'[h] = subs[h]
        /\ subs'[k].id = id /\ subs'[k].sock_fd = new_fd /\ subs'[k].topics = subs[k].topics
    BY <1>1, <2>1, <2>2, LoopFacts
  <2>4. want[id] = subs[k].topics
    <3>1. RecordApplied(k) /\ Pending(k) = <<>>
      BY <1>1, <1>13, <2>2 DEF CommandsInv, Pending
    <3> QED BY <2>2, <3>1, ReplayNothing DEF RecordApplied
  <2>5. RecordApplied(k)'
    <3> HIDE DEF id
    <3> QED BY <1>11, <1>13, <2>2, <2>3, <2>4
  <2>6. \A h \in 1..Len(subs') : RecordApplied(h)'
    BY <1>10, <2>3, <2>5
  <2> QED BY <1>3, <1>6, <1>7, <2>1, <2>6 DEF CommandsInv
<1>14. CASE SendDown(p, CloseSrvMsg) /\ UNCHANGED <<subs, subs_by_id>>
  BY <1>3, <1>6, <1>7, <1>10, <1>14 DEF CommandsInv
<1> QED BY <1>4, <1>12, <1>13, <1>14

(* The refused connection is nobody's session.                              *)
LEMMA CloseRefusedCommands ==
  ASSUME IInv, ConnectionsOnce, CommandsInv, CloseRefused, Others
  PROVE  CommandsInv'
<1>1. /\ pc = "refusing" /\ InLoopOfMain /\ ServerUp /\ cli' = cli
      /\ UNCHANGED <<subs, subs_by_id, skew, want, up, down, srvSees>>
      /\ sock' = [sock EXCEPT ![new_fd] = NoProc]
      /\ cliSees' = [cliSees EXCEPT ![sock[new_fd]] = ClosedWith(up[sock[new_fd]])]
  BY DEF CloseRefused, srv_closes_sub_connection, InLoopOfMain, ServerUp, Others, cliVars
<1>2. /\ new_fd \in Fds /\ subs_by_fd[new_fd] = 0
      /\ sock \in [Fds -> Procs \cup {NoProc}] /\ cliSees \in [Procs -> View]
  BY <1>1, LoopFacts DEF DescriptorsAgree, PollAgrees, IInv, TypeOK, ServerTypeOK, SocketsTypeOK
<1>3. ASSUME NEW k \in 1..Len(subs), Connected(k)
      PROVE  LET p == sock[subs[k].sock_fd] IN
             sock'[subs[k].sock_fd] = p /\ up'[p] = up[p] /\ (InSession(p) => InSession(p)')
  <2> PICK fd, p : fd = subs[k].sock_fd /\ p = sock[fd]
    OBVIOUS
  <2>1. fd \in Fds /\ fd # new_fd /\ p \in Procs
    <3>1. Len(subs) \in Nat
      BY <1>1, RecordFacts
    <3> QED BY <1>1, <1>2, <1>3, <3>1, RecordFacts
  <2>2. p # sock[new_fd]
    BY <1>2, <2>1, SocketsAssumption DEF ConnectionsOnce
  <2>3. sock'[fd] = p /\ cliSees'[p] = cliSees[p]
    BY <1>1, <1>2, <2>1, <2>2
  <2> QED BY <1>1, <2>3 DEF InSession
<1> QED BY <1>1, <1>3, QuietCommands

(* The message read moves from the connection to the record; CLOSE_SUB_MSG  *)
(* leaves nothing behind it.                                                *)
LEMMA HandleSubMsgCommands ==
  ASSUME IInv, ConnectionsOnce, CommandsInv, InLoopOfMain, InLoopOfMain',
         NEW j \in 1..Len(pfds), HandleSubMsg(j), Others
  PROVE  CommandsInv'
<1>0. PICK k, fd, p, msgs :
        k = subs_by_fd[pfds[j].fd] /\ fd = subs[k].sock_fd /\ p = sock[fd] /\ msgs = up[p]
  OBVIOUS
<1> DEFINE msg == Head(msgs)
           rest == Tail(msgs)
<1>1. /\ k \in 1..Len(subs) /\ fd \in Fds /\ fd = pfds[j].fd /\ p \in Procs
      /\ Connected(k)
      /\ sock \in [Fds -> Procs \cup {NoProc}]
      /\ up \in [Procs -> Seq(UpMsg)]
      /\ cliSees \in [Procs -> View]
      /\ skew \in [Procs -> BOOLEAN]
      /\ Len(subs) \in Nat
      /\ subs \in Seq([id : SubIds, sock_fd : Fds \cup {NoFd}, topics : SUBSET Storable])
  BY <1>0, EntryFacts, LoopFacts, ServerAssumption, SessionFacts DEF Connected
<1>2. /\ InSession(p) /\ ~skew[p]
      /\ subs[k].topics \in SUBSET Storable /\ subs[k].id \in SubIds
      /\ Pending(k) = up[p]
      /\ want[subs[k].id] = Replay(subs[k].topics, up[p])
  BY <1>0, <1>1, SessionFacts DEF CommandsInv, RecordApplied, Pending
<1>3. want' = want /\ cli' = cli /\ UNCHANGED <<down, srvSees, subs_by_id>>
  BY DEF Others, cliVars, HandleSubMsg, Die, InLoopOfMain
<1>4. up[p] # <<>>
  <2>1. Readable(fd)
    BY <1>0, Zenon DEF HandleSubMsg, Die, InLoopOfMain
  <2> QED BY <1>0, <1>1, <1>2, <2>1 DEF InSession, Readable
<1>5. /\ up' = [up EXCEPT ![p] = rest] /\ skew' = [skew EXCEPT ![p] = FALSE]
      /\ \/ msg.type = "close" /\ sub_closes_srv_connection(k, j, rest)
         \/ /\ msg.type # "close"
            /\ subs' = [subs EXCEPT ![k].topics = NewTopics(@, msg)]
            /\ UNCHANGED <<sock, cliSees>>
  <2>1. PICK r \in ReadMsgs(p) :
          \/ Die
          \/ /\ up' = [up EXCEPT ![p] = r.rest]
             /\ skew' = [skew EXCEPT ![p] = r.skew]
             /\ \/ r.msg.type = "close" /\ sub_closes_srv_connection(k, j, r.rest)
                \/ /\ r.msg.type # "close"
                   /\ subs' = [subs EXCEPT ![k].topics = NewTopics(@, r.msg)]
                   /\ UNCHANGED <<sock, cliSees>>
    <3>1. ~Die
      BY DEF Die, InLoopOfMain
    <3> QED BY <1>0, <3>1, Zenon DEF HandleSubMsg
  <2>2. r.msg = msg /\ r.rest = rest /\ r.skew = FALSE
    BY <1>0, <1>2, <1>4 DEF ReadMsgs
  <2>3. ~Die
    BY DEF Die, InLoopOfMain
  <2> HIDE DEF msg, rest
  <2> QED BY <2>1, <2>2, <2>3, Zenon
<1>6. /\ msg \in UpMsg /\ msg = msgs[1] /\ rest \in Seq(UpMsg)
      /\ Len(msgs) \in Nat \ {0} /\ Len(rest) = Len(msgs) - 1
      /\ \A n \in 1..(Len(msgs) - 1) : rest[n] = msgs[n + 1]
  <2>1. msgs \in Seq(UpMsg) /\ msgs # <<>>
    BY <1>0, <1>1, <1>4
  <2> QED BY <2>1, HeadTailProperties, LenProperties, EmptySeq
<1>12. Replay(NewTopics(subs[k].topics, msg), rest) = Replay(subs[k].topics, msgs)
  BY <1>0, <1>1, <1>2, <1>4, ReplayTail
<1> HIDE DEF msg, rest
<1>7. \A q \in Procs : ~skew'[q]
  BY <1>1, <1>5 DEF CommandsInv
<1>8. \A d \in SubIds : subs_by_id'[d] = 0 => want'[d] = {}
  BY <1>3 DEF CommandsInv
<1>9. ASSUME NEW h \in 1..Len(subs), h # k, subs'[h] = subs[h],
             \A gd \in Fds \ {fd} : sock'[gd] = sock[gd],
             \A q \in Procs \ {p} : cliSees'[q] = cliSees[q]
      PROVE  RecordApplied(h)'
  <2>1. ASSUME Connected(h)
        PROVE  LET q == sock[subs[h].sock_fd] IN
               sock'[subs[h].sock_fd] = q /\ Same(q) /\ cli'[q] = cli[q]
    <3> PICK gd : gd = subs[h].sock_fd
      OBVIOUS
    <3>1. gd \in Fds /\ gd # fd /\ sock[gd] \in Procs
      BY <1>0, <1>1, <1>9, <2>1, RecordFacts DEF InLoopOfMain, ServerUp
    <3>2. sock[gd] # p
      BY <1>0, <1>1, <3>1, SocketsAssumption DEF ConnectionsOnce
    <3>3. up'[sock[gd]] = up[sock[gd]]
      BY <1>1, <1>5, <3>1, <3>2
    <3> QED BY <1>3, <1>9, <3>1, <3>2, <3>3 DEF Same
  <2> QED BY <1>3, <1>9, <2>1, OtherRecord
<1>10. CASE msg.type = "close" /\ sub_closes_srv_connection(k, j, rest)
  <2>1. /\ sock' = [sock EXCEPT ![fd] = NoProc]
        /\ cliSees' = [cliSees EXCEPT ![p] = ClosedWith(rest)]
        /\ subs' = [subs EXCEPT ![k].sock_fd = NoFd]
    BY <1>0, <1>10 DEF sub_closes_srv_connection
  <2>2. /\ Len(subs') = Len(subs)
        /\ \A h \in 1..Len(subs) : h # k => subs'[h] = subs[h]
        /\ subs'[k].id = subs[k].id /\ subs'[k].sock_fd = NoFd
        /\ subs'[k].topics = subs[k].topics
    BY <1>1, <2>1, LoopFacts
  <2>3. rest = <<>>
    <3>1. Len(msgs) = 1
      <4>1. CASE NotClosing(msgs, Len(msgs))
        BY <1>6, <1>10, <4>1 DEF NotClosing
      <4>2. CASE NotClosing(msgs, Len(msgs) - 1)
        <5>1. Len(msgs) > 1 => 1 \in 1..(Len(msgs) - 1)
          BY <1>6
        <5> QED BY <1>6, <1>10, <4>2, <5>1 DEF NotClosing
      <4> QED BY <1>0, <1>2, <4>1, <4>2 DEF InSession
    <3> QED BY <1>6, <3>1, EmptySeq
  <2>4. NewTopics(subs[k].topics, msg) = subs[k].topics
    BY <1>10 DEF NewTopics
  <2>5. RecordApplied(k)'
    <3>1. ~Connected(k)' /\ Pending(k)' = <<>>
      BY <2>2 DEF Connected, Pending
    <3>2. want'[subs'[k].id] = Replay(subs'[k].topics, <<>>)
      BY <1>0, <1>2, <1>3, <1>12, <2>2, <2>3, <2>4
    <3> QED BY <3>1, <3>2 DEF RecordApplied
  <2>6. \A h \in 1..Len(subs) : h # k => RecordApplied(h)'
    <3>1. /\ \A gd \in Fds \ {fd} : sock'[gd] = sock[gd]
          /\ \A q \in Procs \ {p} : cliSees'[q] = cliSees[q]
      BY <1>1, <2>1
    <3> QED BY <1>9, <2>2, <3>1
  <2> QED BY <1>7, <1>8, <2>2, <2>5, <2>6 DEF CommandsInv
<1>11. CASE /\ msg.type # "close"
            /\ subs' = [subs EXCEPT ![k].topics = NewTopics(@, msg)]
            /\ UNCHANGED <<sock, cliSees>>
  <2>1. /\ Len(subs') = Len(subs)
        /\ \A h \in 1..Len(subs) : h # k => subs'[h] = subs[h]
        /\ subs'[k].id = subs[k].id /\ subs'[k].sock_fd = fd
        /\ subs'[k].topics = NewTopics(subs[k].topics, msg)
    <3>1. PICK topics : topics = NewTopics(subs[k].topics, msg)
      OBVIOUS
    <3>2. subs' = [subs EXCEPT ![k].topics = topics]
      BY <1>11, <3>1
    <3>3. /\ Len(subs') = Len(subs)
          /\ \A h \in 1..Len(subs) : h # k => subs'[h] = subs[h]
          /\ subs'[k].id = subs[k].id /\ subs'[k].sock_fd = subs[k].sock_fd
          /\ subs'[k].topics = topics
      BY <1>1, <3>2, LoopFacts
    <3> QED BY <1>0, <3>1, <3>3, Zenon
  <2>2. up'[p] = rest
    BY <1>1, <1>5
  <2>3. InSession(p)'
    <3>1. UNCHANGED <<cliSees, down, srvSees, cli>>
      BY <1>3, <1>11
    <3>2. CASE NotClosing(msgs, Len(msgs)) /\ cli[p] = "running" /\ srvSees[p] = "open"
      <4>1. NotClosing(rest, Len(rest))
        BY <1>6, <3>2 DEF NotClosing
      <4>2. NotClosing(up[p], Len(up[p]))'
        BY <2>2, <4>1 DEF NotClosing
      <4> QED BY <1>2, <3>1, <3>2, <4>2 DEF InSession
    <3>3. CASE /\ NotClosing(msgs, Len(msgs) - 1) /\ cli[p] \in {"closing", "exited"}
               /\ msgs[Len(msgs)].type = "close"
      <4>1. Len(msgs) > 1
        BY <1>6, <1>11, <3>3
      <4>2. /\ rest # <<>> /\ rest[Len(rest)] = msgs[Len(msgs)]
            /\ NotClosing(rest, Len(rest) - 1)
        <5>1. NotClosing(rest, Len(rest) - 1)
          <6> SUFFICES ASSUME NEW h \in 1..(Len(rest) - 1) PROVE rest[h].type # "close"
            BY DEF NotClosing
          <6>1. h \in 1..(Len(msgs) - 1) /\ h + 1 \in 1..(Len(msgs) - 1)
            BY <1>6
          <6>2. rest[h] = msgs[h + 1]
            BY <1>6, <6>1
          <6>3. msgs[h + 1].type # "close"
            BY <3>3, <6>1 DEF NotClosing
          <6> QED BY <6>2, <6>3
        <5>2. rest[Len(rest)] = msgs[Len(msgs)]
          BY <1>6, <4>1
        <5> QED BY <1>6, <4>1, <5>1, <5>2, EmptySeq
      <4>3. up'[p] # <<>> /\ up'[p][Len(up'[p])].type = "close"
        BY <2>2, <3>3, <4>2
      <4>4. NotClosing(up[p], Len(up[p]) - 1)'
        BY <2>2, <4>2 DEF NotClosing
      <4> QED BY <1>2, <3>1, <3>3, <4>3, <4>4 DEF InSession
    <3> QED BY <1>0, <1>2, <3>2, <3>3 DEF InSession
  <2>4. RecordApplied(k)'
    <3>1. sock'[subs'[k].sock_fd] = p /\ Pending(k)' = rest
      BY <1>0, <1>1, <1>11, <2>1, <2>2, ServerAssumption DEF Pending, Connected
    <3>2. want'[subs'[k].id] = Replay(subs'[k].topics, rest)
      BY <1>0, <1>2, <1>3, <1>12, <2>1
    <3> QED BY <2>3, <3>1, <3>2 DEF RecordApplied
  <2>5. \A h \in 1..Len(subs) : h # k => RecordApplied(h)'
    BY <1>9, <1>11, <2>1
  <2> QED BY <1>7, <1>8, <2>1, <2>4, <2>5 DEF CommandsInv
<1> QED BY <1>5, <1>10, <1>11

-----------------------------------------------------------------------------
(* The subscribers.                                                         *)

(* Another process's commands are for another record.                       *)
LEMMA WantOfOthers ==
  ASSUME IInv, InLoopOfMain, NEW p, NoteCommands(p),
         NEW id \in SubIds, \A k \in 1..Len(subs) : SessionOf(p, k) => subs[k].id # id
  PROVE  want'[id] = want[id]
BY LoopFacts DEF NoteCommands

(* A process in a session sends a command or CLOSE_SUB_MSG, or reads.       *)
LEMMA SessionSteps ==
  ASSUME IInv, Faults = {}, NEW p \in Procs, InSession(p), SubscriberNext(p)
  PROVE  /\ cliSees' = cliSees
         /\ \/ /\ UNCHANGED <<up, left, cli, srvSees>>
               /\ down[p] # <<>> /\ down' = [down EXCEPT ![p] = Tail(@)]
            \/ /\ up' = [up EXCEPT ![p] = Append(@, CloseMsg)]
               /\ cli[p] = "running" /\ cli' = [cli EXCEPT ![p] = "closing"]
               /\ UNCHANGED <<left, down>>
            \/ /\ cli[p] = "closing" /\ cli' = [cli EXCEPT ![p] = "exited"]
               /\ UNCHANGED <<up, left, down>>
            \/ /\ \E m \in [type : {"subscribe", "unsubscribe"}, topic : Patterns] :
                    up' = [up EXCEPT ![p] = Append(@, m)]
               /\ cli[p] = "running" /\ left'[p] # left[p]
               /\ UNCHANGED <<cli, down, srvSees>>
<1>1. cliSees[p] = "open" /\ cli[p] \in {"running", "closing", "exited"} /\ ~Crash(p)
  BY DEF InSession, Crash
<1>2. left \in [Procs -> Nat] /\ down \in [Procs -> Seq(DownMsg)]
  BY DEF IInv, TypeOK, SubscriberTypeOK, SocketsTypeOK
<1>3. CASE sub_HandleStdin(p)
  <2>1. cli[p] = "running" /\ down' = down
    BY <1>1, <1>3 DEF sub_HandleStdin, InLoop
  <2>2. CASE sub_stop_program(p)
    BY <1>1, <2>1, <2>2 DEF sub_stop_program, SendUp, Sendable
  <2>3. ASSUME NEW type \in {"subscribe", "unsubscribe"}, NEW topic \in Patterns,
               update_subscriptions(p, type, topic)
        PROVE  /\ up' = [up EXCEPT ![p] = Append(@, [type |-> type, topic |-> topic])]
               /\ left'[p] # left[p]
               /\ UNCHANGED <<cli, srvSees, cliSees>>
    BY <1>1, <1>2, <2>3 DEF update_subscriptions, SendUp, Sendable
  <2> QED BY <1>3, <2>1, <2>2, <2>3 DEF sub_HandleStdin
<1>4. CASE HandleServerMsg(p)
  <2>1. down[p] # <<>> => Head(down[p]) # CloseSrvMsg
    <3> SUFFICES ASSUME down[p] # <<>> PROVE Head(down[p]) # CloseSrvMsg
      OBVIOUS
    <3>1. down[p] \in Seq(DownMsg)
      BY <1>2
    <3>2. 1 \in DOMAIN down[p] /\ Head(down[p]) = down[p][1]
      BY <3>1
    <3> QED BY <3>2 DEF InSession
  <2> QED BY <1>1, <1>4, <2>1 DEF HandleServerMsg
<1>5. CASE sub_Exit(p)
  BY <1>5 DEF sub_Exit
<1>6. ~Connect(p) /\ ~SendId(p) /\ ~sub_BlockedSendFails(p)
  BY <1>1 DEF Connect, SendId, sub_BlockedSendFails, CliSendFails
<1> QED BY <1>1, <1>3, <1>4, <1>5, <1>6 DEF SubscriberNext

(* What p sends is behind what it has sent.                                 *)
LEMMA SentIsLast ==
  ASSUME NEW msgs \in Seq(UpMsg), NEW m \in UpMsg, NEW more, more = Append(msgs, m)
  PROVE  /\ more # msgs /\ more # <<>>
         /\ more[Len(more)] = m
         /\ NotClosing(msgs, Len(msgs)) => NotClosing(more, Len(more) - 1)
         /\ NotClosing(msgs, Len(msgs)) /\ m.type # "close" => NotClosing(more, Len(more))
<1>1. /\ more \in Seq(UpMsg) /\ Len(more) = Len(msgs) + 1 /\ Len(msgs) \in Nat
      /\ \A n \in 1..Len(msgs) : more[n] = msgs[n]
      /\ more[Len(msgs) + 1] = m
  BY AppendProperties, LenProperties
<1>2. more # msgs
  BY <1>1
<1>3. more # <<>>
  BY <1>1, EmptySeq
<1> QED BY <1>1, <1>2, <1>3 DEF NotClosing

LEMMA SessionCommands ==
  ASSUME IInv, ConnectionsOnce, CommandsInv, InLoopOfMain, Faults = {},
         NEW p \in Procs, SubscriberStep(p), NEW k \in 1..Len(subs), SessionOf(p, k)
  PROVE  RecordApplied(k)'
<1> PICK id : id = subs[k].id
  OBVIOUS
<1>0. UNCHANGED <<subs, sock>> /\ SubscriberNext(p) /\ NoteCommands(p)
  BY DEF SubscriberStep, SubscriberNext, Connect, SendId, sub_HandleStdin, HandleServerMsg,
         sub_BlockedSendFails, sub_Exit, Crash, srvVars
<1>1. /\ Connected(k) /\ sock[subs[k].sock_fd] = p
      /\ InSession(p) /\ Pending(k) = up[p]
      /\ id \in SubIds /\ subs[k].topics \in SUBSET Storable
      /\ want[id] = Replay(subs[k].topics, up[p])
      /\ k \in DOMAIN subs
  BY SessionFacts, LoopFacts DEF SessionOf, CommandsInv, RecordApplied, Pending
<1>2. /\ up \in [Procs -> Seq(UpMsg)] /\ down \in [Procs -> Seq(DownMsg)]
      /\ srvSees \in [Procs -> View] /\ cli \in [Procs -> CliState]
      /\ cliSees' = cliSees /\ cliSees[p] = "open"
  BY <1>0, <1>1, SessionSteps
     DEF IInv, TypeOK, SocketsTypeOK, SubscriberTypeOK, InSession
<1>3. want'[id] = IF left'[p] # left[p] /\ up'[p] # up[p]
                  THEN NewTopics(want[id], up'[p][Len(up'[p])]) ELSE want[id]
  BY <1>0, <1>1 DEF NoteCommands, SessionOf
<1>4. ASSUME InSession(p)', want'[id] = Replay(subs[k].topics, up'[p])
      PROVE  RecordApplied(k)'
  <2>1. Connected(k)' /\ sock'[subs'[k].sock_fd] = p /\ Pending(k)' = up'[p]
    BY <1>0, <1>1 DEF Connected, Pending
  <2> QED BY <1>0, <1>4, <2>1 DEF RecordApplied
<1>5. CASE /\ UNCHANGED <<up, left, cli, srvSees>>
           /\ down[p] # <<>> /\ down' = [down EXCEPT ![p] = Tail(@)]
  <2>1. \A n \in DOMAIN down'[p] : down'[p][n] # CloseSrvMsg
    <3>1. down[p] \in Seq(DownMsg) /\ down'[p] = Tail(down[p])
      BY <1>2, <1>5
    <3>2. /\ DOMAIN down[p] = 1..Len(down[p]) /\ Len(down[p]) \in Nat
          /\ DOMAIN down'[p] = 1..(Len(down[p]) - 1)
          /\ \A n \in 1..(Len(down[p]) - 1) : down'[p][n] = down[p][n + 1]
      BY <1>5, <3>1, HeadTailProperties, LenProperties
    <3>3. \A n \in DOMAIN down[p] : down[p][n] # CloseSrvMsg
      BY <1>1 DEF InSession
    <3>4. ASSUME NEW n \in 1..(Len(down[p]) - 1)
          PROVE  down'[p][n] # CloseSrvMsg
      <4>1. n + 1 \in 1..Len(down[p])
        BY <3>2
      <4>2. down[p][n + 1] # CloseSrvMsg
        BY <3>2, <3>3, <4>1
      <4> QED BY <3>2, <4>2
    <3> QED BY <3>2, <3>4
  <2>2. InSession(p)'
    BY <1>1, <1>2, <1>5, <2>1 DEF InSession, NotClosing
  <2> QED BY <1>1, <1>3, <1>4, <1>5, <2>2
<1>6. CASE /\ up' = [up EXCEPT ![p] = Append(@, CloseMsg)]
           /\ cli[p] = "running" /\ cli' = [cli EXCEPT ![p] = "closing"]
           /\ UNCHANGED <<left, down>>
  <2>1. up[p] \in Seq(UpMsg) /\ up'[p] = Append(up[p], CloseMsg) /\ CloseMsg \in UpMsg
        /\ CloseMsg.type = "close"
    BY <1>2, <1>6 DEF UpMsg, CloseMsg
  <2>2. /\ up'[p] # <<>> /\ up'[p][Len(up'[p])].type = "close"
        /\ NotClosing(up'[p], Len(up'[p]) - 1)
    <3>1. NotClosing(up[p], Len(up[p]))
      BY <1>1, <1>6 DEF InSession
    <3> QED BY <2>1, <3>1, SentIsLast
  <2>3. NotClosing(up[p], Len(up[p]) - 1)'
    BY <2>2 DEF NotClosing
  <2>4. cli'[p] = "closing" /\ cliSees'[p] = "open"
        /\ \A n \in DOMAIN down'[p] : down'[p][n] # CloseSrvMsg
    BY <1>1, <1>2, <1>6 DEF InSession
  <2>5. InSession(p)'
    BY <2>2, <2>3, <2>4 DEF InSession
  <2>6. Replay(subs[k].topics, up'[p]) = Replay(subs[k].topics, up[p])
    <3>1. Replay(subs[k].topics, up'[p]) = NewTopics(Replay(subs[k].topics, up[p]), CloseMsg)
      BY <1>1, <2>1, ReplayAppend
    <3> QED BY <3>1 DEF NewTopics, CloseMsg
  <2> QED BY <1>1, <1>3, <1>4, <1>6, <2>5, <2>6
<1>7. ASSUME NEW m \in [type : {"subscribe", "unsubscribe"}, topic : Patterns],
             up' = [up EXCEPT ![p] = Append(@, m)],
             cli[p] = "running", left'[p] # left[p],
             UNCHANGED <<cli, down, srvSees>>
      PROVE  RecordApplied(k)'
  <2>1. up[p] \in Seq(UpMsg) /\ up'[p] = Append(up[p], m) /\ m \in UpMsg /\ m.type # "close"
    BY <1>2, <1>7 DEF UpMsg, Storable
  <2>2. /\ up'[p] # up[p] /\ up'[p][Len(up'[p])] = m
        /\ NotClosing(up'[p], Len(up'[p]))
    <3>1. NotClosing(up[p], Len(up[p]))
      BY <1>1, <1>7 DEF InSession
    <3> QED BY <2>1, <3>1, SentIsLast
  <2>3. NotClosing(up[p], Len(up[p]))'
    BY <2>2 DEF NotClosing
  <2>4. InSession(p)'
    BY <1>1, <1>2, <1>7, <2>3 DEF InSession
  <2>5. Replay(subs[k].topics, up'[p]) = NewTopics(Replay(subs[k].topics, up[p]), m)
    BY <1>1, <2>1, ReplayAppend
  <2> QED BY <1>1, <1>3, <1>4, <1>7, <2>2, <2>4, <2>5
<1>8. CASE /\ cli[p] = "closing" /\ cli' = [cli EXCEPT ![p] = "exited"]
           /\ UNCHANGED <<up, left, down>>
  <2>1. cli'[p] = "exited"
    BY <1>2, <1>8
  <2>2. InSession(p)'
    BY <1>1, <1>2, <1>8, <2>1 DEF InSession, NotClosing
  <2> QED BY <1>1, <1>3, <1>4, <1>8, <2>2
<1> QED BY <1>0, <1>1, <1>5, <1>6, <1>7, <1>8, SessionSteps

LEMMA SubscriberCommands ==
  ASSUME IInv, ConnectionsOnce, CommandsInv, InLoopOfMain, Faults = {},
         NEW p \in Procs, SubscriberStep(p)
  PROVE  CommandsInv'
<1>1. UNCHANGED <<subs, subs_by_id, sock, skew>> /\ SubscriberNext(p) /\ NoteCommands(p)
  BY DEF SubscriberStep, SubscriberNext, Connect, SendId, sub_HandleStdin, HandleServerMsg,
         sub_BlockedSendFails, sub_Exit, Crash, srvVars
<1>2. \A h \in 1..Len(subs) : subs[h].id \in SubIds /\ subs_by_id[subs[h].id] = h
  BY LoopFacts DEF IdsAgree
<1>3. \A g, h \in 1..Len(subs) : SessionOf(p, g) /\ SessionOf(p, h) => g = h
  <2> SUFFICES ASSUME NEW g \in 1..Len(subs), NEW h \in 1..Len(subs),
                      SessionOf(p, g), SessionOf(p, h)
               PROVE  g = h
    OBVIOUS
  <2>1. ServerUp
    BY DEF InLoopOfMain, ServerUp
  <2>2. /\ subs[g].sock_fd \in Fds /\ subs_by_fd[subs[g].sock_fd] = g
        /\ subs[h].sock_fd \in Fds /\ subs_by_fd[subs[h].sock_fd] = h
    BY <2>1, RecordFacts DEF SessionOf
  <2>3. subs[g].sock_fd = subs[h].sock_fd
    BY <2>2, SocketsAssumption DEF SessionOf, ConnectionsOnce
  <2> QED BY <2>2, <2>3
<1>4. \A h \in 1..Len(subs) : ~SessionOf(p, h) => RecordApplied(h)'
  <2> SUFFICES ASSUME NEW h \in 1..Len(subs), ~SessionOf(p, h)
               PROVE  RecordApplied(h)'
    OBVIOUS
  <2>1. want'[subs[h].id] = want[subs[h].id]
    BY <1>1, <1>2, WantOfOthers
  <2>2. Connected(h) => sock[subs[h].sock_fd] \in Procs \ {p}
    BY SessionFacts DEF SessionOf
  <2>3. \A q \in Procs \ {p} : Same(q) /\ cli'[q] = cli[q]
    BY <1>1, SubscriberTouches
  <2> QED BY <1>1, <2>1, <2>2, <2>3, OtherRecord
<1>5. \A h \in 1..Len(subs) : RecordApplied(h)'
  BY <1>4, SessionCommands
<1>6. \A d \in SubIds : subs_by_id'[d] = 0 => want'[d] = {}
  <2> SUFFICES ASSUME NEW d \in SubIds, subs_by_id[d] = 0 PROVE want'[d] = {}
    BY <1>1
  <2>1. \A h \in 1..Len(subs) : subs[h].id # d
    BY <1>2, LoopFacts
  <2>2. want'[d] = want[d]
    BY <1>1, <2>1, WantOfOthers
  <2> QED BY <2>2 DEF CommandsInv
<1>7. \A q \in Procs : ~skew'[q]
  BY <1>1 DEF CommandsInv
<1> QED BY <1>1, <1>5, <1>6, <1>7 DEF CommandsInv

LEMMA EnvironmentCommands ==
  ASSUME CommandsInv, UdpArrival \/ TypeLine \/ UNCHANGED vars
  PROVE  CommandsInv'
<1>1. UNCHANGED <<srvVars, cli, sock, up, down, srvSees, cliSees, want>>
  BY DEF UdpArrival, TypeLine, vars, sockVars, cliVars
<1> QED BY <1>1 DEF CommandsInv, RecordApplied, Pending, InSession, NotClosing, Connected,
        InLoopOfMain, srvVars

LEMMA InitCommands == Init => CommandsInv
<1> SUFFICES ASSUME Init PROVE CommandsInv
  OBVIOUS
<1>1. /\ subs = <<>> /\ Len(subs) = 0
      /\ \A q \in Procs : ~skew[q]
      /\ \A d \in SubIds : want[d] = {}
  BY DEF Init, ServerInit
<1> QED BY <1>1 DEF CommandsInv

(* The server does not return to its loop.                                  *)
LEMMA LoopIsLeftOnce ==
  ASSUME ServerNext, InLoopOfMain'
  PROVE  InLoopOfMain
BY DEF ServerNext, InLoopOfMain, Poll, HandleStdin, StopProgram, CloseStopped, HandleUdp, Fanout,
       NextNode, HandleListen, ReceiveId, CloseRefused, HandleSubMsg, BlockedSendFails, Die

LEMMA ServerCommands ==
  ASSUME IInv, ConnectionsOnce, IdentityInv, DeliveryInv, CommandsInv, Overlong = {},
         ServerStep, InLoopOfMain'
  PROVE  CommandsInv'
<1>1. Others /\ ServerNext
  BY DEF ServerStep, Others
<1>2. InLoopOfMain
  BY <1>1, LoopIsLeftOnce
<1>3. ~StopProgram /\ ~CloseStopped /\ ~BlockedSendFails
  BY <1>2 DEF InLoopOfMain, StopProgram, CloseStopped, BlockedSendFails, Die
<1> QED BY <1>1, <1>2, <1>3, PassCommands, FanoutCommands, HandleListenCommands,
           ReceiveIdCommands, CloseRefusedCommands, HandleSubMsgCommands
        DEF ServerNext

-----------------------------------------------------------------------------
(* CommandsInv is inductive relative to the invariants of the registry, the *)
(* loop, the ids and the datagrams.                                         *)
THEOREM CommandsInvariance ==
  ASSUME Faults = {}, Overlong = {}
  PROVE  Spec => []CommandsInv
<1>1. Init => CommandsInv
  BY InitCommands
<1>2. ASSUME IInv, LoopInv, IdentityInv, DeliveryInv, CommandsInv, [Next]_vars
      PROVE  CommandsInv'
  <2>1. CASE ServerStep
    BY <1>2, <2>1, ServerCommands DEF LoopInv, CommandsInv
  <2>2. ASSUME NEW p \in Procs, SubscriberStep(p)
        PROVE  CommandsInv'
    <3>1. pc' = pc
      BY <2>2 DEF SubscriberStep, srvVars
    <3>2. CASE InLoopOfMain
      BY <1>2, <2>2, <3>2, SubscriberCommands DEF LoopInv
    <3>3. CASE ~InLoopOfMain
      BY <3>1, <3>3 DEF CommandsInv, InLoopOfMain
    <3> QED BY <3>2, <3>3
  <2>3. CASE UdpArrival \/ TypeLine \/ UNCHANGED vars
    BY <1>2, <2>3, EnvironmentCommands
  <2> QED BY <1>2, <2>1, <2>2, <2>3 DEF Next
<1> QED BY <1>1, <1>2, Invariance, LoopInvariance, IdentityInvariance, DeliveryInvariance, PTL
        DEF Spec

(* With patient users, ids that fit into their field and without crashes    *)
(* commands take effect once, in order, for the right id, and last over     *)
(* disconnections: what is stored for an id, with the commands in its       *)
(* connection applied, is what its user asked for (handle_sub_msg,          *)
(* revive_sub_connection).                                                  *)
THEOREM CommandsStored ==
  ASSUME Faults = {}, Overlong = {}
  PROVE  Spec => []CommandsApplied
<1>1. IInv /\ CommandsInv => CommandsApplied
  <2> SUFFICES ASSUME IInv, CommandsInv, InLoopOfMain, NEW k \in DOMAIN subs
               PROVE  want[subs[k].id] =
                        Replay(subs[k].topics,
                               IF Connected(k) THEN up[sock[subs[k].sock_fd]] ELSE <<>>)
    BY DEF CommandsApplied
  <2>1. RecordApplied(k)
    BY LoopFacts DEF CommandsInv
  <2> QED BY <2>1 DEF RecordApplied, Pending
<1> QED BY <1>1, CommandsInvariance, Invariance, PTL
=============================================================================
