------------------------- MODULE ClientServerApp_proofs -------------------------
(***************************************************************************)
(* Proofs about ClientServerApp, for every value of its constants.  The     *)
(* inductive invariant is IInv; one lemma shows that each action preserves  *)
(* it.  The second part is about the loop of the server's main: connections *)
(* are those of different processes, every entry that poll() reported is    *)
(* handled once, and no handler blocks where poll() said it can read.       *)
(***************************************************************************)
EXTENDS ClientServerApp, SequenceTheorems, TLAPS

USE DEF IdMsg, CloseMsg, OtherMsg, CloseSrvMsg, NoDgram

(* The parts of IInv that are about the server's own variables.             *)
ServerPart ==
  CursorInRange /\ ReportedIsReady /\ SessionsOpen /\ RegistryConsistent

(* Those parts do not depend on what subscribers, providers and the         *)
(* operator change.                                                        *)
LEMMA OthersKeepServerPart ==
  ASSUME IInv, UNCHANGED <<srvVars, sock>>,
         console # "none" => console' # "none",
         udp # <<>> => udp' # <<>>,
         backlog # <<>> => backlog' # <<>>
  PROVE  ServerPart'
BY DEF IInv, ServerPart, srvVars, CursorInRange, ReportedIsReady, SessionsOpen,
       RegistryConsistent, InLoopOfMain, IdsAgree, FdsAgree, PollAgrees, DescriptorsAgree, PollFds,
       Connected, ServerUp

(* Appending a command, or the id to an empty stream, keeps the streams in  *)
(* shape.                                                                  *)
LEMMA SendUpKeepsStreams ==
  ASSUME TypeOK, StreamShape, NEW p \in Procs, NEW m \in UpMsg, SendUp(p, m),
         m.type \in {"subscribe", "unsubscribe", "close"} \/ up[p] = <<>>
  PROVE  /\ up' \in [Procs -> Seq(UpMsg)]
         /\ cliSees' \in [Procs -> View]
         /\ \A q \in Procs : q # p => up'[q] = up[q]
         /\ \A n \in 2..Len(up'[p]) :
              up'[p][n].type \in {"subscribe", "unsubscribe", "close"}
<1>1. /\ up \in [Procs -> Seq(UpMsg)]
      /\ cliSees \in [Procs -> View]
  BY DEF TypeOK, SocketsTypeOK
<1>2. CASE /\ cliSees[p] = "open"
           /\ up' = [up EXCEPT ![p] = Append(@, m)]
           /\ UNCHANGED cliSees
  <2>1. /\ up[p] \in Seq(UpMsg)
        /\ up'[p] = Append(up[p], m)
    BY <1>1, <1>2
  <2>2. /\ Append(up[p], m) \in Seq(UpMsg)
        /\ Len(Append(up[p], m)) = Len(up[p]) + 1
        /\ \A n \in 1..Len(up[p]) : Append(up[p], m)[n] = up[p][n]
        /\ Append(up[p], m)[Len(up[p]) + 1] = m
    BY <2>1, AppendProperties
  <2>3. up' \in [Procs -> Seq(UpMsg)]
    BY <1>1, <1>2, <2>2
  <2>4. ASSUME NEW n \in 2..Len(up'[p])
        PROVE  up'[p][n].type \in {"subscribe", "unsubscribe", "close"}
    <3>1. Len(up[p]) \in Nat
      BY <2>1
    <3>2. CASE n \in 2..Len(up[p])
      BY <2>1, <2>2, <3>1, <3>2 DEF StreamShape
    <3>3. CASE n = Len(up[p]) + 1
      <4>1. Len(up[p]) # 0
        BY <3>1, <3>3
      <4>2. up[p] # <<>>
        BY <4>1, <2>1
      <4> QED BY <2>1, <2>2, <3>3, <4>2
    <3> QED BY <2>1, <2>2, <3>1, <3>2, <3>3
  <2> QED BY <1>1, <1>2, <2>3, <2>4
<1>3. CASE /\ cliSees[p] = "fin"
           /\ \E view \in {"fin", "finrst"} : cliSees' = [cliSees EXCEPT ![p] = view]
           /\ UNCHANGED up
  <2>1. cliSees' \in [Procs -> View]
    BY <1>1, <1>3 DEF View
  <2> QED BY <1>1, <1>3, <2>1 DEF StreamShape
<1> QED BY <1>2, <1>3 DEF SendUp

(* Sending to a subscriber keeps the types.                                 *)
LEMMA SendDownType ==
  ASSUME down \in [Procs -> Seq(DownMsg)], srvSees \in [Procs -> View],
         NEW p, NEW m \in DownMsg, SendDown(p, m)
  PROVE  /\ down' \in [Procs -> Seq(DownMsg)]
         /\ srvSees' \in [Procs -> View]
<1>1. CASE down' = [down EXCEPT ![p] = Append(@, m)] /\ UNCHANGED srvSees
  <2>1. \A s \in Seq(DownMsg) : Append(s, m) \in Seq(DownMsg)
    BY AppendProperties
  <2>2. p \in Procs => Append(down[p], m) \in Seq(DownMsg)
    BY <2>1
  <2> QED BY <1>1, <2>2
<1>2. CASE /\ \E view \in {"fin", "finrst"} : srvSees' = [srvSees EXCEPT ![p] = view]
           /\ UNCHANGED down
  BY <1>2 DEF View
<1> QED BY <1>1, <1>2 DEF SendDown

(* Closing everything keeps the types.                                      *)
LEMMA CloseEverythingType ==
  ASSUME cliSees \in [Procs -> View], CloseEverything
  PROVE  /\ listening' \in BOOLEAN
         /\ backlog' \in Seq(Procs)
         /\ cliSees' \in [Procs -> View]
BY EmptySeq DEF CloseEverything, View, ClosedWith

(* What a process that ends leaves behind has the type of a view.           *)
LEMMA ClosedWithType ==
  ASSUME NEW unread
  PROVE  ClosedWith(unread) \in View
BY DEF ClosedWith, View

-----------------------------------------------------------------------------
(* The initial states satisfy the inductive invariant.                      *)
LEMMA InitInv == Init => IInv
<1> SUFFICES ASSUME Init PROVE IInv
  OBVIOUS
<1> USE SocketsAssumption, ServerAssumption, SubscriberAssumption
<1>1. TypeOK
  <2>1. SocketsTypeOK
    BY EmptySeq DEF Init, SocketsInit, SocketsTypeOK, View
  <2>2. ServerTypeOK
    BY EmptySeq DEF Init, ServerInit, ServerTypeOK, ServerPc, DownMsg, UpMsg
  <2>3. SubscriberTypeOK
    BY DEF Init, SubscriberInit, SubscriberTypeOK, CliState
  <2> QED BY <2>1, <2>2, <2>3 DEF Init, TypeOK
<1>2. StreamShape
  BY DEF Init, SocketsInit, StreamShape
<1>3. CursorInRange /\ ReportedIsReady /\ SessionsOpen
  BY DEF Init, ServerInit, CursorInRange, ReportedIsReady, SessionsOpen
<1>4. RegistryConsistent
  BY DEF Init, SocketsInit, ServerInit, RegistryConsistent, IdsAgree, FdsAgree,
         PollAgrees, DescriptorsAgree, PollFds
<1> QED BY <1>1, <1>2, <1>3, <1>4 DEF IInv



-----------------------------------------------------------------------------
(* The steps of a subscriber.                                               *)

LEMMA NoteCommandsType ==
  ASSUME NEW p \in Procs, want \in [SubIds -> SUBSET Storable],
         up' \in [Procs -> Seq(UpMsg)],
         up'[p] # <<>> \/ left' = left \/ up' = up,
         NoteCommands(p)
  PROVE  want' \in [SubIds -> SUBSET Storable]
<1>1. CASE left' = left \/ up' = up
  BY <1>1 DEF NoteCommands
<1>2. CASE up'[p] # <<>>
  <2>1. up'[p][Len(up'[p])] \in UpMsg
    BY <1>2, EmptySeq, ElementOfSeq
  <2>2. \A T \in SUBSET Storable : NewTopics(T, up'[p][Len(up'[p])]) \in SUBSET Storable
    BY <2>1 DEF UpMsg, NewTopics
  <2> QED BY <2>2 DEF NoteCommands
<1> QED BY <1>1, <1>2

LEMMA ConnectInv ==
  ASSUME IInv, NEW p \in Procs, Connect(p), NoteCommands(p),
         UNCHANGED <<srvVars, arrived>>
  PROVE  IInv'
<1>1. backlog' \in Seq(Procs)
  <2>1. backlog \in Seq(Procs)
    BY DEF IInv, TypeOK, SocketsTypeOK
  <2>2. Append(backlog, p) \in Seq(Procs)
    BY <2>1, AppendProperties
  <2>3. backlog' = Append(backlog, p) \/ backlog' = backlog
    BY DEF Connect
  <2> QED BY <2>1, <2>2, <2>3
<1>2. cli' \in [Procs -> CliState]
  BY DEF IInv, TypeOK, SubscriberTypeOK, Connect, CliState
<1>3. want' \in [SubIds -> SUBSET Storable]
  BY NoteCommandsType DEF IInv, TypeOK, SocketsTypeOK, Connect
<1>4. TypeOK'
  BY <1>1, <1>2, <1>3 DEF IInv, TypeOK, SocketsTypeOK, SubscriberTypeOK, ServerTypeOK,
     Connect, srvVars
<1>5. StreamShape'
  BY DEF IInv, TypeOK, SubscriberTypeOK, StreamShape, Connect
<1>6. ServerPart'
  <2>1. Append(backlog, p) # <<>>
    <3>1. backlog \in Seq(Procs)
      BY DEF IInv, TypeOK, SocketsTypeOK
    <3> QED BY <3>1, AppendProperties
  <2> QED BY <2>1, OthersKeepServerPart DEF Connect
<1> QED BY <1>4, <1>5, <1>6 DEF IInv, ServerPart

LEMMA SendIdInv ==
  ASSUME IInv, NEW p \in Procs, SendId(p), NoteCommands(p),
         UNCHANGED <<srvVars, arrived>>
  PROVE  IInv'
<1>1. /\ up[p] = <<>>
      /\ TypeOK
      /\ StreamShape
      /\ IdMsg \in UpMsg
  BY DEF IInv, StreamShape, SendId, UpMsg
<1>2. /\ up' \in [Procs -> Seq(UpMsg)]
      /\ cliSees' \in [Procs -> View]
      /\ cli' \in [Procs -> CliState]
      /\ srvSees' \in [Procs -> View]
      /\ StreamShape'
  <2>1. CASE SendUp(p, IdMsg) /\ cli' = [cli EXCEPT ![p] = "running"] /\ UNCHANGED srvSees
    BY <1>1, <2>1, SendUpKeepsStreams
       DEF TypeOK, SocketsTypeOK, SubscriberTypeOK, CliState, StreamShape
  <2>2. CASE /\ cli' = [cli EXCEPT ![p] = "died"]
             /\ sub_close(p)
             /\ UNCHANGED <<up, cliSees>>
    BY <1>1, <2>2, ClosedWithType
       DEF TypeOK, SocketsTypeOK, SubscriberTypeOK, CliState, StreamShape, sub_close
  <2> QED BY <2>1, <2>2 DEF SendId
<1>3. want' \in [SubIds -> SUBSET Storable]
  BY <1>1, <1>2, NoteCommandsType DEF TypeOK, SendId
<1>4. TypeOK'
  BY <1>1, <1>2, <1>3 DEF TypeOK, SocketsTypeOK, SubscriberTypeOK, ServerTypeOK,
     SendId, srvVars
<1>5. ServerPart'
  BY OthersKeepServerPart DEF SendId
<1> QED BY <1>2, <1>4, <1>5 DEF IInv, ServerPart

(* The process ends without a message: whatever the reason, no stream and   *)
(* no view of the server changes.                                          *)
LEMMA DiesTypes ==
  ASSUME TypeOK, StreamShape, NEW p \in Procs,
         cli' = [cli EXCEPT ![p] = "died"], sub_close(p), UNCHANGED <<up, cliSees>>
  PROVE  /\ up' \in [Procs -> Seq(UpMsg)]
         /\ cliSees' \in [Procs -> View]
         /\ srvSees' \in [Procs -> View]
         /\ cli' \in [Procs -> CliState]
         /\ StreamShape'
<1>1. srvSees' \in [Procs -> View]
  BY ClosedWithType DEF TypeOK, SocketsTypeOK, sub_close
<1>2. cli' \in [Procs -> CliState]
  BY DEF TypeOK, SubscriberTypeOK, CliState
<1>3. StreamShape'
  BY DEF StreamShape, TypeOK, SubscriberTypeOK
<1> QED BY <1>1, <1>2, <1>3 DEF TypeOK, SocketsTypeOK

LEMMA sub_HandleStdinInv ==
  ASSUME IInv, NEW p \in Procs, sub_HandleStdin(p), NoteCommands(p),
         UNCHANGED <<srvVars, arrived>>
  PROVE  IInv'
<1>1. TypeOK /\ StreamShape
  BY DEF IInv
<1> DEFINE Typed == /\ up' \in [Procs -> Seq(UpMsg)]
                    /\ cliSees' \in [Procs -> View]
                    /\ srvSees' \in [Procs -> View]
                    /\ cli' \in [Procs -> CliState]
                    /\ StreamShape'
           Noted == up'[p] # <<>> \/ left' = left \/ up' = up
<1>2. ASSUME sub_stop_program(p)
      PROVE  Typed /\ left' = left
  <2>1. left' = left
    BY <1>2 DEF sub_stop_program
  <2>2. Typed
    <3>1. CASE SendUp(p, CloseMsg) /\ cli' = [cli EXCEPT ![p] = "closing"] /\ UNCHANGED srvSees
      <4>1. CloseMsg \in UpMsg /\ CloseMsg.type = "close"
        BY DEF UpMsg
      <4>2. /\ up' \in [Procs -> Seq(UpMsg)]
            /\ cliSees' \in [Procs -> View]
            /\ \A q \in Procs : q # p => up'[q] = up[q]
            /\ \A n \in 2..Len(up'[p]) :
                 up'[p][n].type \in {"subscribe", "unsubscribe", "close"}
        BY <1>1, <3>1, <4>1, SendUpKeepsStreams
      <4>3. srvSees' \in [Procs -> View]
        BY <1>1, <3>1 DEF TypeOK, SocketsTypeOK
      <4>4. cli' \in [Procs -> CliState]
        BY <1>1, <3>1 DEF TypeOK, SubscriberTypeOK, CliState
      <4>5. StreamShape'
        BY <1>1, <3>1, <4>2 DEF StreamShape, TypeOK, SubscriberTypeOK
      <4> QED BY <4>2, <4>3, <4>4, <4>5
    <3>2. CASE cli' = [cli EXCEPT ![p] = "died"] /\ sub_close(p) /\ UNCHANGED <<up, cliSees>>
      BY <1>1, <3>2, DiesTypes
    <3> QED BY <1>2, <3>1, <3>2 DEF sub_stop_program
  <2> QED BY <2>1, <2>2
<1>3. ASSUME NEW type \in {"subscribe", "unsubscribe"}, NEW topic \in Patterns,
             update_subscriptions(p, type, topic)
      PROVE  Typed /\ Noted /\ left' \in [Procs -> Nat]
  <2>1. left' \in [Procs -> Nat]
    BY <1>1, <1>3 DEF TypeOK, SubscriberTypeOK, update_subscriptions
  <2>2. Typed /\ Noted
    <3> DEFINE m == [type |-> type, topic |-> topic]
    <3>1. CASE SendUp(p, m) /\ UNCHANGED <<cli, srvSees>>
      <4>1. m \in UpMsg /\ m.type \in {"subscribe", "unsubscribe", "close"}
        BY DEF UpMsg, Storable
      <4> HIDE DEF m
      <4>2. /\ up' \in [Procs -> Seq(UpMsg)]
            /\ cliSees' \in [Procs -> View]
            /\ \A q \in Procs : q # p => up'[q] = up[q]
            /\ \A n \in 2..Len(up'[p]) :
                 up'[p][n].type \in {"subscribe", "unsubscribe", "close"}
        BY <1>1, <3>1, <4>1, SendUpKeepsStreams
      <4>3. InLoop(p)
        BY DEF sub_HandleStdin
      <4>4. StreamShape'
        BY <1>1, <3>1, <4>2, <4>3 DEF StreamShape, TypeOK, SubscriberTypeOK, InLoop
      <4>5. up'[p] # <<>> \/ up' = up
        <5>1. CASE up' = [up EXCEPT ![p] = Append(@, m)]
          <6>1. up[p] \in Seq(UpMsg) /\ up'[p] = Append(up[p], m)
            BY <1>1, <5>1 DEF TypeOK, SocketsTypeOK
          <6>2. Append(up[p], m) # <<>>
            BY <6>1, <4>1, AppendProperties
          <6> QED BY <6>1, <6>2
        <5> QED BY <3>1, <5>1 DEF SendUp
      <4> QED BY <1>1, <3>1, <4>2, <4>4, <4>5
              DEF TypeOK, SocketsTypeOK, SubscriberTypeOK
    <3>2. CASE cli' = [cli EXCEPT ![p] = "died"] /\ sub_close(p) /\ UNCHANGED <<up, cliSees>>
      BY <1>1, <3>2, DiesTypes
    <3> QED BY <1>3, <3>1, <3>2 DEF update_subscriptions
  <2> QED BY <2>1, <2>2
<1>4. Typed /\ Noted /\ left' \in [Procs -> Nat]
  <2>1. sub_stop_program(p) => Typed /\ Noted /\ left' \in [Procs -> Nat]
    BY <1>1, <1>2 DEF sub_stop_program, TypeOK, SubscriberTypeOK
  <2> QED BY <2>1, <1>3 DEF sub_HandleStdin
<1>5. want' \in [SubIds -> SUBSET Storable]
  BY <1>1, <1>4, NoteCommandsType DEF TypeOK
<1>6. TypeOK'
  BY <1>1, <1>4, <1>5 DEF TypeOK, SocketsTypeOK, SubscriberTypeOK, ServerTypeOK,
     sub_HandleStdin, srvVars
<1>7. ServerPart'
  BY OthersKeepServerPart DEF sub_HandleStdin
<1> QED BY <1>4, <1>6, <1>7 DEF IInv, ServerPart

(* An ending process, or one that only reads, sends nothing: no command is  *)
(* noted.                                                                  *)
LEMMA NoCommand ==
  ASSUME TypeOK, NEW p \in Procs, NoteCommands(p), left' = left
  PROVE  want' \in [SubIds -> SUBSET Storable]
BY DEF NoteCommands, TypeOK

LEMMA sub_ExitInv ==
  ASSUME IInv, NEW p \in Procs, sub_Exit(p), NoteCommands(p),
         UNCHANGED <<srvVars, arrived>>
  PROVE  IInv'
<1>1. TypeOK /\ StreamShape
  BY DEF IInv
<1>2. /\ srvSees' \in [Procs -> View]
      /\ cli' \in [Procs -> CliState]
  BY <1>1, ClosedWithType
     DEF TypeOK, SocketsTypeOK, SubscriberTypeOK, CliState, sub_Exit, sub_close
<1>3. StreamShape'
  BY <1>1 DEF StreamShape, TypeOK, SubscriberTypeOK, sub_Exit
<1>4. want' \in [SubIds -> SUBSET Storable]
  BY <1>1, NoCommand DEF sub_Exit
<1>5. TypeOK'
  BY <1>1, <1>2, <1>4 DEF TypeOK, SocketsTypeOK, SubscriberTypeOK, ServerTypeOK,
     sub_Exit, srvVars
<1>6. ServerPart'
  BY OthersKeepServerPart DEF sub_Exit
<1> QED BY <1>3, <1>5, <1>6 DEF IInv, ServerPart

LEMMA HandleServerMsgInv ==
  ASSUME IInv, NEW p \in Procs, HandleServerMsg(p), NoteCommands(p),
         UNCHANGED <<srvVars, arrived>>
  PROVE  IInv'
<1>1. TypeOK /\ StreamShape
  BY DEF IInv
<1>2. /\ down' \in [Procs -> Seq(DownMsg)]
      /\ srvSees' \in [Procs -> View]
      /\ cli' \in [Procs -> CliState]
      /\ cli' = cli \/ \E c \in CliState \ {"off", "connected"} : cli' = [cli EXCEPT ![p] = c]
  <2>1. CASE /\ down[p] # <<>>
             /\ down' = [down EXCEPT ![p] = Tail(@)]
             /\ IF Head(down[p]) = CloseSrvMsg
                THEN /\ cli' = [cli EXCEPT ![p] = "exited"]
                     /\ srvSees' = [srvSees EXCEPT ![p] = ClosedWith(Tail(down[p]))]
                ELSE UNCHANGED <<cli, srvSees>>
    <3>1. Tail(down[p]) \in Seq(DownMsg)
      BY <1>1, <2>1, HeadTailProperties DEF TypeOK, SocketsTypeOK
    <3>2. down' \in [Procs -> Seq(DownMsg)]
      BY <1>1, <2>1, <3>1 DEF TypeOK, SocketsTypeOK
    <3>3. ClosedWith(Tail(down[p])) \in View
      BY ClosedWithType
    <3>4. srvSees' \in [Procs -> View]
      BY <1>1, <2>1, <3>3 DEF TypeOK, SocketsTypeOK
    <3>5. cli' = cli \/ cli' = [cli EXCEPT ![p] = "exited"]
      BY <2>1
    <3> QED BY <1>1, <3>2, <3>4, <3>5 DEF TypeOK, SubscriberTypeOK, CliState
  <2>2. CASE cli' = [cli EXCEPT ![p] = "spinning"] /\ UNCHANGED <<down, srvSees>>
    BY <1>1, <2>2 DEF TypeOK, SocketsTypeOK, SubscriberTypeOK, CliState
  <2>3. CASE cli' = [cli EXCEPT ![p] = "died"] /\ sub_close(p) /\ UNCHANGED down
    <3>1. srvSees' \in [Procs -> View]
      BY <1>1, <2>3, ClosedWithType DEF TypeOK, SocketsTypeOK, sub_close
    <3> QED BY <1>1, <2>3, <3>1 DEF TypeOK, SocketsTypeOK, SubscriberTypeOK, CliState
  <2> QED BY <2>1, <2>2, <2>3 DEF HandleServerMsg
<1>3. StreamShape'
  BY <1>1, <1>2 DEF StreamShape, TypeOK, SubscriberTypeOK, HandleServerMsg
<1>4. want' \in [SubIds -> SUBSET Storable]
  BY <1>1, NoCommand DEF HandleServerMsg
<1>5. TypeOK'
  BY <1>1, <1>2, <1>4 DEF TypeOK, SocketsTypeOK, SubscriberTypeOK, ServerTypeOK,
     HandleServerMsg, srvVars
<1>6. ServerPart'
  BY OthersKeepServerPart DEF HandleServerMsg
<1> QED BY <1>3, <1>5, <1>6 DEF IInv, ServerPart

LEMMA sub_BlockedSendFailsInv ==
  ASSUME IInv, NEW p \in Procs, sub_BlockedSendFails(p), NoteCommands(p),
         UNCHANGED <<srvVars, arrived>>
  PROVE  IInv'
<1>1. TypeOK /\ StreamShape
  BY DEF IInv
<1>2. /\ srvSees' \in [Procs -> View]
      /\ cli' \in [Procs -> CliState]
      /\ StreamShape'
  BY <1>1, DiesTypes DEF sub_BlockedSendFails
<1>3. want' \in [SubIds -> SUBSET Storable]
  BY <1>1, NoCommand DEF sub_BlockedSendFails
<1>4. TypeOK'
  BY <1>1, <1>2, <1>3 DEF TypeOK, SocketsTypeOK, SubscriberTypeOK, ServerTypeOK,
     sub_BlockedSendFails, srvVars
<1>5. ServerPart'
  BY OthersKeepServerPart DEF sub_BlockedSendFails
<1> QED BY <1>2, <1>4, <1>5 DEF IInv, ServerPart

LEMMA CrashInv ==
  ASSUME IInv, NEW p \in Procs, Crash(p), NoteCommands(p),
         UNCHANGED <<srvVars, arrived>>
  PROVE  IInv'
<1>1. TypeOK /\ StreamShape
  BY DEF IInv
<1>2. /\ srvSees' \in [Procs -> View]
      /\ cli' \in [Procs -> CliState]
  BY <1>1, ClosedWithType
     DEF Crash, TypeOK, SocketsTypeOK, SubscriberTypeOK, CliState, sub_close
<1>3. /\ up' \in [Procs -> Seq(UpMsg)]
      /\ StreamShape'
  <2> DEFINE n == IF CliSending(p) THEN UpCap ELSE Len(up[p])
             s == SubSeq(up[p], 1, n)
  <2>1. up[p] \in Seq(UpMsg) /\ up \in [Procs -> Seq(UpMsg)]
    BY <1>1 DEF TypeOK, SocketsTypeOK
  <2>2. n \in 0..Len(up[p])
    BY <2>1, SocketsAssumption DEF CliSending
  <2>3. \A j \in 1..n : up[p][j] \in UpMsg
    BY <2>1, <2>2
  <2> HIDE DEF n
  <2>4. /\ s \in Seq(UpMsg)
        /\ Len(s) = n
        /\ \A j \in 1..n : s[j] = up[p][j]
    BY <2>1, <2>2, <2>3, SubSeqProperties
  <2>5. up' = [up EXCEPT ![p] = s]
    BY DEF Crash, n
  <2> HIDE DEF s
  <2>6. \A j \in 2..Len(s) : s[j].type \in {"subscribe", "unsubscribe", "close"}
    BY <1>1, <2>1, <2>2, <2>4 DEF StreamShape
  <2>7. cli' = [cli EXCEPT ![p] = "died"]
    BY DEF Crash
  <2> QED BY <1>1, <2>1, <2>4, <2>5, <2>6, <2>7
          DEF StreamShape, TypeOK, SubscriberTypeOK
<1>4. want' \in [SubIds -> SUBSET Storable]
  BY <1>1, NoCommand DEF Crash
<1>5. TypeOK'
  BY <1>1, <1>2, <1>3, <1>4 DEF TypeOK, SocketsTypeOK, SubscriberTypeOK, ServerTypeOK,
     Crash, srvVars
<1>6. ServerPart'
  BY OthersKeepServerPart DEF Crash
<1> QED BY <1>3, <1>5, <1>6 DEF IInv, ServerPart

LEMMA SubscriberStepInv ==
  ASSUME IInv, NEW p \in Procs, SubscriberStep(p)
  PROVE  IInv'
BY ConnectInv, SendIdInv, sub_HandleStdinInv, sub_ExitInv, HandleServerMsgInv,
   sub_BlockedSendFailsInv, CrashInv
   DEF SubscriberStep, SubscriberNext

-----------------------------------------------------------------------------
(* The environment: a datagram arrives, the operator types a line.          *)

LEMMA UdpArrivalInv ==
  ASSUME IInv, UdpArrival
  PROVE  IInv'
<1>1. udp' \in Seq(DownMsg) /\ udp' # <<>>
  <2>1. PICK topic \in Topics : udp' = Append(udp, [n |-> arrived + 1, topic |-> topic])
    BY DEF UdpArrival
  <2>2. udp \in Seq(DownMsg) /\ [n |-> arrived + 1, topic |-> topic] \in DownMsg
    BY DEF IInv, TypeOK, SocketsTypeOK, DownMsg
  <2> QED BY <2>1, <2>2, AppendProperties
<1>2. TypeOK'
  BY <1>1 DEF IInv, TypeOK, SocketsTypeOK, SubscriberTypeOK, ServerTypeOK,
     UdpArrival, srvVars, cliVars
<1>3. StreamShape'
  BY DEF IInv, StreamShape, UdpArrival, cliVars
<1>4. ServerPart'
  BY <1>1, OthersKeepServerPart DEF UdpArrival
<1> QED BY <1>2, <1>3, <1>4 DEF IInv, ServerPart

LEMMA TypeLineInv ==
  ASSUME IInv, TypeLine
  PROVE  IInv'
<1>1. console' \in {"none", "bad", "exit", "eof"}
  BY ClientServerAppAssumption DEF TypeLine
<1>2. TypeOK'
  BY <1>1 DEF IInv, TypeOK, SocketsTypeOK, SubscriberTypeOK, ServerTypeOK,
     TypeLine, srvVars, cliVars
<1>3. StreamShape'
  BY DEF IInv, StreamShape, TypeLine, cliVars
<1>4. ServerPart'
  BY <1>1, OthersKeepServerPart DEF TypeLine
<1> QED BY <1>2, <1>3, <1>4 DEF IInv, ServerPart

-----------------------------------------------------------------------------
(* The steps of the server.                                                 *)

Others == UNCHANGED <<cliVars, arrived, want>>

(* A server that is not running any more has nothing to keep but the types. *)
LEMMA DownKeepsServerPart ==
  ASSUME pc' \in {"exited", "died"}
  PROVE  ServerPart'
BY DEF ServerPart, CursorInRange, ReportedIsReady, SessionsOpen, RegistryConsistent,
       ServerUp, InLoopOfMain

LEMMA StreamsKept ==
  ASSUME IInv, UNCHANGED <<up, cli>>
  PROVE  StreamShape'
BY DEF IInv, StreamShape

LEMMA DieInv ==
  ASSUME IInv, Die, Others
  PROVE  IInv'
<1>1. /\ listening' \in BOOLEAN
      /\ backlog' \in Seq(Procs)
      /\ cliSees' \in [Procs -> View]
  BY CloseEverythingType DEF IInv, TypeOK, SocketsTypeOK, Die
<1>2. TypeOK'
  BY <1>1 DEF IInv, TypeOK, SocketsTypeOK, SubscriberTypeOK, ServerTypeOK, Die, Others,
     cliVars, ServerPc
<1>3. StreamShape'
  BY StreamsKept DEF Die, Others, cliVars
<1>4. ServerPart'
  BY DownKeepsServerPart DEF Die
<1> QED BY <1>2, <1>3, <1>4 DEF IInv, ServerPart

(* poll() changes no descriptor of the array.                               *)
LEMMA PolledProperties ==
  ASSUME IInv
  PROVE  /\ Polled \in Seq([fd : Fds, ready : BOOLEAN])
         /\ Len(Polled) = Len(pfds)
         /\ \A j \in 1..Len(pfds) : Polled[j].fd = pfds[j].fd
<1>1. pfds \in Seq([fd : Fds, ready : BOOLEAN])
  BY DEF IInv, TypeOK, ServerTypeOK
<1>2. Len(pfds) \in Nat /\ \A j \in 1..Len(pfds) : pfds[j].fd \in Fds
  <2>1. \A j \in 1..Len(pfds) : pfds[j] \in [fd : Fds, ready : BOOLEAN]
    BY <1>1, ElementOfSeq
  <2> QED BY <1>1, <2>1, LenProperties
<1>3. \A j \in 1..Len(pfds) : Readable(pfds[j].fd) \in BOOLEAN
  BY DEF Readable
<1>4. Polled \in [1..Len(pfds) -> [fd : Fds, ready : BOOLEAN]]
  BY <1>2, <1>3 DEF Polled
<1>5. Polled \in Seq([fd : Fds, ready : BOOLEAN])
  BY <1>2, <1>4, SeqDef
<1> QED BY <1>2, <1>4, <1>5 DEF Polled

LEMMA PollInv ==
  ASSUME IInv, Poll, Others
  PROVE  IInv'
<1>1. /\ pfds' \in Seq([fd : Fds, ready : BOOLEAN])
      /\ DOMAIN pfds' = DOMAIN pfds
      /\ \A j \in DOMAIN pfds : pfds'[j].fd = pfds[j].fd
      /\ Len(pfds') = Len(pfds)
  <2>1. pfds \in Seq([fd : Fds, ready : BOOLEAN])
    BY DEF IInv, TypeOK, ServerTypeOK
  <2> QED BY <2>1, PolledProperties DEF Poll
<1>2. rev' \subseteq {"stdin", "udp", "tcp"}
  BY DEF Poll, PolledFixed
<1>3. TypeOK'
  BY <1>1, <1>2 DEF IInv, TypeOK, SocketsTypeOK, SubscriberTypeOK, ServerTypeOK, Poll,
     Others, cliVars, sockVars
<1>4. StreamShape'
  BY StreamsKept DEF Poll, Others, cliVars, sockVars
<1>5. PollFds' = PollFds
  BY <1>1 DEF PollFds
<1>6. RegistryConsistent'
  <2>1. InLoopOfMain /\ RegistryConsistent
    BY DEF IInv, Poll, InLoopOfMain
  <2>2. IdsAgree' /\ FdsAgree' /\ DescriptorsAgree'
    BY <1>5, <2>1 DEF RegistryConsistent, IdsAgree, FdsAgree, DescriptorsAgree, Poll,
       sockVars, Connected
  <2>3. PollAgrees'
    BY <1>1, <1>5, <2>1 DEF RegistryConsistent, PollAgrees, Poll
  <2> QED BY <2>2, <2>3 DEF RegistryConsistent
<1>7. CursorInRange' /\ SessionsOpen'
  BY DEF IInv, CursorInRange, SessionsOpen, ServerUp, Connected, Poll, sockVars
<1>8. ReportedIsReady'
  BY DEF ReportedIsReady, Poll, PolledFixed, sockVars
<1> QED BY <1>3, <1>4, <1>6, <1>7, <1>8 DEF IInv

(* A step that leaves the tables and the descriptors alone, and stays in    *)
(* the loop outside handle_listen_tcp_msg, keeps the registry.              *)
LEMMA TablesKept ==
  ASSUME IInv, pc \in {"pass", "fanout"}, pc' \in {"pass", "fanout"},
         UNCHANGED <<sock, pfds, max_nfds, subs, subs_by_id, subs_by_fd, new_fd>>
  PROVE  RegistryConsistent' /\ SessionsOpen'
BY DEF IInv, RegistryConsistent, SessionsOpen, InLoopOfMain, IdsAgree, FdsAgree,
       PollAgrees, DescriptorsAgree, PollFds, Connected, ServerUp

LEMMA HandleStdinInv ==
  ASSUME IInv, HandleStdin, Others
  PROVE  IInv'
<1>1. CASE /\ console' = "none"
           /\ rev' = rev \ {"stdin"}
           /\ UNCHANGED <<pc, cur, listening, backlog, cliSees>>
           /\ UNCHANGED <<sock, up, down, srvSees, udp, i, pfds, max_nfds, subs,
                          subs_by_id, subs_by_fd, new_fd, dgram, skew, frame, served, log>>
  <2>1. TypeOK'
    BY <1>1 DEF IInv, TypeOK, SocketsTypeOK, SubscriberTypeOK, ServerTypeOK, Others, cliVars
  <2>2. StreamShape'
    BY <1>1, StreamsKept DEF Others, cliVars
  <2>3. RegistryConsistent' /\ SessionsOpen'
    BY <1>1, TablesKept DEF HandleStdin
  <2>4. CursorInRange' /\ ReportedIsReady'
    <3>1. pc = "pass"
      BY DEF HandleStdin
    <3> QED BY <1>1, <3>1 DEF IInv, CursorInRange, ReportedIsReady, InLoopOfMain
  <2> QED BY <2>1, <2>2, <2>3, <2>4 DEF IInv
<1>2. CASE /\ console' = "none"
           /\ pc' = "stopping"
           /\ cur' = Len(subs)
           /\ UNCHANGED <<rev, listening, backlog, cliSees>>
           /\ UNCHANGED <<sock, up, down, srvSees, udp, i, pfds, max_nfds, subs,
                          subs_by_id, subs_by_fd, new_fd, dgram, skew, frame, served, log>>
  <2>0. subs \in Seq([id : SubIds, sock_fd : Fds \cup {NoFd}, topics : SUBSET Storable])
    BY DEF IInv, TypeOK, ServerTypeOK
  <2>1. TypeOK'
    BY <1>2, <2>0, LenProperties DEF IInv, TypeOK, SocketsTypeOK, SubscriberTypeOK,
       ServerTypeOK, Others, cliVars, ServerPc
  <2>2. StreamShape'
    BY <1>2, StreamsKept DEF Others, cliVars
  <2>3. CursorInRange'
    BY <1>2, <2>0, LenProperties DEF CursorInRange
  <2>4. SessionsOpen'
    BY <1>2 DEF HandleStdin, IInv, SessionsOpen, ServerUp, Connected
  <2>5. RegistryConsistent' /\ ReportedIsReady'
    BY <1>2 DEF RegistryConsistent, ReportedIsReady, InLoopOfMain
  <2> QED BY <2>1, <2>2, <2>3, <2>4, <2>5 DEF IInv
<1>3. CASE Die
  BY <1>3, DieInv
<1> QED BY <1>1, <1>2, <1>3 DEF HandleStdin

LEMMA StopProgramInv ==
  ASSUME IInv, StopProgram, Others
  PROVE  IInv'
<1> DEFINE Sub == [id : SubIds, sock_fd : Fds \cup {NoFd}, topics : SUBSET Storable]
<1>0. /\ subs \in Seq(Sub)
      /\ cur \in 0..Len(subs)
      /\ sock \in [Fds -> Procs \cup {NoProc}]
      /\ cliSees \in [Procs -> View]
      /\ ServerUp
  BY DEF IInv, TypeOK, SocketsTypeOK, ServerTypeOK, CursorInRange, StopProgram, ServerUp
<1>1. CASE /\ pc' \in {"exited", "died"}
           /\ CloseEverything
           /\ UNCHANGED <<sock, down, srvSees, subs, cur>>
  <2>1. /\ listening' \in BOOLEAN
        /\ backlog' \in Seq(Procs)
        /\ cliSees' \in [Procs -> View]
    BY <1>0, <1>1, CloseEverythingType
  <2>2. TypeOK'
    BY <1>1, <2>1 DEF IInv, TypeOK, SocketsTypeOK, SubscriberTypeOK, ServerTypeOK,
       StopProgram, Others, cliVars, ServerPc
  <2>3. StreamShape'
    BY StreamsKept DEF StopProgram, Others, cliVars
  <2> QED BY <1>1, <2>2, <2>3, DownKeepsServerPart DEF IInv, ServerPart
<1>2. CASE /\ cur > 0
           /\ cur' = cur - 1
           /\ UNCHANGED <<pc, listening, backlog, sock, down, srvSees, cliSees, subs>>
  <2>1. cur' \in 0..Len(subs)
    BY <1>0, <1>2, LenProperties
  <2>2. TypeOK'
    BY <1>2, <2>1 DEF IInv, TypeOK, SocketsTypeOK, SubscriberTypeOK, ServerTypeOK,
       StopProgram, Others, cliVars
  <2>3. StreamShape'
    BY StreamsKept DEF StopProgram, Others, cliVars
  <2>4. CursorInRange' /\ ReportedIsReady' /\ SessionsOpen' /\ RegistryConsistent'
    BY <1>2, <2>1 DEF IInv, CursorInRange, ReportedIsReady, SessionsOpen,
       RegistryConsistent, InLoopOfMain, ServerUp, Connected, StopProgram
  <2> QED BY <2>2, <2>3, <2>4 DEF IInv
<1>3. CASE /\ cur > 0 /\ Connected(cur)
           /\ srv_tells_sub(subs[cur].sock_fd)
           /\ pc' = "closing"
           /\ UNCHANGED <<listening, backlog, sock, cliSees, subs, cur>>
  <2>1. /\ down' \in [Procs -> Seq(DownMsg)]
        /\ srvSees' \in [Procs -> View]
    <3>1. CloseSrvMsg \in DownMsg
      BY DEF DownMsg
    <3> QED BY <1>3, <3>1, SendDownType DEF srv_tells_sub, IInv, TypeOK, SocketsTypeOK
  <2>2. TypeOK'
    BY <1>3, <2>1 DEF IInv, TypeOK, SocketsTypeOK, SubscriberTypeOK, ServerTypeOK,
       StopProgram, Others, cliVars, ServerPc
  <2>3. StreamShape'
    BY StreamsKept DEF StopProgram, Others, cliVars
  <2>4. CursorInRange'
    <3>1. cur \in 1..Len(subs)
      BY <1>0, <1>3, LenProperties
    <3> QED BY <1>3, <3>1 DEF CursorInRange, Connected
  <2>5. ReportedIsReady' /\ SessionsOpen' /\ RegistryConsistent'
    BY <1>0, <1>3 DEF IInv, ReportedIsReady, SessionsOpen, RegistryConsistent, InLoopOfMain,
       ServerUp, Connected, StopProgram
  <2> QED BY <2>2, <2>3, <2>4, <2>5 DEF IInv
<1> QED BY <1>1, <1>2, <1>3 DEF StopProgram

LEMMA CloseStoppedInv ==
  ASSUME IInv, CloseStopped, Others
  PROVE  IInv'
<1> DEFINE Sub == [id : SubIds, sock_fd : Fds \cup {NoFd}, topics : SUBSET Storable]
<1>0. /\ subs \in Seq(Sub)
      /\ cur \in 1..Len(subs) /\ Connected(cur)
      /\ sock \in [Fds -> Procs \cup {NoProc}]
      /\ cliSees \in [Procs -> View]
      /\ ServerUp
  BY DEF IInv, TypeOK, SocketsTypeOK, ServerTypeOK, CursorInRange, CloseStopped, ServerUp
<1> DEFINE fd == subs[cur].sock_fd
<1>1. cur \in 1..Len(subs) /\ DOMAIN subs = 1..Len(subs) /\ Len(subs) \in Nat
  BY <1>0, LenProperties
<1>2. fd \in Fds /\ subs[cur] \in Sub
  <2>1. subs[cur] \in Sub
    BY <1>0, <1>1, ElementOfSeq
  <2> QED BY <1>0, <2>1 DEF Connected
<1>3. [subs[cur] EXCEPT !.sock_fd = NoFd] \in Sub
  BY <1>2
<1>4. /\ subs' \in Seq(Sub)
      /\ Len(subs') = Len(subs)
      /\ \A k \in 1..Len(subs) :
           subs'[k] = IF k = cur THEN [subs[cur] EXCEPT !.sock_fd = NoFd] ELSE subs[k]
  <2>1. subs' = [subs EXCEPT ![cur].sock_fd = NoFd]
    BY DEF CloseStopped
  <2> QED BY <1>0, <1>1, <1>3, <2>1, ExceptSeq
<1>5. cliSees' \in [Procs -> View]
  BY <1>0, ClosedWithType DEF srv_closes_sub_connection, CloseStopped
<1>6. sock' = [sock EXCEPT ![fd] = NoProc] /\ sock' \in [Fds -> Procs \cup {NoProc}]
  BY <1>0 DEF srv_closes_sub_connection, CloseStopped
<1>7. cur' = cur - 1 /\ cur' \in 0..Len(subs')
  BY <1>1, <1>4 DEF CloseStopped
<1>8. TypeOK'
  <2>1. SocketsTypeOK'
    BY <1>5, <1>6 DEF IInv, TypeOK, SocketsTypeOK, CloseStopped
  <2>2. cur' \in Nat
    BY <1>1, <1>7
  <2>3. ServerTypeOK'
    BY <1>4, <2>2 DEF IInv, TypeOK, ServerTypeOK, ServerPc, CloseStopped
  <2> QED BY <2>1, <2>3 DEF IInv, TypeOK, SubscriberTypeOK, Others, cliVars
<1>9. StreamShape'
  BY StreamsKept DEF CloseStopped, Others, cliVars
<1>10. CursorInRange'
  BY <1>7 DEF CursorInRange, CloseStopped
<1>11. SessionsOpen'
  <2>1. ASSUME NEW k \in DOMAIN subs', Connected(k)'
        PROVE  subs_by_fd'[subs'[k].sock_fd] = k /\ sock'[subs'[k].sock_fd] # NoProc
    <3>1. k \in 1..Len(subs) /\ k # cur /\ subs'[k] = subs[k]
      <4>1. k \in 1..Len(subs)
        BY <1>4, <2>1, LenProperties
      <4>2. k # cur
        BY <1>2, <1>4, <2>1, <4>1 DEF Connected
      <4> QED BY <1>4, <4>1, <4>2
    <3>2. /\ Connected(k)
          /\ subs_by_fd[subs[k].sock_fd] = k
          /\ sock[subs[k].sock_fd] # NoProc
          /\ subs_by_fd[fd] = cur
      BY <1>0, <1>1, <2>1, <3>1 DEF IInv, SessionsOpen, Connected
    <3>3. subs[k].sock_fd # fd
      BY <3>1, <3>2
    <3>4. subs_by_fd' = subs_by_fd
      BY DEF CloseStopped
    <3>5. subs[k].sock_fd \in Fds
      <4>1. subs[k] \in Sub
        BY <1>0, <3>1, ElementOfSeq
      <4> QED BY <3>2, <4>1 DEF Connected
    <3> QED BY <1>0, <1>6, <3>1, <3>2, <3>3, <3>4, <3>5
  <2> QED BY <2>1 DEF SessionsOpen
<1>12. RegistryConsistent' /\ ReportedIsReady'
  BY DEF RegistryConsistent, ReportedIsReady, InLoopOfMain, CloseStopped
<1> QED BY <1>8, <1>9, <1>10, <1>11, <1>12 DEF IInv

LEMMA HandleUdpInv ==
  ASSUME IInv, HandleUdp, Others
  PROVE  IInv'
<1> DEFINE Sub == [id : SubIds, sock_fd : Fds \cup {NoFd}, topics : SUBSET Storable]
<1>1. subs \in Seq(Sub) /\ udp \in Seq(DownMsg)
  BY DEF IInv, TypeOK, SocketsTypeOK, ServerTypeOK
<1>2. udp # <<>>
  BY DEF IInv, ReportedIsReady, InLoopOfMain, HandleUdp
<1>3. Head(udp) \in DownMsg /\ udp' \in Seq(DownMsg)
  BY <1>1, <1>2, HeadTailProperties DEF HandleUdp
<1>4. pc' \in {"pass", "fanout"} /\ (pc' = "fanout" => cur' = Len(subs) /\ subs # <<>>)
  BY DEF HandleUdp
<1>5. Len(subs) \in Nat /\ (subs # <<>> => Len(subs) \in 1..Len(subs))
  BY <1>1, EmptySeq
<1>6. cur' \in Nat /\ dgram' \in DownMsg
  BY <1>3, <1>5 DEF IInv, TypeOK, ServerTypeOK, HandleUdp
<1>7. TypeOK'
  <2>1. SocketsTypeOK'
    BY <1>3 DEF IInv, TypeOK, SocketsTypeOK, HandleUdp
  <2>2. ServerTypeOK'
    BY <1>4, <1>6 DEF IInv, TypeOK, ServerTypeOK, ServerPc, HandleUdp
  <2> QED BY <2>1, <2>2 DEF IInv, TypeOK, SubscriberTypeOK, Others, cliVars
<1>8. StreamShape'
  BY StreamsKept DEF HandleUdp, Others, cliVars
<1>9. RegistryConsistent' /\ SessionsOpen'
  BY <1>4, TablesKept DEF HandleUdp
<1>10. CursorInRange' /\ ReportedIsReady'
  BY <1>4, <1>5 DEF IInv, CursorInRange, ReportedIsReady, InLoopOfMain, HandleUdp
<1> QED BY <1>7, <1>8, <1>9, <1>10 DEF IInv

LEMMA FanoutInv ==
  ASSUME IInv, Fanout, Others
  PROVE  IInv'
<1> DEFINE p == sock[subs[cur].sock_fd]
           Sub == [id : SubIds, sock_fd : Fds \cup {NoFd}, topics : SUBSET Storable]
<1>0. /\ subs \in Seq(Sub)
      /\ Len(subs) \in Nat
      /\ cur \in 1..Len(subs)
      /\ dgram \in DownMsg
  BY LenProperties DEF IInv, TypeOK, ServerTypeOK, CursorInRange, Fanout
<1>1. CASE pc' = "died" /\ CloseEverything /\ UNCHANGED <<down, srvSees, cur, dgram, log>>
  <2>1. /\ listening' \in BOOLEAN
        /\ backlog' \in Seq(Procs)
        /\ cliSees' \in [Procs -> View]
    BY <1>1, CloseEverythingType DEF IInv, TypeOK, SocketsTypeOK
  <2>2. TypeOK'
    BY <1>1, <2>1 DEF IInv, TypeOK, SocketsTypeOK, SubscriberTypeOK, ServerTypeOK,
       Fanout, Others, cliVars, ServerPc
  <2>3. StreamShape'
    BY StreamsKept DEF Fanout, Others, cliVars
  <2> QED BY <1>1, <2>2, <2>3, DownKeepsServerPart DEF IInv, ServerPart
<1>2. ASSUME NextNode, UNCHANGED <<listening, backlog, cliSees>>,
             down' \in [Procs -> Seq(DownMsg)],
             srvSees' \in [Procs -> View],
             log' \in [Procs -> Seq(Nat)]
      PROVE  IInv'
  <2>1. /\ pc' \in {"pass", "fanout"}
        /\ cur' \in Nat
        /\ pc' = "fanout" => cur' \in 1..Len(subs)
        /\ dgram' \in DownMsg
    BY <1>0, <1>2 DEF NextNode, Fanout, DownMsg
  <2>2. TypeOK'
    <3>1. SocketsTypeOK'
      BY <1>2 DEF IInv, TypeOK, SocketsTypeOK, Fanout
    <3>2. ServerTypeOK'
      BY <1>2, <2>1 DEF IInv, TypeOK, ServerTypeOK, ServerPc, Fanout
    <3> QED BY <3>1, <3>2 DEF IInv, TypeOK, SubscriberTypeOK, Others, cliVars
  <2>3. StreamShape'
    BY StreamsKept DEF Fanout, Others, cliVars
  <2>4. RegistryConsistent' /\ SessionsOpen'
    BY <2>1, TablesKept DEF Fanout
  <2>5. CursorInRange' /\ ReportedIsReady'
    BY <1>2, <2>1 DEF IInv, CursorInRange, ReportedIsReady, InLoopOfMain, Fanout
  <2> QED BY <2>2, <2>3, <2>4, <2>5 DEF IInv
<1>3. CASE NextNode /\ UNCHANGED <<listening, backlog, down, srvSees, cliSees, log>>
  BY <1>2, <1>3 DEF IInv, TypeOK, SocketsTypeOK, ServerTypeOK
<1>4. CASE /\ SendDown(p, dgram)
           /\ log' = [log EXCEPT ![p] = Append(@, dgram.n)]
           /\ NextNode
           /\ UNCHANGED <<listening, backlog, cliSees>>
  <2>1. log \in [Procs -> Seq(Nat)] /\ dgram.n \in Nat
    BY <1>0 DEF IInv, TypeOK, ServerTypeOK, DownMsg
  <2>2. p \in Procs => Append(log[p], dgram.n) \in Seq(Nat)
    BY <2>1, AppendProperties
  <2>3. log' \in [Procs -> Seq(Nat)]
    BY <1>4, <2>1, <2>2
  <2>4. down' \in [Procs -> Seq(DownMsg)] /\ srvSees' \in [Procs -> View]
    BY <1>0, <1>4, SendDownType DEF IInv, TypeOK, SocketsTypeOK
  <2> QED BY <1>2, <1>4, <2>3, <2>4
<1> QED BY <1>1, <1>3, <1>4 DEF Fanout

(* What the invariant says in handle_listen_tcp_msg and in the loop, with   *)
(* everything that has to be expanded for it.                               *)
LEMMA LoopFacts ==
  ASSUME IInv, InLoopOfMain
  PROVE  /\ IdsAgree /\ FdsAgree /\ PollAgrees /\ DescriptorsAgree
         /\ subs \in Seq([id : SubIds, sock_fd : Fds \cup {NoFd}, topics : SUBSET Storable])
         /\ Len(subs) \in Nat /\ DOMAIN subs = 1..Len(subs)
         /\ \A k \in 1..Len(subs) : subs[k].id \in SubIds /\ subs[k].sock_fd \in Fds \cup {NoFd}
         /\ pfds \in Seq([fd : Fds, ready : BOOLEAN])
         /\ Len(pfds) \in Nat /\ DOMAIN pfds = 1..Len(pfds)
         /\ \A j \in 1..Len(pfds) : pfds[j].fd \in Fds
         /\ PollFds \subseteq Fds
         /\ sock \in [Fds -> Procs \cup {NoProc}]
         /\ subs_by_id \in [SubIds -> Nat]
         /\ subs_by_fd \in [Fds -> Nat]
         /\ NoFd \notin Fds
<1>1. IdsAgree /\ FdsAgree /\ PollAgrees /\ DescriptorsAgree
  BY DEF IInv, RegistryConsistent
<1>2. /\ subs \in Seq([id : SubIds, sock_fd : Fds \cup {NoFd}, topics : SUBSET Storable])
      /\ pfds \in Seq([fd : Fds, ready : BOOLEAN])
      /\ sock \in [Fds -> Procs \cup {NoProc}]
      /\ subs_by_id \in [SubIds -> Nat]
      /\ subs_by_fd \in [Fds -> Nat]
  BY DEF IInv, TypeOK, SocketsTypeOK, ServerTypeOK
<1>3. \A k \in 1..Len(subs) : subs[k].id \in SubIds /\ subs[k].sock_fd \in Fds \cup {NoFd}
  <2>1. \A k \in 1..Len(subs) :
          subs[k] \in [id : SubIds, sock_fd : Fds \cup {NoFd}, topics : SUBSET Storable]
    BY <1>2, ElementOfSeq
  <2> QED BY <2>1
<1>4. \A j \in 1..Len(pfds) : pfds[j].fd \in Fds
  <2>1. \A j \in 1..Len(pfds) : pfds[j] \in [fd : Fds, ready : BOOLEAN]
    BY <1>2, ElementOfSeq
  <2> QED BY <2>1
<1>5. /\ Len(subs) \in Nat /\ DOMAIN subs = 1..Len(subs)
      /\ Len(pfds) \in Nat /\ DOMAIN pfds = 1..Len(pfds)
  BY <1>2, LenProperties
<1>6. PollFds \subseteq Fds
  BY <1>4, <1>5 DEF PollFds
<1>7. NoFd \notin Fds
  BY SocketsAssumption, ServerAssumption
<1> QED BY <1>1, <1>2, <1>3, <1>4, <1>5, <1>6, <1>7

LEMMA HandleListenInv ==
  ASSUME IInv, HandleListen, Others
  PROVE  IInv'
<1>1. ASSUME NEW fd \in FreeFds,
             new_fd' = fd,
             sock' = [sock EXCEPT ![fd] = Head(backlog)],
             backlog' = Tail(backlog),
             pc' = "recv_id",
             rev' = {},
             UNCHANGED <<listening, up, down, srvSees, cliSees, udp, console>>,
             UNCHANGED <<i, pfds, max_nfds, subs, subs_by_id, subs_by_fd, cur,
                         dgram, skew, frame, served, log>>
      PROVE  IInv'
  <2>0. InLoopOfMain /\ pc = "pass" /\ fd \in Fds /\ sock[fd] = NoProc
    BY <1>1 DEF HandleListen, InLoopOfMain, FreeFds
  <2>1. backlog \in Seq(Procs) /\ backlog # <<>>
    BY <2>0 DEF IInv, TypeOK, SocketsTypeOK, ReportedIsReady, HandleListen
  <2>2. Head(backlog) \in Procs /\ Tail(backlog) \in Seq(Procs)
    BY <2>1, HeadTailProperties
  <2>3. /\ sock' \in [Fds -> Procs \cup {NoProc}]
        /\ sock'[fd] # NoProc
        /\ \A g \in Fds : g # fd => sock'[g] = sock[g]
    BY <1>1, <2>0, <2>2, LoopFacts, SocketsAssumption
  <2>4. TypeOK'
    <3>1. SocketsTypeOK'
      BY <1>1, <2>2, <2>3 DEF IInv, TypeOK, SocketsTypeOK
    <3>2. ServerTypeOK'
      BY <1>1, <2>0 DEF IInv, TypeOK, ServerTypeOK, ServerPc
    <3> QED BY <3>1, <3>2 DEF IInv, TypeOK, SubscriberTypeOK, Others, cliVars
  <2>5. StreamShape'
    BY <1>1, StreamsKept DEF Others, cliVars
  <2>6. CursorInRange' /\ ReportedIsReady'
    BY <1>1 DEF CursorInRange, ReportedIsReady
  <2>7. IdsAgree' /\ FdsAgree' /\ PollAgrees'
    BY <1>1, <2>0, LoopFacts DEF IdsAgree, FdsAgree, PollAgrees, PollFds, Connected
  <2>8. DescriptorsAgree'
    <3>1. PollFds' = PollFds
      BY <1>1 DEF PollFds
    <3>2. new_fd = NoFd /\ fd # NoFd
      BY <2>0, LoopFacts DEF DescriptorsAgree
    <3>3. fd \notin PollFds
      BY <2>0, LoopFacts DEF DescriptorsAgree
    <3>4. \A g \in Fds : sock'[g] # NoProc <=> g \in PollFds \/ g = fd
      BY <2>0, <2>3, <3>2, LoopFacts DEF DescriptorsAgree
    <3> QED BY <1>1, <3>1, <3>2, <3>3, <3>4 DEF DescriptorsAgree
  <2>9. SessionsOpen'
    BY <1>1, <2>0, <2>3, LoopFacts DEF IInv, SessionsOpen, ServerUp, Connected
  <2> QED BY <2>4, <2>5, <2>6, <2>7, <2>8, <2>9 DEF IInv, RegistryConsistent
<1>2. CASE Die
  BY <1>2, DieInv
<1> QED BY <1>1, <1>2 DEF HandleListen

(* The id that is read is one the tables know, and the rest of the stream   *)
(* keeps its shape.                                                        *)
LEMMA ReadIdsProperties ==
  ASSUME IInv, NEW p \in Procs, NEW r \in ReadIds(p)
  PROVE  /\ r.id \in SubIds
         /\ r.rest \in Seq(UpMsg)
         /\ r.skew \in BOOLEAN
         /\ up[p] = <<>> => r.rest = <<>>
         /\ \A n \in 2..Len(r.rest) :
              r.rest[n].type \in {"subscribe", "unsubscribe", "close"}
<1>1. up[p] \in Seq(UpMsg) /\ Len(up[p]) \in Nat
  BY LenProperties DEF IInv, TypeOK, SocketsTypeOK
<1>2. IdOf[p] \in Ids
  BY ServerAssumption
<1>3. CASE up[p] = <<>>
  <2>1. r = [id |-> EmptyId, rest |-> <<>>, skew |-> FALSE]
    BY <1>3 DEF ReadIds
  <2>2. EmptyId \in SubIds
    BY DEF SubIds
  <2>3. Len(<<>>) = 0 /\ <<>> \in Seq(UpMsg)
    BY EmptySeq
  <2> QED BY <2>1, <2>2, <2>3
<1>4. CASE up[p] # <<>>
  <2>1. /\ Tail(up[p]) \in Seq(UpMsg)
        /\ Len(Tail(up[p])) = Len(up[p]) - 1
        /\ \A n \in 1..Len(Tail(up[p])) : Tail(up[p])[n] = up[p][n + 1]
    BY <1>1, <1>4, HeadTailProperties
  <2>2. Len(up[p]) # 0
    BY <1>1, <1>4, EmptySeq
  <2> DEFINE long == IF up[p][2].type = "subscribe" THEN IdOf[p]
                     ELSE <<IdOf[p], up[p][2].type>>
  <2>3. \/ r = [id |-> IdOf[p], rest |-> up[p], skew |-> TRUE]
        \/ r = [id |-> IdOf[p], rest |-> Tail(up[p]), skew |-> FALSE]
        \/ /\ Len(up[p]) # 1
           /\ r = [id |-> long, rest |-> Tail(up[p]), skew |-> TRUE]
    BY <1>4 DEF ReadIds
  <2>4. r.id \in SubIds /\ r.rest \in {up[p], Tail(up[p])} /\ r.skew \in BOOLEAN
    <3>1. Len(up[p]) # 1 => up[p][2].type \in {"subscribe", "unsubscribe", "close"}
      <4>0. \A m \in Nat : m # 0 /\ m # 1 => 2 \in 2..m
        OBVIOUS
      <4>1. Len(up[p]) # 1 => 2 \in 2..Len(up[p])
        BY <1>1, <2>2, <4>0
      <4> QED BY <4>1 DEF IInv, StreamShape
    <3>2. Len(up[p]) # 1 => long \in SubIds
      BY <1>2, <3>1 DEF SubIds
    <3>3. IdOf[p] \in SubIds
      BY <1>2 DEF SubIds
    <3> HIDE DEF long
    <3>6. CASE r = [id |-> IdOf[p], rest |-> up[p], skew |-> TRUE]
      <4>1. r.id = IdOf[p] /\ r.rest = up[p] /\ r.skew = TRUE
        BY <3>6
      <4> QED BY <3>3, <4>1
    <3>4. CASE r = [id |-> IdOf[p], rest |-> Tail(up[p]), skew |-> FALSE]
      <4>1. r.id = IdOf[p] /\ r.rest = Tail(up[p]) /\ r.skew = FALSE
        BY <3>4
      <4> QED BY <3>3, <4>1
    <3>5. CASE Len(up[p]) # 1 /\ r = [id |-> long, rest |-> Tail(up[p]), skew |-> TRUE]
      <4>1. r.id = long /\ r.rest = Tail(up[p]) /\ r.skew = TRUE
        BY <3>5
      <4> QED BY <3>2, <3>5, <4>1
    <3> QED BY <2>3, <3>4, <3>5, <3>6
  <2>5. \A n \in 2..Len(Tail(up[p])) :
          Tail(up[p])[n].type \in {"subscribe", "unsubscribe", "close"}
    BY <1>1, <2>1 DEF IInv, StreamShape
  <2>6. \A n \in 2..Len(up[p]) : up[p][n].type \in {"subscribe", "unsubscribe", "close"}
    BY DEF IInv, StreamShape
  <2> QED BY <1>1, <1>4, <2>1, <2>4, <2>5, <2>6
<1> QED BY <1>3, <1>4

(* Replacing a stream by what a read leaves of it.                          *)
LEMMA ReadKeepsStreams ==
  ASSUME IInv, NEW p \in Procs, NEW rest \in Seq(UpMsg),
         up[p] = <<>> => rest = <<>>,
         \A n \in 2..Len(rest) : rest[n].type \in {"subscribe", "unsubscribe", "close"},
         up' = [up EXCEPT ![p] = rest], UNCHANGED cli
  PROVE  up' \in [Procs -> Seq(UpMsg)] /\ StreamShape'
<1>1. up \in [Procs -> Seq(UpMsg)]
  BY DEF IInv, TypeOK, SocketsTypeOK
<1> QED BY <1>1 DEF IInv, StreamShape

(* add_pfd keeps the array within its capacity and its entries distinct.    *)
LEMMA AddPfd ==
  ASSUME IInv, InLoopOfMain, new_fd \in Fds, add_pfd(new_fd)
  PROVE  /\ pfds' \in Seq([fd : Fds, ready : BOOLEAN])
         /\ max_nfds' \in Nat
         /\ PollFds' = PollFds \cup {new_fd}
         /\ Len(pfds') + 3 <= max_nfds'
         /\ \A j, h \in DOMAIN pfds' : pfds'[j].fd = pfds'[h].fd => j = h
<1> DEFINE Pfd == [fd : Fds, ready : BOOLEAN]
           new == [fd |-> new_fd, ready |-> FALSE]
<1>1. /\ pfds \in Seq(Pfd)
      /\ Len(pfds) \in Nat
      /\ max_nfds \in Nat
      /\ Len(pfds) + 3 <= max_nfds
  BY LoopFacts DEF PollAgrees, IInv, TypeOK, ServerTypeOK
<1>2. new \in Pfd
  OBVIOUS
<1>3. /\ pfds' \in Seq(Pfd)
      /\ Len(pfds') = Len(pfds) + 1
      /\ DOMAIN pfds' = 1..(Len(pfds) + 1)
      /\ \A j \in 1..Len(pfds) : pfds'[j] = pfds[j]
      /\ pfds'[Len(pfds) + 1] = new
  <2>1. pfds' = Append(pfds, new)
    BY DEF add_pfd
  <2> HIDE DEF new, Pfd
  <2> QED BY <1>1, <1>2, <2>1, AppendProperties, LenProperties
<1>4. max_nfds' \in Nat /\ Len(pfds') + 3 <= max_nfds'
  BY <1>1, <1>3 DEF add_pfd
<1>5. PollFds' = PollFds \cup {new_fd}
  <2>1. DOMAIN pfds = 1..Len(pfds)
    BY <1>1, LenProperties
  <2>2. ASSUME NEW f \in PollFds'
        PROVE  f \in PollFds \cup {new_fd}
    <3>1. PICK j \in DOMAIN pfds' : f = pfds'[j].fd
      BY <2>2 DEF PollFds
    <3>2. j \in 1..Len(pfds) \/ j = Len(pfds) + 1
      BY <1>1, <1>3, <3>1
    <3> QED BY <1>3, <2>1, <3>1, <3>2 DEF PollFds
  <2>3. ASSUME NEW f \in PollFds
        PROVE  f \in PollFds'
    <3>1. PICK j \in DOMAIN pfds : f = pfds[j].fd
      BY <2>3 DEF PollFds
    <3>2. j \in DOMAIN pfds' /\ pfds'[j] = pfds[j]
      BY <1>1, <1>3, <2>1, <3>1
    <3> QED BY <3>1, <3>2 DEF PollFds
  <2>4. new_fd \in PollFds'
    <3>1. Len(pfds) + 1 \in DOMAIN pfds'
      BY <1>1, <1>3
    <3> QED BY <1>3, <3>1 DEF PollFds
  <2> QED BY <2>2, <2>3, <2>4
<1>6. ASSUME NEW j \in DOMAIN pfds', NEW h \in DOMAIN pfds', pfds'[j].fd = pfds'[h].fd
      PROVE  j = h
  <2>1. new_fd \notin PollFds
    BY LoopFacts DEF DescriptorsAgree
  <2>2. DOMAIN pfds = 1..Len(pfds)
    BY <1>1, LenProperties
  <2>3. \A m \in 1..Len(pfds) : pfds'[m].fd # new_fd
    BY <1>3, <2>1, <2>2 DEF PollFds
  <2>4. \A m \in DOMAIN pfds' : m \in 1..Len(pfds) \/ m = Len(pfds) + 1
    BY <1>1, <1>3
  <2>5. \A m, n \in 1..Len(pfds) : pfds[m].fd = pfds[n].fd => m = n
    BY <2>2, LoopFacts DEF PollAgrees
  <2> QED BY <1>3, <1>6, <2>3, <2>4, <2>5
<1> QED BY <1>3, <1>4, <1>5, <1>6

(* The three cases of handle_listen_tcp_msg, for the tables.                *)

LEMMA AddNewSub ==
  ASSUME IInv, pc = "recv_id", NEW id \in SubIds, subs_by_id[id] = 0,
         add_new_sub(new_fd, id), UNCHANGED sock, pc' = "pass", new_fd' = NoFd
  PROVE  /\ pfds' \in Seq([fd : Fds, ready : BOOLEAN])
         /\ max_nfds' \in Nat
         /\ subs' \in Seq([id : SubIds, sock_fd : Fds \cup {NoFd}, topics : SUBSET Storable])
         /\ subs_by_id' \in [SubIds -> Nat]
         /\ subs_by_fd' \in [Fds -> Nat]
         /\ SessionsOpen' /\ RegistryConsistent'
<1> DEFINE Sub == [id : SubIds, sock_fd : Fds \cup {NoFd}, topics : SUBSET Storable]
           new == [id |-> id, sock_fd |-> new_fd, topics |-> {}]
           top == Len(subs) + 1
<1>1. InLoopOfMain /\ ServerUp
  BY DEF InLoopOfMain, ServerUp
<1>2. /\ new_fd \in Fds /\ new_fd # NoFd
      /\ new_fd \notin PollFds
      /\ sock[new_fd] # NoProc
  <2>1. new_fd # NoFd /\ new_fd \notin PollFds
    BY <1>1, LoopFacts DEF DescriptorsAgree
  <2>2. new_fd \in Fds
    BY <2>1 DEF IInv, TypeOK, ServerTypeOK
  <2> QED BY <1>1, <2>1, <2>2, LoopFacts DEF DescriptorsAgree
<1>3. /\ pfds' \in Seq([fd : Fds, ready : BOOLEAN])
      /\ max_nfds' \in Nat
      /\ PollFds' = PollFds \cup {new_fd}
      /\ Len(pfds') + 3 <= max_nfds'
      /\ \A j, h \in DOMAIN pfds' : pfds'[j].fd = pfds'[h].fd => j = h
  BY <1>1, <1>2, AddPfd DEF add_new_sub
<1>4. Len(subs) \in Nat /\ top \in Nat /\ top # 0 /\ DOMAIN subs = 1..Len(subs)
  BY <1>1, LoopFacts
<1>5. /\ subs' \in Seq(Sub)
      /\ DOMAIN subs' = 1..top
      /\ \A k \in 1..Len(subs) : subs'[k] = subs[k]
      /\ subs'[top] = new
  <2>1. subs \in Seq(Sub)
    BY <1>1, LoopFacts
  <2>2. new \in Sub
    BY <1>2
  <2>3. subs' = Append(subs, new)
    BY DEF add_new_sub
  <2> HIDE DEF new, Sub
  <2> QED BY <2>1, <2>2, <2>3, AppendProperties, LenProperties
<1>6. /\ subs_by_id' \in [SubIds -> Nat]
      /\ subs_by_id'[id] = top
      /\ \A d \in SubIds : d # id => subs_by_id'[d] = subs_by_id[d]
  BY <1>1, <1>4, LoopFacts DEF add_new_sub
<1>7. /\ subs_by_fd' \in [Fds -> Nat]
      /\ subs_by_fd'[new_fd] = top
      /\ \A f \in Fds : f # new_fd => subs_by_fd'[f] = subs_by_fd[f]
  BY <1>1, <1>2, <1>4, LoopFacts DEF add_new_sub
<1>8. \A k \in DOMAIN subs' : k \in 1..Len(subs) \/ k = top
  BY <1>4, <1>5
<1>9. 1..Len(subs) \subseteq DOMAIN subs' /\ top \in DOMAIN subs'
  BY <1>4, <1>5
<1>10. IdsAgree'
  <2>1. ASSUME NEW d \in SubIds, subs_by_id'[d] # 0
        PROVE  subs_by_id'[d] \in DOMAIN subs' /\ subs'[subs_by_id'[d]].id = d
    <3>1. CASE d = id
      BY <1>5, <1>6, <1>9, <3>1
    <3>2. CASE d # id
      BY <1>1, <1>4, <1>5, <1>6, <1>9, <2>1, <3>2, LoopFacts DEF IdsAgree
    <3> QED BY <3>1, <3>2
  <2>2. ASSUME NEW k \in DOMAIN subs'
        PROVE  subs_by_id'[subs'[k].id] = k
    <3>1. CASE k = top
      BY <1>5, <1>6, <3>1
    <3>2. CASE k \in 1..Len(subs)
      <4>1. subs_by_id[subs[k].id] = k /\ subs[k].id \in SubIds
        BY <1>1, <1>4, <3>2, LoopFacts DEF IdsAgree
      <4>2. subs[k].id # id
        BY <1>4, <3>2, <4>1
      <4> QED BY <1>5, <1>6, <3>2, <4>1, <4>2
    <3> QED BY <1>8, <3>1, <3>2
  <2> QED BY <2>1, <2>2 DEF IdsAgree
<1>11. \A k \in 1..Len(subs) : Connected(k) =>
         /\ subs_by_fd[subs[k].sock_fd] = k
         /\ subs[k].sock_fd \in PollFds
         /\ subs[k].sock_fd \in Fds
         /\ subs[k].sock_fd # new_fd
  <2>1. ASSUME NEW k \in 1..Len(subs), Connected(k)
        PROVE  /\ subs_by_fd[subs[k].sock_fd] = k
               /\ subs[k].sock_fd \in PollFds
               /\ subs[k].sock_fd \in Fds
    <3>1. subs_by_fd[subs[k].sock_fd] = k
      BY <1>1, <1>4, <2>1, LoopFacts DEF FdsAgree
    <3>2. subs[k].sock_fd \in Fds
      BY <1>1, <2>1, LoopFacts DEF Connected
    <3> QED BY <1>1, <1>4, <2>1, <3>1, <3>2, LoopFacts DEF PollAgrees
  <2> QED BY <1>2, <2>1
<1>12. FdsAgree'
  <2>1. ASSUME NEW f \in Fds, subs_by_fd'[f] # 0
        PROVE  subs_by_fd'[f] \in DOMAIN subs' /\ subs'[subs_by_fd'[f]].sock_fd = f
    <3>1. CASE f = new_fd
      BY <1>5, <1>7, <1>9, <3>1
    <3>2. CASE f # new_fd
      BY <1>1, <1>4, <1>5, <1>7, <1>9, <2>1, <3>2, LoopFacts DEF FdsAgree
    <3> QED BY <3>1, <3>2
  <2>2. ASSUME NEW k \in DOMAIN subs', Connected(k)'
        PROVE  subs_by_fd'[subs'[k].sock_fd] = k
    <3>1. CASE k = top
      BY <1>5, <1>7, <3>1
    <3>2. CASE k \in 1..Len(subs)
      BY <1>5, <1>7, <1>11, <2>2, <3>2 DEF Connected
    <3> QED BY <1>8, <3>1, <3>2
  <2> QED BY <2>1, <2>2 DEF FdsAgree
<1>13. PollAgrees'
  <2>1. ASSUME NEW f \in Fds
        PROVE  f \in PollFds' <=> subs_by_fd'[f] # 0
    BY <1>1, <1>3, <1>4, <1>7, LoopFacts DEF PollAgrees
  <2> QED BY <1>3, <2>1 DEF PollAgrees
<1>14. DescriptorsAgree'
  <2>1. \A f \in Fds : sock[f] # NoProc <=> f \in PollFds \/ f = new_fd
    BY <1>1, LoopFacts DEF DescriptorsAgree
  <2>2. NoFd \notin Fds /\ PollFds \subseteq Fds
    BY <1>1, LoopFacts
  <2> QED BY <1>2, <1>3, <2>1, <2>2 DEF DescriptorsAgree
<1>15. SessionsOpen'
  <2>1. ASSUME NEW k \in DOMAIN subs', Connected(k)'
        PROVE  sock[subs'[k].sock_fd] # NoProc
    <3>1. CASE k = top
      BY <1>2, <1>5, <3>1
    <3>2. CASE k \in 1..Len(subs)
      <4>1. Connected(k)
        BY <1>5, <2>1, <3>2 DEF Connected
      <4> QED BY <1>1, <1>5, <1>11, <3>2, <4>1, LoopFacts DEF DescriptorsAgree
    <3> QED BY <1>8, <3>1, <3>2
  <2> QED BY <1>12, <2>1 DEF SessionsOpen, FdsAgree
<1> QED BY <1>3, <1>5, <1>6, <1>7, <1>10, <1>12, <1>13, <1>14, <1>15
        DEF RegistryConsistent

LEMMA ReviveSub ==
  ASSUME IInv, pc = "recv_id", NEW k \in Nat, k \in DOMAIN subs, IsPast(k),
         revive_sub_connection(k, new_fd), UNCHANGED sock, pc' = "pass", new_fd' = NoFd
  PROVE  /\ pfds' \in Seq([fd : Fds, ready : BOOLEAN])
         /\ max_nfds' \in Nat
         /\ subs' \in Seq([id : SubIds, sock_fd : Fds \cup {NoFd}, topics : SUBSET Storable])
         /\ subs_by_fd' \in [Fds -> Nat]
         /\ SessionsOpen' /\ RegistryConsistent'
<1> DEFINE Sub == [id : SubIds, sock_fd : Fds \cup {NoFd}, topics : SUBSET Storable]
           new == [subs[k] EXCEPT !.sock_fd = new_fd]
<1>1. InLoopOfMain /\ ServerUp
  BY DEF InLoopOfMain, ServerUp
<1>2. /\ new_fd \in Fds /\ new_fd # NoFd
      /\ new_fd \notin PollFds
      /\ sock[new_fd] # NoProc
  <2>1. new_fd # NoFd /\ new_fd \notin PollFds
    BY <1>1, LoopFacts DEF DescriptorsAgree
  <2>2. new_fd \in Fds
    BY <2>1 DEF IInv, TypeOK, ServerTypeOK
  <2> QED BY <1>1, <2>1, <2>2, LoopFacts DEF DescriptorsAgree
<1>3. /\ pfds' \in Seq([fd : Fds, ready : BOOLEAN])
      /\ max_nfds' \in Nat
      /\ PollFds' = PollFds \cup {new_fd}
      /\ Len(pfds') + 3 <= max_nfds'
      /\ \A j, h \in DOMAIN pfds' : pfds'[j].fd = pfds'[h].fd => j = h
  BY <1>1, <1>2, AddPfd DEF revive_sub_connection
<1>4. /\ k \in 1..Len(subs) /\ k # 0
      /\ DOMAIN subs = 1..Len(subs)
      /\ subs \in Seq(Sub)
      /\ subs[k] \in Sub
  <2>1. DOMAIN subs = 1..Len(subs) /\ subs \in Seq(Sub)
    BY <1>1, LoopFacts
  <2>2. k \in 1..Len(subs) /\ Len(subs) \in Nat
    BY <1>1, <2>1, LoopFacts
  <2>3. k # 0
    BY <2>2
  <2> HIDE DEF Sub
  <2>4. subs[k] \in Sub
    BY <2>1, <2>2, ElementOfSeq
  <2> QED BY <2>1, <2>2, <2>3, <2>4
<1>5. /\ subs' \in Seq(Sub)
      /\ DOMAIN subs' = DOMAIN subs
      /\ subs'[k].sock_fd = new_fd
      /\ subs'[k].id = subs[k].id
      /\ \A m \in DOMAIN subs : m # k => subs'[m] = subs[m]
  <2>1. new \in Sub /\ new.sock_fd = new_fd /\ new.id = subs[k].id
    BY <1>2, <1>4
  <2>2. subs' = [subs EXCEPT ![k] = new]
    BY DEF revive_sub_connection
  <2> HIDE DEF new, Sub
  <2> QED BY <1>4, <2>1, <2>2, ExceptSeq
<1>6. /\ subs_by_fd' \in [Fds -> Nat]
      /\ subs_by_fd'[new_fd] = k
      /\ \A f \in Fds : f # new_fd => subs_by_fd'[f] = subs_by_fd[f]
  BY <1>1, <1>2, <1>4, LoopFacts DEF revive_sub_connection
<1>7. IdsAgree'
  <2>1. \A m \in DOMAIN subs : subs'[m].id = subs[m].id
    BY <1>5
  <2>2. subs_by_id' = subs_by_id
    BY DEF revive_sub_connection
  <2> QED BY <1>1, <1>5, <2>1, <2>2, LoopFacts DEF IdsAgree
<1>8. \A m \in DOMAIN subs : Connected(m) =>
         /\ m # k
         /\ subs_by_fd[subs[m].sock_fd] = m
         /\ subs[m].sock_fd \in PollFds
         /\ subs[m].sock_fd \in Fds
         /\ subs[m].sock_fd # new_fd
  <2>1. ASSUME NEW m \in DOMAIN subs, Connected(m)
        PROVE  /\ subs_by_fd[subs[m].sock_fd] = m
               /\ subs[m].sock_fd \in PollFds
               /\ subs[m].sock_fd \in Fds
    <3>1. subs_by_fd[subs[m].sock_fd] = m /\ m # 0
      BY <1>1, <1>4, <2>1, LoopFacts DEF FdsAgree
    <3>2. subs[m].sock_fd \in Fds
      BY <1>1, <1>4, <2>1, LoopFacts DEF Connected
    <3> QED BY <1>1, <3>1, <3>2, LoopFacts DEF PollAgrees
  <2> QED BY <1>2, <2>1 DEF IsPast
<1>9. FdsAgree'
  <2>1. ASSUME NEW f \in Fds, subs_by_fd'[f] # 0
        PROVE  subs_by_fd'[f] \in DOMAIN subs' /\ subs'[subs_by_fd'[f]].sock_fd = f
    <3>1. CASE f = new_fd
      BY <1>4, <1>5, <1>6, <3>1
    <3>2. CASE f # new_fd
      <4>1. /\ subs_by_fd'[f] = subs_by_fd[f]
            /\ subs_by_fd[f] \in DOMAIN subs
            /\ subs[subs_by_fd[f]].sock_fd = f
        BY <1>1, <1>6, <2>1, <3>2, LoopFacts DEF FdsAgree
      <4>2. Connected(subs_by_fd[f])
        BY <1>1, <2>1, <4>1, LoopFacts DEF Connected
      <4> QED BY <1>5, <1>8, <4>1, <4>2
    <3> QED BY <3>1, <3>2
  <2>2. ASSUME NEW m \in DOMAIN subs', Connected(m)'
        PROVE  subs_by_fd'[subs'[m].sock_fd] = m
    <3>1. CASE m = k
      BY <1>5, <1>6, <3>1
    <3>2. CASE m # k
      BY <1>5, <1>6, <1>8, <2>2, <3>2 DEF Connected
    <3> QED BY <3>1, <3>2
  <2> QED BY <2>1, <2>2 DEF FdsAgree
<1>10. PollAgrees'
  <2>1. ASSUME NEW f \in Fds
        PROVE  f \in PollFds' <=> subs_by_fd'[f] # 0
    BY <1>1, <1>3, <1>4, <1>6, LoopFacts DEF PollAgrees
  <2> QED BY <1>3, <2>1 DEF PollAgrees
<1>11. DescriptorsAgree'
  <2>1. \A f \in Fds : sock[f] # NoProc <=> f \in PollFds \/ f = new_fd
    BY <1>1, LoopFacts DEF DescriptorsAgree
  <2>2. NoFd \notin Fds /\ PollFds \subseteq Fds
    BY <1>1, LoopFacts
  <2> QED BY <1>2, <1>3, <2>1, <2>2 DEF DescriptorsAgree
<1>12. SessionsOpen'
  <2>1. ASSUME NEW m \in DOMAIN subs', Connected(m)'
        PROVE  sock[subs'[m].sock_fd] # NoProc
    <3>1. CASE m = k
      BY <1>2, <1>5, <3>1
    <3>2. CASE m # k
      <4>1. Connected(m) /\ m \in DOMAIN subs /\ subs'[m] = subs[m]
        BY <1>5, <2>1, <3>2 DEF Connected
      <4> QED BY <1>1, <1>8, <4>1, LoopFacts DEF DescriptorsAgree
    <3> QED BY <3>1, <3>2
  <2> QED BY <1>9, <2>1 DEF SessionsOpen, FdsAgree
<1> QED BY <1>3, <1>5, <1>6, <1>7, <1>9, <1>10, <1>11, <1>12 DEF RegistryConsistent

(* A connection that is refused is in no table.                             *)
LEMMA RefuseSub ==
  ASSUME IInv, pc = "refusing", sock' = [sock EXCEPT ![new_fd] = NoProc],
         UNCHANGED <<pfds, max_nfds, subs, subs_by_id, subs_by_fd>>,
         pc' = "pass", new_fd' = NoFd
  PROVE  /\ sock' \in [Fds -> Procs \cup {NoProc}]
         /\ SessionsOpen' /\ RegistryConsistent'
<1>1. InLoopOfMain /\ ServerUp
  BY DEF InLoopOfMain, ServerUp
<1>2. new_fd \in Fds /\ new_fd \notin PollFds
  <2>1. new_fd # NoFd /\ new_fd \notin PollFds
    BY <1>1, LoopFacts DEF DescriptorsAgree
  <2> QED BY <2>1 DEF IInv, TypeOK, ServerTypeOK
<1>3. /\ sock' \in [Fds -> Procs \cup {NoProc}]
      /\ sock'[new_fd] = NoProc
      /\ \A f \in Fds : f # new_fd => sock'[f] = sock[f]
  BY <1>1, <1>2, LoopFacts
<1>4. PollFds' = PollFds
  BY DEF PollFds
<1>5. IdsAgree' /\ FdsAgree' /\ PollAgrees'
  BY <1>1, <1>4, LoopFacts DEF IdsAgree, FdsAgree, PollAgrees, Connected
<1>6. DescriptorsAgree'
  <2>1. \A f \in Fds : sock[f] # NoProc <=> f \in PollFds \/ f = new_fd
    BY <1>1, LoopFacts DEF DescriptorsAgree
  <2>2. NoFd \notin Fds /\ PollFds \subseteq Fds
    BY <1>1, LoopFacts
  <2> QED BY <1>2, <1>3, <1>4, <2>1, <2>2 DEF DescriptorsAgree
<1>7. SessionsOpen'
  <2>1. ASSUME NEW k \in DOMAIN subs, Connected(k)
        PROVE  sock'[subs[k].sock_fd] # NoProc
    <3>1. subs[k].sock_fd \in Fds
      BY <1>1, <2>1, LoopFacts DEF Connected
    <3>2. subs_by_fd[subs[k].sock_fd] = k /\ k # 0
      BY <1>1, <2>1, LoopFacts DEF FdsAgree
    <3>3. subs[k].sock_fd \in PollFds
      BY <1>1, <3>1, <3>2, LoopFacts DEF PollAgrees
    <3> QED BY <1>1, <1>2, <1>3, <3>1, <3>3, LoopFacts DEF DescriptorsAgree
  <2> QED BY <1>5, <2>1 DEF SessionsOpen, FdsAgree, Connected
<1> QED BY <1>3, <1>5, <1>6, <1>7 DEF RegistryConsistent

LEMMA CloseRefusedInv ==
  ASSUME IInv, CloseRefused, Others
  PROVE  IInv'
<1>1. /\ sock' \in [Fds -> Procs \cup {NoProc}]
      /\ SessionsOpen' /\ RegistryConsistent'
  BY RefuseSub DEF CloseRefused, srv_closes_sub_connection
<1>2. cliSees' \in [Procs -> View]
  BY ClosedWithType DEF CloseRefused, srv_closes_sub_connection, IInv, TypeOK, SocketsTypeOK
<1>3. SocketsTypeOK'
  BY <1>1, <1>2 DEF IInv, TypeOK, SocketsTypeOK, CloseRefused
<1>4. ServerTypeOK'
  BY DEF IInv, TypeOK, ServerTypeOK, ServerPc, CloseRefused
<1>5. TypeOK'
  BY <1>3, <1>4 DEF IInv, TypeOK, SubscriberTypeOK, Others, cliVars
<1>6. StreamShape'
  BY StreamsKept DEF CloseRefused, Others, cliVars
<1>7. CursorInRange' /\ ReportedIsReady'
  BY DEF IInv, CursorInRange, ReportedIsReady, InLoopOfMain, CloseRefused
<1> QED BY <1>1, <1>5, <1>6, <1>7 DEF IInv

(* While a connection is being refused the tables are as before.            *)
LEMMA RefusingSub ==
  ASSUME IInv, pc = "recv_id", pc' = "refusing",
         UNCHANGED <<new_fd, sock, pfds, max_nfds, subs, subs_by_id, subs_by_fd>>
  PROVE  SessionsOpen' /\ RegistryConsistent'
BY DEF IInv, SessionsOpen, ServerUp, Connected, RegistryConsistent, InLoopOfMain,
       IdsAgree, FdsAgree, PollAgrees, DescriptorsAgree, PollFds

LEMMA ReceiveIdInv ==
  ASSUME IInv, ReceiveId, Others
  PROVE  IInv'
<1> DEFINE p == sock[new_fd]
<1>1. pc = "recv_id" /\ InLoopOfMain
  BY DEF ReceiveId, InLoopOfMain
<1>2. p \in Procs
  <2>1. new_fd \in Fds
    BY <1>1, LoopFacts DEF DescriptorsAgree, IInv, TypeOK, ServerTypeOK
  <2> QED BY <1>1, <2>1, LoopFacts DEF DescriptorsAgree
<1>3. PICK r \in ReadIds(p) :
        /\ up' = [up EXCEPT ![p] = r.rest]
        /\ skew' = [skew EXCEPT ![p] = r.skew]
        /\ \/ /\ subs_by_id[r.id] = 0
              /\ add_new_sub(new_fd, r.id)
              /\ Registered
           \/ /\ subs_by_id[r.id] # 0 /\ IsPast(subs_by_id[r.id])
              /\ revive_sub_connection(subs_by_id[r.id], new_fd)
              /\ Registered
           \/ /\ subs_by_id[r.id] # 0
              /\ srv_tells_sub(new_fd)
              /\ pc' = "refusing"
              /\ UNCHANGED <<new_fd, pfds, max_nfds, subs, subs_by_id, subs_by_fd>>
  BY DEF ReceiveId
<1>0. UNCHANGED <<sock, cliSees>>
  BY DEF ReceiveId
<1> HIDE DEF p
<1>4. /\ r.id \in SubIds
      /\ r.rest \in Seq(UpMsg)
      /\ r.skew \in BOOLEAN
      /\ up[p] = <<>> => r.rest = <<>>
      /\ \A n \in 2..Len(r.rest) :
           r.rest[n].type \in {"subscribe", "unsubscribe", "close"}
  BY <1>2, ReadIdsProperties
<1>5. up' \in [Procs -> Seq(UpMsg)] /\ StreamShape'
  <2>1. cli' = cli
    BY DEF Others, cliVars
  <2> QED BY <1>2, <1>3, <1>4, <2>1, ReadKeepsStreams
<1>6. skew' \in [Procs -> BOOLEAN]
  BY <1>3, <1>4 DEF IInv, TypeOK, ServerTypeOK
<1> DEFINE Tables ==
      /\ pfds' \in Seq([fd : Fds, ready : BOOLEAN])
      /\ max_nfds' \in Nat
      /\ subs' \in Seq([id : SubIds, sock_fd : Fds \cup {NoFd}, topics : SUBSET Storable])
      /\ subs_by_id' \in [SubIds -> Nat]
      /\ subs_by_fd' \in [Fds -> Nat]
      /\ new_fd' \in Fds \cup {NoFd}
      /\ pc' \in {"pass", "refusing"}
      /\ down' \in [Procs -> Seq(DownMsg)]
      /\ srvSees' \in [Procs -> View]
      /\ SessionsOpen' /\ RegistryConsistent'
<1>7. ASSUME /\ subs_by_id[r.id] = 0
             /\ add_new_sub(new_fd, r.id)
             /\ Registered
      PROVE  Tables
  BY <1>0, <1>1, <1>4, <1>7, AddNewSub DEF IInv, TypeOK, SocketsTypeOK, Registered
<1>8. ASSUME /\ subs_by_id[r.id] # 0 /\ IsPast(subs_by_id[r.id])
             /\ revive_sub_connection(subs_by_id[r.id], new_fd)
             /\ Registered
      PROVE  Tables
  <2>1. subs_by_id[r.id] \in Nat /\ subs_by_id[r.id] \in DOMAIN subs
    BY <1>1, <1>4, <1>8, LoopFacts DEF IdsAgree
  <2>2. subs_by_id' \in [SubIds -> Nat]
    BY <1>1, <1>8, LoopFacts DEF revive_sub_connection
  <2> QED BY <1>0, <1>1, <1>8, <2>1, <2>2, ReviveSub
          DEF IInv, TypeOK, SocketsTypeOK, Registered
<1>9. ASSUME /\ subs_by_id[r.id] # 0
             /\ srv_tells_sub(new_fd)
             /\ pc' = "refusing"
             /\ UNCHANGED <<new_fd, pfds, max_nfds, subs, subs_by_id, subs_by_fd>>
      PROVE  Tables
  <2>1. down' \in [Procs -> Seq(DownMsg)] /\ srvSees' \in [Procs -> View]
    <3>1. CloseSrvMsg \in DownMsg
      BY DEF DownMsg
    <3> QED BY <1>9, <3>1, SendDownType
            DEF srv_tells_sub, IInv, TypeOK, SocketsTypeOK
  <2>2. SessionsOpen' /\ RegistryConsistent'
    BY <1>0, <1>1, <1>9, RefusingSub
  <2>3. /\ new_fd'  \in Fds \cup {NoFd}
        /\ pfds' \in Seq([fd : Fds, ready : BOOLEAN])
        /\ max_nfds' \in Nat
        /\ subs' \in Seq([id : SubIds, sock_fd : Fds \cup {NoFd}, topics : SUBSET Storable])
        /\ subs_by_id' \in [SubIds -> Nat]
        /\ subs_by_fd' \in [Fds -> Nat]
    BY <1>9 DEF IInv, TypeOK, ServerTypeOK
  <2> QED BY <1>9, <2>1, <2>2, <2>3
<1>10. Tables
  BY <1>3, <1>7, <1>8, <1>9
<1>11. SocketsTypeOK'
  BY <1>0, <1>5, <1>10 DEF IInv, TypeOK, SocketsTypeOK, ReceiveId
<1>12. ServerTypeOK'
  BY <1>6, <1>10 DEF IInv, TypeOK, ServerTypeOK, ServerPc, ReceiveId
<1>13. TypeOK'
  BY <1>11, <1>12 DEF IInv, TypeOK, SubscriberTypeOK, Others, cliVars
<1>14. CursorInRange' /\ ReportedIsReady'
  BY <1>1, <1>10 DEF IInv, CursorInRange, ReportedIsReady, ReceiveId
<1> QED BY <1>5, <1>10, <1>13, <1>14 DEF IInv

(* What recv() leaves in the message, and in the stream.                    *)
LEMMA ReadMsgsProperties ==
  ASSUME IInv, NEW p \in Procs, NEW r \in ReadMsgs(p)
  PROVE  /\ r.msg \in UpMsg
         /\ r.rest \in Seq(UpMsg)
         /\ r.skew \in BOOLEAN
         /\ up[p] = <<>> => r.rest = <<>>
         /\ \A n \in 2..Len(r.rest) :
              r.rest[n].type \in {"subscribe", "unsubscribe", "close"}
<1>1. /\ up[p] \in Seq(UpMsg) /\ Len(up[p]) \in Nat
      /\ frame \in UpMsg /\ skew[p] \in BOOLEAN
  BY LenProperties DEF IInv, TypeOK, SocketsTypeOK, ServerTypeOK
<1>2. Leftovers \subseteq UpMsg /\ Misreads(Head(up[p])) \cup PieceReads(p) \subseteq UpMsg
  <2>1. Leftovers \subseteq UpMsg
    BY ServerAssumption
  <2>2. Misreads(Head(up[p])) \subseteq UpMsg
    BY DEF Misreads, EmptyMsg, UpMsg, Storable
  <2>3. PieceReads(p) \subseteq UpMsg
    BY DEF PieceReads, UpMsg, Storable
  <2> QED BY <2>1, <2>2, <2>3
<1>3. CASE up[p] = <<>>
  <2>1. r \in [msg : {frame} \cup Leftovers, rest : {<<>>}, skew : {skew[p]}]
    BY <1>3 DEF ReadMsgs
  <2>2. Len(<<>>) = 0 /\ <<>> \in Seq(UpMsg)
    BY EmptySeq
  <2>3. r.msg \in {frame} \cup Leftovers /\ r.rest = <<>> /\ r.skew = skew[p]
    BY <2>1
  <2> QED BY <1>1, <1>2, <2>2, <2>3
<1>4. CASE up[p] # <<>>
  <2>1. /\ Head(up[p]) \in UpMsg
        /\ Tail(up[p]) \in Seq(UpMsg)
        /\ Len(Tail(up[p])) = Len(up[p]) - 1
        /\ \A n \in 1..Len(Tail(up[p])) : Tail(up[p])[n] = up[p][n + 1]
    BY <1>1, <1>4, HeadTailProperties
  <2>2. \/ r \in [msg : {Head(up[p])}, rest : {Tail(up[p])}, skew : {FALSE}]
        \/ r \in [msg : Misreads(Head(up[p])) \cup PieceReads(p), rest : {Tail(up[p])},
                  skew : IF Len(up[p]) = 1 THEN {FALSE} ELSE BOOLEAN]
    BY <1>4 DEF ReadMsgs
  <2>3. /\ r.msg \in {Head(up[p])} \cup (Misreads(Head(up[p])) \cup PieceReads(p))
        /\ r.rest = Tail(up[p]) /\ r.skew \in BOOLEAN
    BY <2>2
  <2>4. \A n \in 2..Len(Tail(up[p])) :
          Tail(up[p])[n].type \in {"subscribe", "unsubscribe", "close"}
    BY <1>1, <2>1 DEF IInv, StreamShape
  <2> QED BY <1>2, <1>4, <2>1, <2>3, <2>4
<1> QED BY <1>3, <1>4

(* The entry handle_sub_msg works on belongs to a connected record.         *)
LEMMA EntryFacts ==
  ASSUME IInv, InLoopOfMain, NEW j \in 1..Len(pfds)
  PROVE  /\ pfds[j].fd \in Fds
         /\ subs_by_fd[pfds[j].fd] \in 1..Len(subs)
         /\ subs[subs_by_fd[pfds[j].fd]].sock_fd = pfds[j].fd
         /\ sock[pfds[j].fd] \in Procs
<1>1. pfds[j].fd \in Fds /\ pfds[j].fd \in PollFds
  BY LoopFacts DEF PollFds
<1>2. subs_by_fd[pfds[j].fd] # 0 /\ sock[pfds[j].fd] # NoProc
  BY <1>1, LoopFacts DEF PollAgrees, DescriptorsAgree
<1>3. /\ subs_by_fd[pfds[j].fd] \in DOMAIN subs
      /\ subs[subs_by_fd[pfds[j].fd]].sock_fd = pfds[j].fd
  BY <1>1, <1>2, LoopFacts DEF FdsAgree
<1> QED BY <1>1, <1>2, <1>3, LoopFacts

(* Shifting the array to the left removes exactly one descriptor.           *)
LEMMA ShiftPfds ==
  ASSUME IInv, InLoopOfMain, NEW j \in 1..Len(pfds), pfds' = Without(j)
  PROVE  /\ pfds' \in Seq([fd : Fds, ready : BOOLEAN])
         /\ Len(pfds') = Len(pfds) - 1
         /\ PollFds' = PollFds \ {pfds[j].fd}
         /\ \A g, h \in DOMAIN pfds' : pfds'[g].fd = pfds'[h].fd => g = h
<1> DEFINE Pfd == [fd : Fds, ready : BOOLEAN]
           n == Len(pfds) - 1
<1>1. /\ pfds \in Seq(Pfd)
      /\ Len(pfds) \in Nat /\ n \in Nat
      /\ DOMAIN pfds = 1..Len(pfds)
  BY LoopFacts
<1>2. \A h \in 1..n : pfds'[h] = IF h < j THEN pfds[h] ELSE pfds[h + 1]
  BY DEF Without
<1>3. \A h \in 1..n : h \in 1..Len(pfds) /\ h + 1 \in 1..Len(pfds)
  BY <1>1
<1>4. pfds' \in Seq(Pfd) /\ Len(pfds') = n /\ DOMAIN pfds' = 1..n
  <2>1. ASSUME NEW h \in 1..n
        PROVE  (IF h < j THEN pfds[h] ELSE pfds[h + 1]) \in Pfd
    <3> HIDE DEF Pfd
    <3>1. pfds[h] \in Pfd /\ pfds[h + 1] \in Pfd
      BY <1>1, <1>3, <2>1, ElementOfSeq
    <3> QED BY <3>1
  <2>2. pfds' = [h \in 1..n |-> IF h < j THEN pfds[h] ELSE pfds[h + 1]]
    BY DEF Without
  <2> HIDE DEF n, Pfd
  <2> QED BY <1>1, <2>1, <2>2, IsASeq
<1>5. \A g, h \in 1..Len(pfds) : pfds[g].fd = pfds[h].fd => g = h
  BY <1>1, LoopFacts DEF PollAgrees
<1>6. ASSUME NEW f \in PollFds'
      PROVE  f \in PollFds /\ f # pfds[j].fd
  <2>1. PICK h \in 1..n : f = pfds'[h].fd
    BY <1>4, <1>6 DEF PollFds
  <2>2. CASE h < j
    <3>1. f = pfds[h].fd /\ h # j /\ h \in 1..Len(pfds)
      BY <1>2, <1>3, <2>1, <2>2
    <3> QED BY <1>1, <1>5, <3>1 DEF PollFds
  <2>3. CASE ~(h < j)
    <3>1. f = pfds[h + 1].fd /\ h + 1 # j /\ h + 1 \in 1..Len(pfds)
      BY <1>2, <1>3, <2>1, <2>3
    <3> QED BY <1>1, <1>5, <3>1 DEF PollFds
  <2> QED BY <2>2, <2>3
<1>7. ASSUME NEW f \in PollFds, f # pfds[j].fd
      PROVE  f \in PollFds'
  <2>1. PICK h \in 1..Len(pfds) : f = pfds[h].fd
    BY <1>1 DEF PollFds
  <2>2. CASE h < j
    <3>1. h \in 1..n
      BY <1>1, <2>2
    <3> QED BY <1>2, <1>4, <2>1, <2>2, <3>1 DEF PollFds
  <2>3. CASE h > j
    <3>1. h - 1 \in 1..n /\ ~(h - 1 < j) /\ (h - 1) + 1 = h
      BY <1>1, <2>3
    <3>2. pfds'[h - 1] = pfds[h]
      BY <1>2, <3>1
    <3> QED BY <1>4, <2>1, <3>1, <3>2 DEF PollFds
  <2>4. h # j
    BY <1>7, <2>1
  <2>5. h < j \/ h > j
    BY <1>1, <2>4
  <2> QED BY <2>2, <2>3, <2>5
<1>8. ASSUME NEW g \in 1..n, NEW h \in 1..n, pfds'[g].fd = pfds'[h].fd
      PROVE  g = h
  <2> DEFINE old(m) == IF m < j THEN m ELSE m + 1
  <2>1. /\ old(g) \in 1..Len(pfds) /\ pfds'[g] = pfds[old(g)]
        /\ old(h) \in 1..Len(pfds) /\ pfds'[h] = pfds[old(h)]
    BY <1>2, <1>3
  <2>2. old(g) = old(h)
    BY <1>5, <1>8, <2>1
  <2> QED BY <2>2
<1> QED BY <1>4, <1>6, <1>7, <1>8

(* sub_closes_srv_connection keeps the tables consistent.                   *)
LEMMA CloseSub ==
  ASSUME IInv, InLoopOfMain, NEW j \in 1..Len(pfds), NEW k,
         k = subs_by_fd[pfds[j].fd],
         NEW rest, sub_closes_srv_connection(k, j, rest),
         new_fd = NoFd, pc = "pass",
         UNCHANGED <<pc, new_fd, max_nfds, subs_by_id>>
  PROVE  /\ pfds' \in Seq([fd : Fds, ready : BOOLEAN])
         /\ subs' \in Seq([id : SubIds, sock_fd : Fds \cup {NoFd}, topics : SUBSET Storable])
         /\ subs_by_fd' \in [Fds -> Nat]
         /\ sock' \in [Fds -> Procs \cup {NoProc}]
         /\ cliSees' \in [Procs -> View]
         /\ SessionsOpen' /\ RegistryConsistent'
<1> DEFINE Sub == [id : SubIds, sock_fd : Fds \cup {NoFd}, topics : SUBSET Storable]
           f == pfds[j].fd
           new == [subs[k] EXCEPT !.sock_fd = NoFd]
<1>1. /\ f \in Fds /\ f # NoFd
      /\ k \in 1..Len(subs)
      /\ subs[k].sock_fd = f
      /\ DOMAIN subs = 1..Len(subs)
      /\ subs \in Seq(Sub)
  BY EntryFacts, LoopFacts
<1>2. /\ pfds' \in Seq([fd : Fds, ready : BOOLEAN])
      /\ Len(pfds') = Len(pfds) - 1
      /\ PollFds' = PollFds \ {f}
      /\ \A g, h \in DOMAIN pfds' : pfds'[g].fd = pfds'[h].fd => g = h
  BY ShiftPfds DEF sub_closes_srv_connection
<1>3. subs[k] \in Sub
  <2> HIDE DEF Sub
  <2> QED BY <1>1, ElementOfSeq
<1>4. /\ subs' \in Seq(Sub)
      /\ DOMAIN subs' = DOMAIN subs
      /\ subs'[k].sock_fd = NoFd
      /\ subs'[k].id = subs[k].id
      /\ \A m \in DOMAIN subs : m # k => subs'[m] = subs[m]
  <2>1. new \in Sub /\ new.sock_fd = NoFd /\ new.id = subs[k].id
    BY <1>3
  <2>2. subs' = [subs EXCEPT ![k] = new]
    BY DEF sub_closes_srv_connection
  <2> HIDE DEF new, Sub
  <2> QED BY <1>1, <2>1, <2>2, ExceptSeq
<1>5. /\ subs_by_fd' \in [Fds -> Nat]
      /\ subs_by_fd'[f] = 0
      /\ \A g \in Fds : g # f => subs_by_fd'[g] = subs_by_fd[g]
  BY <1>1, LoopFacts DEF sub_closes_srv_connection
<1>6. /\ sock' \in [Fds -> Procs \cup {NoProc}]
      /\ sock'[f] = NoProc
      /\ \A g \in Fds : g # f => sock'[g] = sock[g]
  BY <1>1, LoopFacts DEF sub_closes_srv_connection
<1>7. cliSees' \in [Procs -> View]
  BY ClosedWithType DEF sub_closes_srv_connection, IInv, TypeOK, SocketsTypeOK
<1>8. IdsAgree'
  <2>1. \A m \in DOMAIN subs : subs'[m].id = subs[m].id
    BY <1>4
  <2> QED BY <1>4, <2>1, LoopFacts DEF IdsAgree
<1>9. \A m \in DOMAIN subs : Connected(m) /\ m # k =>
         /\ subs_by_fd[subs[m].sock_fd] = m
         /\ subs[m].sock_fd \in PollFds
         /\ subs[m].sock_fd \in Fds
         /\ subs[m].sock_fd # f
  <2>1. ASSUME NEW m \in DOMAIN subs, Connected(m), m # k
        PROVE  /\ subs_by_fd[subs[m].sock_fd] = m
               /\ subs[m].sock_fd \in PollFds
               /\ subs[m].sock_fd \in Fds
               /\ subs[m].sock_fd # f
    <3>1. subs_by_fd[subs[m].sock_fd] = m /\ m # 0
      BY <1>1, <2>1, LoopFacts DEF FdsAgree
    <3>2. subs[m].sock_fd \in Fds
      BY <1>1, <2>1, LoopFacts DEF Connected
    <3> QED BY <2>1, <3>1, <3>2, LoopFacts DEF PollAgrees
  <2> QED BY <2>1
<1>10. \A m \in DOMAIN subs : Connected(m)' => m # k /\ Connected(m) /\ subs'[m] = subs[m]
  BY <1>4 DEF Connected
<1>11. FdsAgree'
  <2>1. ASSUME NEW g \in Fds, subs_by_fd'[g] # 0
        PROVE  subs_by_fd'[g] \in DOMAIN subs' /\ subs'[subs_by_fd'[g]].sock_fd = g
    <3>1. g # f /\ subs_by_fd'[g] = subs_by_fd[g]
      BY <1>5, <2>1
    <3>2. subs_by_fd[g] \in DOMAIN subs /\ subs[subs_by_fd[g]].sock_fd = g
      BY <2>1, <3>1, LoopFacts DEF FdsAgree
    <3> QED BY <1>1, <1>4, <3>1, <3>2
  <2>2. ASSUME NEW m \in DOMAIN subs', Connected(m)'
        PROVE  subs_by_fd'[subs'[m].sock_fd] = m
    BY <1>4, <1>5, <1>9, <1>10, <2>2
  <2> QED BY <2>1, <2>2 DEF FdsAgree
<1>12. PollAgrees'
  <2>1. ASSUME NEW g \in Fds
        PROVE  g \in PollFds' <=> subs_by_fd'[g] # 0
    BY <1>2, <1>5, LoopFacts DEF PollAgrees
  <2>2. Len(pfds') + 3 <= max_nfds'
    BY <1>2, LoopFacts DEF PollAgrees, IInv, TypeOK, ServerTypeOK
  <2> QED BY <1>2, <2>1, <2>2 DEF PollAgrees
<1>13. DescriptorsAgree'
  <2>1. \A g \in Fds : sock[g] # NoProc <=> g \in PollFds \/ g = new_fd
    BY LoopFacts DEF DescriptorsAgree
  <2>2. NoFd \notin Fds /\ PollFds \subseteq Fds
    BY LoopFacts
  <2> QED BY <1>1, <1>2, <1>6, <2>1, <2>2 DEF DescriptorsAgree
<1>14. SessionsOpen'
  <2>1. ASSUME NEW m \in DOMAIN subs', Connected(m)'
        PROVE  sock'[subs'[m].sock_fd] # NoProc
    BY <1>4, <1>6, <1>9, <1>10, <2>1, LoopFacts DEF DescriptorsAgree
  <2> QED BY <1>11, <2>1 DEF SessionsOpen, FdsAgree
<1> QED BY <1>2, <1>4, <1>5, <1>6, <1>7, <1>8, <1>11, <1>12, <1>13, <1>14
        DEF RegistryConsistent

(* A command changes the topics of one record, which no table depends on.   *)
LEMMA CommandSub ==
  ASSUME IInv, InLoopOfMain, NEW k \in 1..Len(subs), NEW m \in UpMsg,
         subs' = [subs EXCEPT ![k].topics = NewTopics(@, m)],
         UNCHANGED <<pc, new_fd, max_nfds, subs_by_id, subs_by_fd, sock, pfds>>
  PROVE  /\ subs' \in Seq([id : SubIds, sock_fd : Fds \cup {NoFd}, topics : SUBSET Storable])
         /\ SessionsOpen' /\ RegistryConsistent'
<1> DEFINE Sub == [id : SubIds, sock_fd : Fds \cup {NoFd}, topics : SUBSET Storable]
           new == [subs[k] EXCEPT !.topics = NewTopics(subs[k].topics, m)]
<1>1. subs \in Seq(Sub) /\ DOMAIN subs = 1..Len(subs)
  BY LoopFacts
<1>2. subs[k] \in Sub
  <2> HIDE DEF Sub
  <2> QED BY <1>1, ElementOfSeq
<1>3. NewTopics(subs[k].topics, m) \in SUBSET Storable
  <2>1. m.type \in {"subscribe", "unsubscribe"} => m.topic \in Storable
    BY DEF UpMsg
  <2>2. subs[k].topics \subseteq Storable
    BY <1>2
  <2> QED BY <2>1, <2>2 DEF NewTopics
<1>4. /\ subs' \in Seq(Sub)
      /\ DOMAIN subs' = DOMAIN subs
      /\ \A n \in DOMAIN subs : subs'[n].id = subs[n].id /\ subs'[n].sock_fd = subs[n].sock_fd
  <2>1. new \in Sub /\ new.id = subs[k].id /\ new.sock_fd = subs[k].sock_fd
    BY <1>2, <1>3
  <2>2. subs' = [subs EXCEPT ![k] = new]
    OBVIOUS
  <2> HIDE DEF new, Sub
  <2>3. /\ subs' \in Seq(Sub)
        /\ DOMAIN subs' = DOMAIN subs
        /\ \A n \in DOMAIN subs : subs'[n] = IF n = k THEN new ELSE subs[n]
    BY <1>1, <2>1, <2>2, ExceptSeq
  <2> QED BY <2>1, <2>3
<1>5. \A n \in DOMAIN subs : Connected(n)' <=> Connected(n)
  BY <1>4 DEF Connected
<1>6. PollFds' = PollFds
  BY DEF PollFds
<1>7. IdsAgree' /\ FdsAgree' /\ PollAgrees' /\ DescriptorsAgree'
  BY <1>4, <1>5, <1>6, LoopFacts DEF IdsAgree, FdsAgree, PollAgrees, DescriptorsAgree
<1>8. SessionsOpen'
  BY <1>4, <1>5 DEF IInv, SessionsOpen, ServerUp
<1> QED BY <1>4, <1>7, <1>8 DEF RegistryConsistent

LEMMA HandleSubMsgInv ==
  ASSUME IInv, NEW j \in 1..Len(pfds), HandleSubMsg(j), Others
  PROVE  IInv'
<1> DEFINE k == subs_by_fd[pfds[j].fd]
           p == sock[subs[k].sock_fd]
<1>1. pc = "pass" /\ InLoopOfMain /\ rev = {}
  BY DEF HandleSubMsg, InLoopOfMain
<1>2. /\ k \in 1..Len(subs)
      /\ p \in Procs
      /\ pfds[j].fd \in Fds
  BY <1>1, EntryFacts
<1>3. ASSUME NEW r \in ReadMsgs(p),
             up' = [up EXCEPT ![p] = r.rest],
             skew' = [skew EXCEPT ![p] = r.skew],
             frame' = r.msg,
             served' = served \cup {pfds[j].fd},
             \/ /\ r.msg.type = "close"
                /\ sub_closes_srv_connection(k, j, r.rest)
             \/ /\ r.msg.type # "close"
                /\ subs' = [subs EXCEPT ![k].topics = NewTopics(@, r.msg)]
                /\ i' = j + 1
                /\ UNCHANGED <<sock, cliSees, subs_by_fd, pfds>>,
             UNCHANGED <<listening, backlog, down, srvSees, udp, console>>,
             UNCHANGED <<pc, rev, max_nfds, subs_by_id, new_fd, cur, dgram, log>>
      PROVE  IInv'
  <2> HIDE DEF k, p
  <2>1. /\ r.msg \in UpMsg
        /\ r.rest \in Seq(UpMsg)
        /\ r.skew \in BOOLEAN
        /\ up[p] = <<>> => r.rest = <<>>
        /\ \A n \in 2..Len(r.rest) :
             r.rest[n].type \in {"subscribe", "unsubscribe", "close"}
    BY <1>2, <1>3, ReadMsgsProperties
  <2>2. up' \in [Procs -> Seq(UpMsg)] /\ StreamShape'
    <3>1. cli' = cli
      BY DEF Others, cliVars
    <3> QED BY <1>2, <1>3, <2>1, <3>1, ReadKeepsStreams
  <2>3. /\ skew' \in [Procs -> BOOLEAN]
        /\ served' \subseteq Fds
        /\ frame' \in UpMsg
    BY <1>2, <1>3, <2>1 DEF IInv, TypeOK, ServerTypeOK
  <2>4. new_fd = NoFd
    BY <1>1, LoopFacts DEF DescriptorsAgree
  <2> DEFINE Tables ==
        /\ i' \in Nat \ {0}
        /\ pfds' \in Seq([fd : Fds, ready : BOOLEAN])
        /\ subs' \in Seq([id : SubIds, sock_fd : Fds \cup {NoFd}, topics : SUBSET Storable])
        /\ subs_by_fd' \in [Fds -> Nat]
        /\ sock' \in [Fds -> Procs \cup {NoProc}]
        /\ cliSees' \in [Procs -> View]
        /\ SessionsOpen' /\ RegistryConsistent'
  <2>5. ASSUME sub_closes_srv_connection(k, j, r.rest)
        PROVE  Tables
    <3>1. i' \in Nat \ {0}
      BY <2>5 DEF sub_closes_srv_connection, IndexAfterClose
    <3>2. k = subs_by_fd[pfds[j].fd]
      BY DEF k
    <3> QED BY <1>1, <1>3, <2>4, <2>5, <3>1, <3>2, CloseSub
  <2>6. ASSUME subs' = [subs EXCEPT ![k].topics = NewTopics(@, r.msg)],
               i' = j + 1,
               UNCHANGED <<sock, cliSees, subs_by_fd, pfds>>
        PROVE  Tables
    <3>1. /\ subs' \in Seq([id : SubIds, sock_fd : Fds \cup {NoFd}, topics : SUBSET Storable])
          /\ SessionsOpen' /\ RegistryConsistent'
      BY <1>1, <1>2, <1>3, <2>1, <2>6, CommandSub
    <3>2. i' \in Nat \ {0}
      BY <2>6
    <3> QED BY <2>6, <3>1, <3>2 DEF IInv, TypeOK, SocketsTypeOK, ServerTypeOK
  <2>7. Tables
    BY <1>3, <2>5, <2>6
  <2>8. SocketsTypeOK'
    BY <1>3, <2>2, <2>7 DEF IInv, TypeOK, SocketsTypeOK
  <2>9. ServerTypeOK'
    BY <1>3, <2>3, <2>7 DEF IInv, TypeOK, ServerTypeOK
  <2>10. TypeOK'
    BY <2>8, <2>9 DEF IInv, TypeOK, SubscriberTypeOK, Others, cliVars
  <2>11. CursorInRange' /\ ReportedIsReady'
    BY <1>1, <1>3 DEF CursorInRange, ReportedIsReady
  <2> QED BY <2>2, <2>7, <2>10, <2>11 DEF IInv
<1>4. CASE Die
  BY <1>4, DieInv
<1> QED BY <1>3, <1>4 DEF HandleSubMsg

LEMMA BlockedSendFailsInv ==
  ASSUME IInv, BlockedSendFails, Others
  PROVE  IInv'
BY DieInv DEF BlockedSendFails

LEMMA ServerStepInv ==
  ASSUME IInv, ServerStep
  PROVE  IInv'
<1>1. Others
  BY DEF ServerStep, Others
<1> QED BY <1>1, PollInv, HandleStdinInv, StopProgramInv, CloseStoppedInv, HandleUdpInv,
           FanoutInv, HandleListenInv, ReceiveIdInv, CloseRefusedInv, HandleSubMsgInv, BlockedSendFailsInv
        DEF ServerStep, ServerNext

(* A stuttering step changes nothing the invariant is about.                *)
LEMMA StutterInv ==
  ASSUME IInv, UNCHANGED vars
  PROVE  IInv'
<1>1. UNCHANGED <<srvVars, sock>> /\ UNCHANGED <<cliVars, sockVars, arrived, want>>
  BY DEF vars, sockVars
<1>2. ServerPart'
  BY <1>1, OthersKeepServerPart DEF sockVars
<1>3. SocketsTypeOK' /\ StreamShape'
  BY <1>1 DEF IInv, TypeOK, SocketsTypeOK, StreamShape, sockVars, cliVars
<1>4. ServerTypeOK'
  BY <1>1 DEF IInv, TypeOK, ServerTypeOK, srvVars
<1>5. SubscriberTypeOK' /\ arrived' \in Nat /\ want' \in [SubIds -> SUBSET Storable]
  BY <1>1 DEF IInv, TypeOK, SubscriberTypeOK, cliVars
<1> QED BY <1>2, <1>3, <1>4, <1>5 DEF IInv, TypeOK, ServerPart

-----------------------------------------------------------------------------
(* The inductive invariant holds in every reachable state.                  *)
THEOREM Invariance == Spec => []IInv
<1>1. Init => IInv
  BY InitInv
<1>2. IInv /\ [Next]_vars => IInv'
  BY ServerStepInv, SubscriberStepInv, UdpArrivalInv, TypeLineInv, StutterInv DEF Next
<1> QED BY <1>1, <1>2, PTL DEF Spec

(* Every variable keeps its type, whatever the number of processes, ids and *)
(* descriptors, the buffers and the faults of the users; in particular a    *)
(* record holds topics of Storable only, be they typed, misread in a stream *)
(* out of step or left on the stack.                                        *)
THEOREM TypeCorrect == Spec => []TypeOK
<1>1. IInv => TypeOK
  BY DEF IInv
<1> QED BY <1>1, Invariance, PTL

(* The list of subscribers, the two maps, the poll array and the kernel's   *)
(* descriptors agree at every point of the server's loop (add_new_sub,      *)
(* revive_sub_connection, sub_closes_srv_connection), also when subscribers *)
(* are killed, ids coalesce with commands and send() blocks.                *)
THEOREM RegistryCorrect == Spec => []RegistryConsistent
<1>1. IInv => RegistryConsistent
  BY DEF IInv
<1> QED BY <1>1, Invariance, PTL

-----------------------------------------------------------------------------
(* The loop of main.                                                        *)

(* The entries still to be handled have something to read.                  *)
AheadReadable ==
  InLoopOfMain =>
    \A j \in DOMAIN pfds : pfds[j].ready /\ j >= i => Readable(pfds[j].fd)

LoopInv == ConnectionsOnce /\ EveryReadyServedOnce /\ AheadReadable

(* poll() would report the server's end of the connection of q.             *)
Announced(q) == up[q] # <<>> \/ srvSees[q] # "open"

-----------------------------------------------------------------------------
(* What a subscriber does never takes away what poll() has reported.        *)
LEMMA SubscriberAnnounces ==
  ASSUME TypeOK, NEW p \in Procs, SubscriberNext(p), NEW q \in Procs, Announced(q)
  PROVE  Announced(q)'
<1>1. /\ up \in [Procs -> Seq(UpMsg)]
      /\ srvSees \in [Procs -> View]
  BY DEF TypeOK, SocketsTypeOK
<1>2. ASSUME sub_close(p), \A r \in Procs : r # p => up'[r] = up[r]
      PROVE  Announced(q)'
  <2>1. srvSees'[p] # "open"
    BY <1>1, <1>2 DEF sub_close, ClosedWith
  <2>2. q # p => srvSees'[q] = srvSees[q]
    BY <1>1, <1>2 DEF sub_close
  <2> QED BY <1>2, <2>1, <2>2 DEF Announced
<1>3. ASSUME NEW m \in UpMsg, SendUp(p, m)
      PROVE  /\ up'[q] = <<>> => up[q] = <<>>
             /\ \A r \in Procs : r # p => up'[r] = up[r]
  <2>1. CASE up' = up
    BY <2>1
  <2>2. CASE up' = [up EXCEPT ![p] = Append(@, m)]
    <3>1. up'[p] = Append(up[p], m) /\ up[p] \in Seq(UpMsg)
      BY <1>1, <2>2
    <3>2. Append(up[p], m) # <<>>
      BY <3>1, AppendProperties
    <3>3. \A r \in Procs : r # p => up'[r] = up[r]
      BY <1>1, <2>2
    <3> QED BY <3>1, <3>2, <3>3
  <2> QED BY <1>3, <2>1, <2>2 DEF SendUp
<1>4. ASSUME NEW m \in UpMsg, SendUp(p, m), UNCHANGED srvSees
      PROVE  Announced(q)'
  BY <1>3, <1>4 DEF Announced
<1>5. CASE Connect(p)
  BY <1>5 DEF Connect, Announced
<1>6. CASE SendId(p)
  <2>1. IdMsg \in UpMsg
    BY DEF UpMsg
  <2> QED BY <1>2, <1>4, <1>6, <2>1 DEF SendId
<1>7. CASE sub_HandleStdin(p)
  <2>1. CloseMsg \in UpMsg
    BY DEF UpMsg
  <2>2. CASE sub_stop_program(p)
    BY <1>2, <1>4, <2>1, <2>2 DEF sub_stop_program
  <2>3. ASSUME NEW type \in {"subscribe", "unsubscribe"}, NEW topic \in Patterns,
               update_subscriptions(p, type, topic)
        PROVE  Announced(q)'
    <3>1. [type |-> type, topic |-> topic] \in UpMsg
      BY DEF UpMsg, Storable
    <3> QED BY <1>2, <1>4, <2>3, <3>1 DEF update_subscriptions
  <2> QED BY <1>7, <2>2, <2>3 DEF sub_HandleStdin
<1>8. CASE HandleServerMsg(p)
  <2>1. up' = up
    BY <1>8 DEF HandleServerMsg
  <2>2. srvSees' = srvSees \/ \E unread : srvSees' = [srvSees EXCEPT ![p] = ClosedWith(unread)]
    BY <1>8, Zenon DEF HandleServerMsg, sub_close
  <2>3. \A unread : ClosedWith(unread) # "open"
    BY DEF ClosedWith
  <2> QED BY <1>1, <2>1, <2>2, <2>3 DEF Announced
<1>9. CASE sub_BlockedSendFails(p)
  BY <1>2, <1>9 DEF sub_BlockedSendFails
<1>10. CASE Crash(p)
  BY <1>1, <1>2, <1>10 DEF Crash
<1>11. CASE sub_Exit(p)
  BY <1>2, <1>11 DEF sub_Exit
<1> QED BY <1>5, <1>6, <1>7, <1>8, <1>9, <1>10, <1>11 DEF SubscriberNext

(* Only connect() adds a connection, of a process that had none.            *)
LEMMA SubscriberConnections ==
  ASSUME IInv, ConnectionsOnce, NEW p \in Procs, SubscriberStep(p)
  PROVE  ConnectionsOnce'
<1>1. /\ sock' = sock
      /\ cli \in [Procs -> CliState]
      /\ backlog \in Seq(Procs)
  BY DEF SubscriberStep, SubscriberNext, Connect, SendId, sub_HandleStdin, HandleServerMsg,
         sub_BlockedSendFails, sub_Exit, Crash, IInv, TypeOK, SubscriberTypeOK, SocketsTypeOK
<1>2. CASE Connect(p) /\ backlog' = Append(backlog, p)
  <2>1. /\ Len(backlog') = Len(backlog) + 1
        /\ \A n \in 1..Len(backlog) : backlog'[n] = backlog[n]
        /\ backlog'[Len(backlog) + 1] = p
        /\ DOMAIN backlog = 1..Len(backlog) /\ DOMAIN backlog' = 1..Len(backlog')
        /\ Len(backlog) \in Nat
    BY <1>1, <1>2, AppendProperties, LenProperties
  <2>2. cli[p] = "off" /\ \A q \in Procs : cli'[q] = "off" => cli[q] = "off" /\ q # p
    BY <1>1, <1>2 DEF Connect
  <2>3. ~InBacklog(p) /\ ~Accepted(p)
    BY <2>2 DEF ConnectionsOnce
  <2>4. \A m, n \in DOMAIN backlog' : backlog'[m] = backlog'[n] => m = n
    BY <2>1, <2>3 DEF ConnectionsOnce, InBacklog
  <2>5. \A fd \in Fds : \A n \in DOMAIN backlog' : sock[fd] # backlog'[n]
    BY <2>1, <2>3 DEF ConnectionsOnce, Accepted
  <2>6. \A q \in Procs : InBacklog(q)' \/ Accepted(q)' => cli'[q] # "off"
    BY <1>1, <2>1, <2>2 DEF ConnectionsOnce, InBacklog, Accepted
  <2> QED BY <1>1, <2>4, <2>5, <2>6 DEF ConnectionsOnce
<1>3. CASE UNCHANGED backlog
  <2>1. \A q \in Procs : cli'[q] = "off" => cli[q] = "off"
    BY <1>1 DEF SubscriberStep, SubscriberNext, Connect, SendId, sub_HandleStdin,
                sub_stop_program, update_subscriptions, HandleServerMsg,
                sub_BlockedSendFails, sub_Exit, Crash
  <2> QED BY <1>1, <1>3, <2>1 DEF ConnectionsOnce, InBacklog, Accepted
<1> QED BY <1>2, <1>3 DEF SubscriberStep, SubscriberNext, Connect, SendId, sub_HandleStdin,
           HandleServerMsg, sub_BlockedSendFails, sub_Exit, Crash

LEMMA SubscriberLoop ==
  ASSUME IInv, LoopInv, NEW p \in Procs, SubscriberStep(p)
  PROVE  LoopInv'
<1>1. UNCHANGED srvVars /\ sock' = sock
  BY DEF SubscriberStep, SubscriberNext, Connect, SendId, sub_HandleStdin, HandleServerMsg,
         sub_BlockedSendFails, sub_Exit, Crash
<1>2. EveryReadyServedOnce'
  BY <1>1 DEF LoopInv, EveryReadyServedOnce, InLoopOfMain, srvVars
<1>3. AheadReadable'
  <2> SUFFICES ASSUME InLoopOfMain', NEW j \in DOMAIN pfds', pfds'[j].ready, j >= i'
               PROVE  Readable(pfds[j].fd)'
    BY <1>1 DEF AheadReadable, srvVars
  <2>1. InLoopOfMain /\ j \in DOMAIN pfds /\ pfds[j].ready /\ j >= i
    BY <1>1 DEF srvVars, InLoopOfMain
  <2>2. Announced(sock[pfds[j].fd])
    BY <2>1 DEF LoopInv, AheadReadable, Readable, Announced
  <2>3. sock[pfds[j].fd] \in Procs
    BY <2>1, LoopFacts, EntryFacts
  <2>4. Announced(sock[pfds[j].fd])'
    <3> DEFINE q == sock[pfds[j].fd]
    <3>1. pfds' = pfds
      BY <1>1 DEF srvVars
    <3>2. q' = q
      BY <1>1, <3>1
    <3>3. Announced(q)
      BY <2>2
    <3>4. up'[q] # <<>> \/ srvSees'[q] # "open"
      <4> HIDE DEF q
      <4> QED BY <2>3, <3>3, SubscriberAnnounces DEF IInv, SubscriberStep, Announced, q
    <3> QED BY <3>2, <3>4 DEF Announced
  <2> QED BY <1>1, <2>4 DEF Readable, Announced, srvVars
<1>4. ConnectionsOnce'
  BY SubscriberConnections DEF LoopInv
<1> QED BY <1>2, <1>3, <1>4 DEF LoopInv

-----------------------------------------------------------------------------
(* The environment.                                                         *)
LEMMA EnvironmentLoop ==
  ASSUME IInv, LoopInv, UdpArrival \/ TypeLine \/ UNCHANGED vars
  PROVE  LoopInv'
<1>1. UNCHANGED <<srvVars, sock, up, srvSees, backlog, cli>>
  BY DEF UdpArrival, TypeLine, vars, sockVars, cliVars
<1> QED
  BY <1>1 DEF LoopInv, ConnectionsOnce, EveryReadyServedOnce, AheadReadable, InLoopOfMain,
     Readable, InBacklog, Accepted, srvVars

-----------------------------------------------------------------------------
(* The server.                                                              *)

(* Closing descriptors and forgetting the backlog adds no connection.       *)
LEMMA FewerConnections ==
  ASSUME IInv, ConnectionsOnce, cli' = cli,
         backlog' = backlog \/ backlog' = <<>>,
         \A fd \in Fds : sock'[fd] = sock[fd] \/ sock'[fd] = NoProc
  PROVE  ConnectionsOnce'
<1>1. backlog \in Seq(Procs) /\ \A n \in DOMAIN backlog : backlog[n] # NoProc
  <2>1. backlog \in Seq(Procs)
    BY DEF IInv, TypeOK, SocketsTypeOK
  <2> QED BY <2>1, SocketsAssumption, LenProperties, ElementOfSeq
<1>2. \A n \in DOMAIN backlog' : n \in DOMAIN backlog /\ backlog'[n] = backlog[n]
  <2>1. CASE backlog' = backlog
    BY <2>1
  <2>2. CASE backlog' = <<>>
    <3>1. DOMAIN backlog' = {}
      BY <2>2
    <3> QED BY <3>1
  <2> QED BY <2>1, <2>2
<1>3. \A q \in Procs : Accepted(q)' => Accepted(q)
  BY SocketsAssumption DEF Accepted
<1>4. \A q \in Procs : InBacklog(q)' => InBacklog(q)
  BY <1>2 DEF InBacklog
<1> QED BY <1>1, <1>2, <1>3, <1>4 DEF ConnectionsOnce

LEMMA LeavesLoop ==
  ASSUME ConnectionsOnce', ~InLoopOfMain'
  PROVE  LoopInv'
BY DEF LoopInv, EveryReadyServedOnce, AheadReadable, InLoopOfMain

(* A handler that leaves the poll array alone, and takes nothing away from  *)
(* its entries, keeps what is said of them.                                 *)
LEMMA EntriesKept ==
  ASSUME IInv, LoopInv, InLoopOfMain, UNCHANGED <<pfds, i, served>>,
         \A fd \in PollFds : Readable(fd) => Readable(fd)'
  PROVE  EveryReadyServedOnce' /\ AheadReadable'
<1>1. EveryReadyServedOnce'
  BY DEF LoopInv, EveryReadyServedOnce
<1>2. AheadReadable'
  <2> SUFFICES ASSUME NEW j \in DOMAIN pfds, pfds[j].ready, j >= i
               PROVE  Readable(pfds[j].fd)'
    BY DEF AheadReadable
  <2>1. Readable(pfds[j].fd) /\ pfds[j].fd \in PollFds
    BY DEF LoopInv, AheadReadable, PollFds
  <2> DEFINE fd == pfds[j].fd
  <2>2. fd' = fd
    OBVIOUS
  <2>3. \A g : Readable(g)' <=> (up'[sock'[g]] # <<>> \/ srvSees'[sock'[g]] # "open")
    BY DEF Readable
  <2> QED BY <2>1, <2>2, <2>3
<1> QED BY <1>1, <1>2

(* What happens to the connection behind one descriptor does not make       *)
(* another one unreadable.                                                  *)
LEMMA OtherReadable ==
  ASSUME IInv, ConnectionsOnce, InLoopOfMain,
         NEW gd \in Fds, NEW fd \in PollFds, fd # gd,
         sock'[fd] = sock[fd],
         \A q \in Procs : q # sock[gd] =>
           up'[q] = up[q] /\ (srvSees[q] # "open" => srvSees'[q] # "open"),
         Readable(fd)
  PROVE  Readable(fd)'
<1>1. fd \in Fds /\ sock[fd] \in Procs
  BY LoopFacts DEF DescriptorsAgree
<1>2. sock[fd] # sock[gd]
  BY <1>1, SocketsAssumption DEF ConnectionsOnce
<1> QED BY <1>1, <1>2 DEF Readable

LEMMA DieLoop ==
  ASSUME IInv, LoopInv, Die, Others
  PROVE  LoopInv'
<1>1. ConnectionsOnce'
  BY FewerConnections DEF LoopInv, Die, CloseEverything, Others, cliVars
<1> QED BY <1>1, LeavesLoop DEF Die, InLoopOfMain

LEMMA PollLoop ==
  ASSUME IInv, LoopInv, Poll, Others
  PROVE  LoopInv'
<1>1. /\ UNCHANGED <<sock, up, srvSees, backlog, cli>>
      /\ i' = 1 /\ served' = {} /\ pfds' = Polled
  BY DEF Poll, Others, cliVars, sockVars
<1>2. /\ DOMAIN pfds' \subseteq Nat \ {0}
      /\ \A j \in DOMAIN pfds' : pfds'[j].ready = Readable(pfds'[j].fd)
  <2>1. Len(pfds) \in Nat
    BY LenProperties DEF IInv, TypeOK, ServerTypeOK
  <2> QED BY <1>1, <2>1 DEF Polled
<1>3. EveryReadyServedOnce'
  BY <1>1, <1>2 DEF EveryReadyServedOnce
<1>4. AheadReadable'
  BY <1>1, <1>2 DEF AheadReadable, Readable
<1>5. ConnectionsOnce'
  BY <1>1, FewerConnections DEF LoopInv
<1> QED BY <1>3, <1>4, <1>5 DEF LoopInv

LEMMA HandleStdinLoop ==
  ASSUME IInv, LoopInv, HandleStdin, Others
  PROVE  LoopInv'
<1>1. CASE Die
  BY <1>1, DieLoop
<1>2. CASE UNCHANGED <<backlog, sock, up, srvSees, i, pfds, served>>
  <2>1. ConnectionsOnce'
    BY <1>2, FewerConnections DEF LoopInv, Others, cliVars
  <2>2. \A fd \in PollFds : Readable(fd) => Readable(fd)'
    BY <1>2 DEF Readable
  <2> QED BY <1>2, <2>1, <2>2, EntriesKept DEF HandleStdin, InLoopOfMain, LoopInv
<1> QED BY <1>1, <1>2 DEF HandleStdin

LEMMA StopProgramLoop ==
  ASSUME IInv, LoopInv, StopProgram, Others
  PROVE  LoopInv'
<1>1. /\ sock \in [Fds -> Procs \cup {NoProc}]
      /\ backlog' = backlog \/ backlog' = <<>>
      /\ cli' = cli
  BY DEF IInv, TypeOK, SocketsTypeOK, StopProgram, CloseEverything, Others, cliVars
<1>2. ConnectionsOnce'
  BY <1>1, FewerConnections DEF LoopInv, StopProgram
<1> QED BY <1>2, LeavesLoop DEF StopProgram, InLoopOfMain

LEMMA CloseStoppedLoop ==
  ASSUME IInv, LoopInv, CloseStopped, Others
  PROVE  LoopInv'
<1>1. /\ sock \in [Fds -> Procs \cup {NoProc}]
      /\ backlog' = backlog
      /\ cli' = cli
  BY DEF IInv, TypeOK, SocketsTypeOK, CloseStopped, Others, cliVars
<1>2. \E fd : sock' = [sock EXCEPT ![fd] = NoProc]
  BY Zenon DEF CloseStopped, srv_closes_sub_connection
<1>3. \A fd \in Fds : sock'[fd] = sock[fd] \/ sock'[fd] = NoProc
  BY <1>1, <1>2
<1>4. ConnectionsOnce'
  BY <1>1, <1>3, FewerConnections DEF LoopInv
<1> QED BY <1>4, LeavesLoop DEF CloseStopped, InLoopOfMain

LEMMA HandleUdpLoop ==
  ASSUME IInv, LoopInv, HandleUdp, Others
  PROVE  LoopInv'
<1>1. /\ UNCHANGED <<backlog, sock, up, srvSees, i, pfds, served, cli>>
      /\ InLoopOfMain
  BY DEF HandleUdp, InLoopOfMain, Others, cliVars
<1>2. \A fd \in PollFds : Readable(fd) => Readable(fd)'
  BY <1>1 DEF Readable
<1>3. ConnectionsOnce'
  BY <1>1, FewerConnections DEF LoopInv
<1> QED BY <1>1, <1>2, <1>3, EntriesKept DEF LoopInv

(* A send() does not make the other end look open again.                    *)
LEMMA SendDownAnnounces ==
  ASSUME srvSees \in [Procs -> View], NEW p, NEW m, SendDown(p, m), NEW q \in Procs,
         srvSees[q] # "open"
  PROVE  srvSees'[q] # "open"
<1>1. srvSees' = srvSees \/ \E view \in {"fin", "finrst"} : srvSees' = [srvSees EXCEPT ![p] = view]
  BY Zenon DEF SendDown
<1> QED BY <1>1

LEMMA FanoutLoop ==
  ASSUME IInv, LoopInv, Fanout, Others
  PROVE  LoopInv'
<1>1. /\ UNCHANGED <<sock, up, i, pfds, served, cli>>
      /\ backlog' = backlog \/ backlog' = <<>>
      /\ InLoopOfMain
      /\ srvSees \in [Procs -> View]
  BY DEF Fanout, CloseEverything, InLoopOfMain, Others, cliVars, IInv, TypeOK, SocketsTypeOK
<1>2. srvSees' = srvSees \/ \E p, m : SendDown(p, m)
  BY DEF Fanout
<1>3. \A q \in Procs : srvSees[q] # "open" => srvSees'[q] # "open"
  BY <1>1, <1>2, SendDownAnnounces
<1>4. \A fd \in PollFds : Readable(fd) => Readable(fd)'
  <2>1. \A fd \in PollFds : sock[fd] \in Procs
    BY <1>1, LoopFacts DEF DescriptorsAgree
  <2> QED BY <1>1, <1>3, <2>1 DEF Readable
<1>5. ConnectionsOnce'
  BY <1>1, FewerConnections DEF LoopInv
<1> QED BY <1>1, <1>4, <1>5, EntriesKept DEF LoopInv

LEMMA HandleListenLoop ==
  ASSUME IInv, LoopInv, HandleListen, Others
  PROVE  LoopInv'
<1>1. ASSUME NEW fd \in FreeFds,
             sock' = [sock EXCEPT ![fd] = Head(backlog)],
             backlog' = Tail(backlog),
             UNCHANGED <<up, srvSees, i, pfds, served>>
      PROVE  LoopInv'
  <2>1. /\ InLoopOfMain /\ pc = "pass"
        /\ fd \in Fds /\ sock[fd] = NoProc
        /\ cli' = cli
        /\ sock \in [Fds -> Procs \cup {NoProc}]
        /\ backlog \in Seq(Procs) /\ backlog # <<>>
    BY <1>1 DEF HandleListen, InLoopOfMain, FreeFds, Others, cliVars, IInv, TypeOK, SocketsTypeOK,
                ReportedIsReady
  <2>2. /\ Head(backlog) = backlog[1] /\ 1 \in DOMAIN backlog
        /\ \A n \in DOMAIN backlog' :
             /\ n + 1 \in DOMAIN backlog /\ backlog'[n] = backlog[n + 1]
             /\ n \in Nat /\ n + 1 # 1
        /\ \A n \in DOMAIN backlog : backlog[n] \in Procs
    BY <1>1, <2>1, HeadTailProperties, LenProperties, ElementOfSeq
  <2>3. /\ sock'[fd] = backlog[1]
        /\ \A gd \in Fds : gd # fd => sock'[gd] = sock[gd]
    BY <1>1, <2>1, <2>2
  <2>4. ConnectionsOnce'
    <3>1. \A gd, hd \in Fds : sock'[gd] # NoProc /\ sock'[gd] = sock'[hd] => gd = hd
      BY <2>2, <2>3 DEF LoopInv, ConnectionsOnce
    <3>2. \A m, n \in DOMAIN backlog' : backlog'[m] = backlog'[n] => m = n
      <4> SUFFICES ASSUME NEW m \in DOMAIN backlog', NEW n \in DOMAIN backlog',
                          backlog'[m] = backlog'[n]
                   PROVE  m = n
        OBVIOUS
      <4>1. m + 1 = n + 1
        BY <2>2 DEF LoopInv, ConnectionsOnce
      <4> QED BY <2>2, <4>1
    <3>3. \A gd \in Fds : \A n \in DOMAIN backlog' : sock'[gd] # backlog'[n]
      BY <2>2, <2>3 DEF LoopInv, ConnectionsOnce
    <3>4. \A q \in Procs : InBacklog(q)' \/ Accepted(q)' => InBacklog(q) \/ Accepted(q)
      BY <2>2, <2>3 DEF InBacklog, Accepted
    <3> QED BY <2>1, <3>1, <3>2, <3>3, <3>4 DEF LoopInv, ConnectionsOnce
  <2>5. \A gd \in PollFds : gd # fd /\ gd \in Fds
    BY <2>1, LoopFacts DEF DescriptorsAgree
  <2>6. \A gd \in PollFds : Readable(gd) => Readable(gd)'
    BY <1>1, <2>3, <2>5 DEF Readable
  <2> QED BY <1>1, <2>1, <2>4, <2>6, EntriesKept DEF LoopInv
<1>2. CASE Die
  BY <1>2, DieLoop
<1> QED BY <1>1, <1>2 DEF HandleListen

(* A new entry waits for the next poll(), those before it stay.             *)
LEMMA AddedEntry ==
  ASSUME IInv, LoopInv, pc = "recv_id", new_fd \in Fds, add_pfd(new_fd),
         UNCHANGED <<i, served>>,
         \A fd \in PollFds : Readable(fd) => Readable(fd)'
  PROVE  EveryReadyServedOnce' /\ AheadReadable'
<1> DEFINE new == [fd |-> new_fd, ready |-> FALSE]
           Pfd == [fd : Fds, ready : BOOLEAN]
<1>1. InLoopOfMain
  BY DEF InLoopOfMain
<1>2. \A j \in DOMAIN pfds' : pfds'[j].ready => j \in DOMAIN pfds /\ pfds'[j] = pfds[j]
  <2>1. pfds \in Seq(Pfd) /\ DOMAIN pfds = 1..Len(pfds) /\ Len(pfds) \in Nat
    BY <1>1, LoopFacts
  <2>2. new \in Pfd /\ pfds' = Append(pfds, new)
    BY DEF add_pfd
  <2>3. /\ DOMAIN pfds' = 1..(Len(pfds) + 1)
        /\ \A j \in 1..Len(pfds) : pfds'[j] = pfds[j]
        /\ pfds'[Len(pfds) + 1] = new
    <3> HIDE DEF new, Pfd
    <3> QED BY <2>1, <2>2, AppendProperties, LenProperties
  <2>4. ~new.ready
    OBVIOUS
  <2>5. \A j \in 1..(Len(pfds) + 1) : j \in 1..Len(pfds) \/ j = Len(pfds) + 1
    BY <2>1
  <2> HIDE DEF new
  <2> QED BY <2>1, <2>3, <2>4, <2>5
<1>3. EveryReadyServedOnce'
  BY <1>1, <1>2 DEF LoopInv, EveryReadyServedOnce
<1>4. AheadReadable'
  <2> SUFFICES ASSUME NEW j \in DOMAIN pfds', pfds'[j].ready, j >= i'
               PROVE  Readable(pfds[j].fd)'
    BY DEF AheadReadable
  <2>1. j \in DOMAIN pfds /\ pfds'[j] = pfds[j] /\ pfds[j].ready /\ j >= i
    BY <1>2
  <2>2. Readable(pfds[j].fd) /\ pfds[j].fd \in PollFds
    BY <1>1, <2>1 DEF LoopInv, AheadReadable, PollFds
  <2>3. \A g : Readable(g)' <=> (up'[sock'[g]] # <<>> \/ srvSees'[sock'[g]] # "open")
    BY DEF Readable
  <2> QED BY <2>1, <2>2, <2>3
<1> QED BY <1>3, <1>4

LEMMA ReceiveIdLoop ==
  ASSUME IInv, LoopInv, ReceiveId, Others
  PROVE  LoopInv'
<1> DEFINE p == sock[new_fd]
<1>1. /\ InLoopOfMain /\ pc = "recv_id"
      /\ UNCHANGED <<i, served, backlog, cli>>
  BY DEF ReceiveId, InLoopOfMain, Others, cliVars
<1>2. /\ new_fd \in Fds /\ new_fd \notin PollFds
      /\ sock \in [Fds -> Procs \cup {NoProc}]
      /\ up \in [Procs -> Seq(UpMsg)]
      /\ srvSees \in [Procs -> View]
  BY <1>1, LoopFacts DEF DescriptorsAgree, IInv, TypeOK, ServerTypeOK, SocketsTypeOK
<1>3. /\ \E rest : up' = [up EXCEPT ![p] = rest]
      /\ sock' = sock
      /\ \/ add_pfd(new_fd) /\ UNCHANGED srvSees
         \/ UNCHANGED pfds /\ SendDown(p, CloseSrvMsg)
  <2>1. PICK r \in ReadIds(p) :
          /\ up' = [up EXCEPT ![p] = r.rest]
          /\ \/ add_new_sub(new_fd, r.id) /\ Registered
             \/ revive_sub_connection(subs_by_id[r.id], new_fd) /\ Registered
             \/ srv_tells_sub(new_fd) /\ UNCHANGED pfds
    BY Zenon DEF ReceiveId
  <2>2. sock' = sock
    BY DEF ReceiveId
  <2> QED
    BY <2>1, <2>2, Zenon DEF add_new_sub, revive_sub_connection, Registered, srv_tells_sub
<1>4. \A q \in Procs : q # p =>
        up'[q] = up[q] /\ (srvSees[q] # "open" => srvSees'[q] # "open")
  <2>1. \A q \in Procs : q # p => up'[q] = up[q]
    BY <1>2, <1>3
  <2>2. \A q \in Procs : srvSees[q] # "open" => srvSees'[q] # "open"
    BY <1>2, <1>3, SendDownAnnounces
  <2> QED BY <2>1, <2>2
<1>5. \A fd \in PollFds : fd \in Fds /\ fd # new_fd /\ sock'[fd] = sock[fd]
  BY <1>1, <1>2, <1>3, LoopFacts
<1>6. \A fd \in PollFds : Readable(fd) => Readable(fd)'
  BY <1>1, <1>2, <1>4, <1>5, OtherReadable DEF LoopInv
<1>7. ConnectionsOnce'
  <2>1. \A fd \in Fds : sock'[fd] = sock[fd] \/ sock'[fd] = NoProc
    BY <1>2, <1>3
  <2> QED BY <1>1, <2>1, FewerConnections DEF LoopInv
<1>8. EveryReadyServedOnce' /\ AheadReadable'
  BY <1>1, <1>2, <1>3, <1>6, AddedEntry, EntriesKept
<1> QED BY <1>7, <1>8 DEF LoopInv

LEMMA CloseRefusedLoop ==
  ASSUME IInv, LoopInv, CloseRefused, Others
  PROVE  LoopInv'
<1>1. /\ InLoopOfMain /\ pc = "refusing"
      /\ UNCHANGED <<i, served, pfds, backlog, cli, up, srvSees>>
      /\ sock' = [sock EXCEPT ![new_fd] = NoProc]
  BY DEF CloseRefused, srv_closes_sub_connection, InLoopOfMain, Others, cliVars
<1>2. /\ new_fd \in Fds /\ new_fd \notin PollFds
      /\ sock \in [Fds -> Procs \cup {NoProc}]
  BY <1>1, LoopFacts DEF DescriptorsAgree, IInv, TypeOK, ServerTypeOK, SocketsTypeOK
<1>3. \A fd \in PollFds : Readable(fd) => Readable(fd)'
  <2>1. \A fd \in PollFds : sock'[fd] = sock[fd]
    BY <1>1, <1>2, LoopFacts
  <2> QED BY <1>1, <2>1 DEF Readable
<1>4. ConnectionsOnce'
  <2>1. \A fd \in Fds : sock'[fd] = sock[fd] \/ sock'[fd] = NoProc
    BY <1>1, <1>2
  <2> QED BY <1>1, <2>1, FewerConnections DEF LoopInv
<1>5. EveryReadyServedOnce' /\ AheadReadable'
  BY <1>1, <1>3, EntriesKept
<1> QED BY <1>4, <1>5 DEF LoopInv

(* handle_sub_msg for a command: the index moves on.                        *)
LEMMA CommandEntry ==
  ASSUME IInv, LoopInv, InLoopOfMain, NEW j \in 1..Len(pfds), NextReady(j),
         UNCHANGED pfds, i' = j + 1, served' = served \cup {pfds[j].fd},
         \A fd \in PollFds : fd # pfds[j].fd /\ Readable(fd) => Readable(fd)'
  PROVE  EveryReadyServedOnce' /\ AheadReadable'
<1>1. /\ DOMAIN pfds = 1..Len(pfds) /\ Len(pfds) \in Nat
      /\ i \in Nat
      /\ \A h \in 1..Len(pfds) : pfds[h].fd = pfds[j].fd => h = j
  BY LoopFacts DEF PollAgrees, IInv, TypeOK, ServerTypeOK
<1>2. \A h \in 1..Len(pfds) : pfds[h].ready => h < i \/ h >= j
  BY <1>1 DEF NextReady
<1>3. EveryReadyServedOnce'
  <2> SUFFICES ASSUME NEW h \in DOMAIN pfds, pfds[h].ready
               PROVE  pfds[h].fd \in served' <=> h < j + 1
    BY DEF EveryReadyServedOnce
  <2>1. pfds[h].fd \in served <=> h < i
    BY DEF LoopInv, EveryReadyServedOnce
  <2>2. j >= i /\ h \in Nat /\ j \in Nat
    BY <1>1 DEF NextReady
  <2>3. CASE h = j
    BY <2>2, <2>3
  <2>4. CASE h # j
    <3>1. pfds[h].fd \in served' <=> h < i
      BY <1>1, <2>1, <2>4
    <3> QED BY <1>1, <1>2, <2>2, <2>4, <3>1
  <2> QED BY <2>3, <2>4
<1>4. AheadReadable'
  <2> SUFFICES ASSUME NEW h \in DOMAIN pfds, pfds[h].ready, h >= j + 1
               PROVE  Readable(pfds[h].fd)'
    BY DEF AheadReadable
  <2>1. h >= i /\ h # j
    BY <1>1 DEF NextReady
  <2>2. Readable(pfds[h].fd) /\ pfds[h].fd \in PollFds /\ pfds[h].fd # pfds[j].fd
    BY <1>1, <2>1 DEF LoopInv, AheadReadable, PollFds
  <2>3. \A g : Readable(g)' <=> (up'[sock'[g]] # <<>> \/ srvSees'[sock'[g]] # "open")
    BY DEF Readable
  <2> QED BY <2>2, <2>3
<1> QED BY <1>3, <1>4

(* handle_sub_msg for CLOSE_SUB_MSG: the array shifts, the index stays.     *)
LEMMA ClosedEntry ==
  ASSUME IInv, LoopInv, InLoopOfMain, NEW j \in 1..Len(pfds), NextReady(j),
         pfds' = Without(j), i' = j, served' = served \cup {pfds[j].fd},
         \A fd \in PollFds : fd # pfds[j].fd /\ Readable(fd) => Readable(fd)'
  PROVE  EveryReadyServedOnce' /\ AheadReadable'
<1>0. /\ DOMAIN pfds = 1..Len(pfds) /\ Len(pfds) \in Nat
      /\ i \in Nat
      /\ \A h \in 1..Len(pfds) : pfds[h].fd = pfds[j].fd => h = j
  BY LoopFacts DEF PollAgrees, IInv, TypeOK, ServerTypeOK
<1>1. /\ DOMAIN pfds = 1..Len(pfds) /\ Len(pfds) \in Nat
      /\ i \in Nat /\ j >= i
      /\ \A h \in 1..Len(pfds) : pfds[h].fd = pfds[j].fd => h = j
  BY <1>0 DEF NextReady
<1>2. \A h \in 1..Len(pfds) : pfds[h].ready => h < i \/ h >= j
  BY <1>1 DEF NextReady
<1> DEFINE old(h) == IF h < j THEN h ELSE h + 1
<1>3. \A h \in DOMAIN pfds' :
        /\ h \in Nat /\ old(h) \in 1..Len(pfds) /\ old(h) # j
        /\ pfds'[h] = pfds[old(h)]
  BY <1>1 DEF Without
<1>4. EveryReadyServedOnce'
  <2> SUFFICES ASSUME NEW h \in DOMAIN pfds', pfds'[h].ready
               PROVE  pfds'[h].fd \in served' <=> h < j
    BY DEF EveryReadyServedOnce
  <2>1. /\ h \in Nat /\ old(h) \in 1..Len(pfds) /\ old(h) # j
        /\ pfds'[h] = pfds[old(h)] /\ pfds[old(h)].ready
    BY <1>3
  <2>2. pfds[old(h)].fd \in served <=> old(h) < i
    <3> HIDE DEF old
    <3> QED BY <1>1, <2>1 DEF LoopInv, EveryReadyServedOnce
  <2>3. pfds[old(h)].fd # pfds[j].fd
    <3> HIDE DEF old
    <3> QED BY <1>1, <2>1
  <2>4. old(h) < i \/ old(h) >= j
    <3> HIDE DEF old
    <3> QED BY <1>2, <2>1
  <2>5. pfds'[h].fd \in served' <=> old(h) < i
    <3> HIDE DEF old
    <3> QED BY <2>1, <2>2, <2>3
  <2> QED BY <1>1, <2>1, <2>4, <2>5
<1>5. AheadReadable'
  <2> SUFFICES ASSUME NEW h \in DOMAIN pfds', pfds'[h].ready, h >= j
               PROVE  Readable(pfds[h].fd)'
    BY DEF AheadReadable
  <2>1. /\ old(h) \in 1..Len(pfds) /\ old(h) # j /\ old(h) >= i
        /\ pfds'[h] = pfds[old(h)] /\ pfds[old(h)].ready
    BY <1>1, <1>3
  <2>2. /\ Readable(pfds[old(h)].fd)
        /\ pfds[old(h)].fd \in PollFds
        /\ pfds[old(h)].fd # pfds[j].fd
    <3> HIDE DEF old
    <3> QED BY <1>1, <2>1 DEF LoopInv, AheadReadable, PollFds
  <2>3. Readable(pfds[h].fd)' <=>
          (up'[sock'[pfds'[h].fd]] # <<>> \/ srvSees'[sock'[pfds'[h].fd]] # "open")
    BY DEF Readable
  <2>4. \A fd : Readable(fd)' <=> (up'[sock'[fd]] # <<>> \/ srvSees'[sock'[fd]] # "open")
    BY DEF Readable
  <2> HIDE DEF old
  <2> QED BY <2>1, <2>2, <2>3, <2>4
<1> QED BY <1>4, <1>5

LEMMA HandleSubMsgLoop ==
  ASSUME IInv, LoopInv, NEW j \in 1..Len(pfds), HandleSubMsg(j), Others
  PROVE  LoopInv'
<1> DEFINE k == subs_by_fd[pfds[j].fd]
           p == sock[pfds[j].fd]
<1>1. /\ InLoopOfMain
      /\ NextReady(j)
      /\ cli' = cli
  BY DEF HandleSubMsg, InLoopOfMain, Others, cliVars
<1>2. /\ pfds[j].fd \in Fds
      /\ subs[k].sock_fd = pfds[j].fd
      /\ sock \in [Fds -> Procs \cup {NoProc}]
      /\ up \in [Procs -> Seq(UpMsg)]
  BY <1>1, EntryFacts DEF IInv, TypeOK, SocketsTypeOK
<1>3. CASE Die
  BY <1>3, DieLoop
<1>4. ASSUME NEW rest,
             up' = [up EXCEPT ![p] = rest],
             served' = served \cup {pfds[j].fd},
             UNCHANGED <<backlog, srvSees>>,
             \/ sub_closes_srv_connection(k, j, rest)
             \/ i' = j + 1 /\ UNCHANGED <<sock, pfds>>
      PROVE  LoopInv'
  <2>1. \A q \in Procs : q # sock[pfds[j].fd] =>
          up'[q] = up[q] /\ (srvSees[q] # "open" => srvSees'[q] # "open")
    BY <1>2, <1>4
  <2>2. \A fd \in Fds : /\ sock'[fd] = sock[fd] \/ sock'[fd] = NoProc
                        /\ fd # pfds[j].fd => sock'[fd] = sock[fd]
    <3>1. sock' = sock \/ sock' = [sock EXCEPT ![pfds[j].fd] = NoProc]
      BY <1>2, <1>4 DEF sub_closes_srv_connection
    <3> QED BY <1>2, <3>1
  <2>3. \A fd \in PollFds : fd # pfds[j].fd /\ Readable(fd) => Readable(fd)'
    BY <1>1, <1>2, <2>1, <2>2, LoopFacts, OtherReadable DEF LoopInv
  <2>4. ConnectionsOnce'
    BY <1>1, <1>4, <2>2, FewerConnections DEF LoopInv
  <2>5. CASE sub_closes_srv_connection(k, j, rest)
    <3>1. pfds' = Without(j) /\ i' = j
      BY <2>5 DEF sub_closes_srv_connection, IndexAfterClose
    <3> QED BY <1>1, <1>4, <2>3, <2>4, <3>1, ClosedEntry DEF LoopInv
  <2>6. CASE i' = j + 1 /\ UNCHANGED <<sock, pfds>>
    BY <1>1, <1>4, <2>3, <2>4, <2>6, CommandEntry DEF LoopInv
  <2> QED BY <1>4, <2>5, <2>6
<1>5. Die \/ \E rest :
        /\ up' = [up EXCEPT ![sock[subs[k].sock_fd]] = rest]
        /\ served' = served \cup {pfds[j].fd}
        /\ UNCHANGED <<backlog, srvSees>>
        /\ \/ sub_closes_srv_connection(k, j, rest)
           \/ i' = j + 1 /\ UNCHANGED <<sock, pfds>>
  BY Zenon DEF HandleSubMsg
<1> HIDE DEF k
<1> QED BY <1>2, <1>3, <1>4, <1>5

LEMMA ServerLoop ==
  ASSUME IInv, LoopInv, ServerStep
  PROVE  LoopInv'
<1>1. Others
  BY DEF ServerStep, Others
<1> QED BY <1>1, PollLoop, HandleStdinLoop, StopProgramLoop, CloseStoppedLoop,
           HandleUdpLoop, FanoutLoop, HandleListenLoop, ReceiveIdLoop, CloseRefusedLoop,
           HandleSubMsgLoop, DieLoop
        DEF ServerStep, ServerNext, BlockedSendFails

-----------------------------------------------------------------------------
LEMMA InitLoop == Init => LoopInv
<1> SUFFICES ASSUME Init PROVE LoopInv
  OBVIOUS
<1>1. /\ sock = [fd \in Fds |-> NoProc] /\ backlog = <<>> /\ pfds = <<>>
      /\ \A n \in DOMAIN backlog : FALSE
      /\ \A j \in DOMAIN pfds : FALSE
  BY DEF Init, SocketsInit, ServerInit
<1>2. \A q \in Procs : ~InBacklog(q) /\ ~Accepted(q)
  BY <1>1, SocketsAssumption DEF InBacklog, Accepted
<1> QED BY <1>1, <1>2 DEF LoopInv, ConnectionsOnce, EveryReadyServedOnce, AheadReadable

(* LoopInv is inductive relative to IInv.                                   *)
THEOREM LoopInvariance == Spec => []LoopInv
<1>1. Init => LoopInv
  BY InitLoop
<1>2. IInv /\ LoopInv /\ [Next]_vars => LoopInv'
  BY ServerLoop, SubscriberLoop, EnvironmentLoop DEF Next
<1> QED BY <1>1, <1>2, Invariance, PTL DEF Spec

(* A pass of the loop handles every connection that poll() reported exactly *)
(* once, for any number of connections and whatever the handlers before it  *)
(* closed, accepted or found blocked (main, sub_closes_srv_connection).     *)
THEOREM LoopServesOnce == Spec => []EveryReadyServedOnce
<1>1. LoopInv => EveryReadyServedOnce
  BY DEF LoopInv
<1> QED BY <1>1, LoopInvariance, PTL

(* No handler of the loop blocks where poll() said it can read: what was    *)
(* reported is still there when its turn comes (main, handle_stdin_msg,     *)
(* handle_udp_msg, handle_listen_tcp_msg, handle_sub_msg).                  *)
THEOREM LoopNeverBlocksReading == Spec => []NoBlockingRecv
<1>1. IInv /\ LoopInv => NoBlockingRecv
  BY DEF IInv, LoopInv, AheadReadable, NoBlockingRecv
<1> QED BY <1>1, Invariance, LoopInvariance, PTL
=============================================================================
