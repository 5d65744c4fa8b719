------------------------------ MODULE Subscriber ------------------------------
(***************************************************************************)
(* src/subscriber.c: the processes of Procs, each a poll() loop over its    *)
(* stdin (the user's commands) and its connection to the server.  Names     *)
(* that src/server.c uses too have the prefix sub_.                         *)
(*                                                                         *)
(* Invalid lines, lines with too many words or a topic that is too long     *)
(* change nothing and are left out; what is printed is left out too.        *)
(***************************************************************************)
EXTENDS Sockets

CONSTANTS
  MaxCommands,  \* bound: MaxCommands[p], the commands of p other than exit
  Faults        \* which unusual behaviours of the users happen, see below

ASSUME SubscriberAssumption ==
  /\ MaxCommands \in [Procs -> Nat]
  \* "eager": a command is typed before the server has read the id.
  \* "crash": a process ends without CLOSE_SUB_MSG: killed, end of file or a
  \*          command without a topic on its stdin (getline() fails, strlen(NULL)).
  /\ Faults \subseteq {"eager", "crash"}

VARIABLES
  cli,   \* cli[p]: the state of process p, see CliState
  left   \* left[p]: the commands the user of p may still type

cliVars == <<cli, left>>

CliState == {"off",        \* not started
             "connected",  \* between connect() and the send() of the id
             "running",    \* in the loop of main
             "spinning",   \* in the loop, recv() returns 0 at once for ever
             "closing",    \* in stop_program, between send() and close()
             "exited",     \* after exit(0)
             "died"}       \* after DIE or a signal

InLoop(p) == cli[p] \in {"running", "spinning"}

Runs(p) == InLoop(p) \/ cli[p] = "closing"

Ended(p) == cli[p] \in {"exited", "died"}

(* The process ends and its end of the connection is closed; assigns        *)
(* srvSees.                                                                *)
sub_close(p) == srvSees' = [srvSees EXCEPT ![p] = ClosedWith(down[p])]

-----------------------------------------------------------------------------
(* connect_to_server, up to connect(), which fails if the server is down.   *)
Connect(p) ==
  /\ cli[p] = "off"
  /\ IF listening
     THEN /\ cli' = [cli EXCEPT ![p] = "connected"]
          /\ backlog' = Append(backlog, p)
     ELSE /\ cli' = [cli EXCEPT ![p] = "died"]
          /\ UNCHANGED backlog
  /\ UNCHANGED <<listening, sock, up, down, srvSees, cliSees, udp, console, left>>

(* connect_to_server, the send() of the id.                                 *)
SendId(p) ==
  /\ cli[p] = "connected"
  /\ \/ /\ SendUp(p, IdMsg)
        /\ cli' = [cli EXCEPT ![p] = "running"]
        /\ UNCHANGED srvSees
     \/ /\ ~Sendable(cliSees[p])
        /\ cli' = [cli EXCEPT ![p] = "died"]
        /\ sub_close(p)
        /\ UNCHANGED <<up, cliSees>>
  /\ UNCHANGED <<listening, backlog, sock, down, udp, console, left>>

-----------------------------------------------------------------------------
(* Without "eager", the user waits for the server before typing, as         *)
(* src/test.py does with its sleep(1).                                      *)
Patient(p) ==
  "eager" \in Faults \/ (~InBacklog(p) /\ \A n \in DOMAIN up[p] : up[p][n].type # "id")

(* stop_program, the send() of CLOSE_SUB_MSG, which may block.              *)
sub_stop_program(p) ==
  \/ /\ SendUp(p, CloseMsg)
     /\ cli' = [cli EXCEPT ![p] = "closing"]
     /\ UNCHANGED <<srvSees, left>>
  \/ /\ ~Sendable(cliSees[p])
     /\ cli' = [cli EXCEPT ![p] = "died"]
     /\ sub_close(p)
     /\ UNCHANGED <<up, cliSees, left>>

(* stop_program, close() and exit(0), when the send() has returned.         *)
sub_Exit(p) ==
  /\ cli[p] = "closing" /\ ~CliSending(p)
  /\ cli' = [cli EXCEPT ![p] = "exited"]
  /\ sub_close(p)
  /\ UNCHANGED <<listening, backlog, sock, up, down, cliSees, udp, console, left>>

(* update_subscriptions.                                                    *)
update_subscriptions(p, type, topic) ==
  /\ left[p] > 0
  /\ left' = [left EXCEPT ![p] = @ - 1]
  /\ \/ /\ SendUp(p, [type |-> type, topic |-> topic])
        /\ UNCHANGED <<cli, srvSees>>
     \/ /\ ~Sendable(cliSees[p])
        /\ cli' = [cli EXCEPT ![p] = "died"]
        /\ sub_close(p)
        /\ UNCHANGED <<up, cliSees>>

(* handle_stdin_msg.                                                        *)
sub_HandleStdin(p) ==
  /\ InLoop(p) /\ ~CliSending(p)
  /\ Patient(p)
  /\ \/ sub_stop_program(p)
     \/ \E type \in {"subscribe", "unsubscribe"} : \E topic \in Patterns :
          update_subscriptions(p, type, topic)
  /\ UNCHANGED <<listening, backlog, sock, down, udp, console>>

(* handle_server_msg.  When the server is gone without CLOSE_SRV_MSG recv() *)
(* returns 0 again and again, and the process prints stale messages; only   *)
(* the fact is kept.                                                        *)
HandleServerMsg(p) ==
  /\ InLoop(p) /\ ~CliSending(p)
  /\ \/ /\ down[p] # <<>>
        /\ down' = [down EXCEPT ![p] = Tail(@)]
        /\ IF Head(down[p]) = CloseSrvMsg
           THEN /\ cli' = [cli EXCEPT ![p] = "exited"]
                /\ srvSees' = [srvSees EXCEPT ![p] = ClosedWith(Tail(down[p]))]
           ELSE UNCHANGED <<cli, srvSees>>
     \/ /\ down[p] = <<>> /\ cliSees[p] \in {"fin", "finrst"}
        /\ cli[p] = "running"
        /\ cli' = [cli EXCEPT ![p] = "spinning"]
        /\ UNCHANGED <<down, srvSees>>
     \/ /\ down[p] = <<>> /\ cliSees[p] = "rst"
        /\ cli' = [cli EXCEPT ![p] = "died"]
        /\ sub_close(p)
        /\ UNCHANGED down
  /\ UNCHANGED <<listening, backlog, sock, up, cliSees, udp, console, left>>

(* A send() the process was blocked in returns -1.                          *)
sub_BlockedSendFails(p) ==
  /\ Runs(p) /\ CliSendFails(p)
  /\ cli' = [cli EXCEPT ![p] = "died"]
  /\ sub_close(p)
  /\ UNCHANGED <<listening, backlog, sock, up, down, cliSees, udp, console, left>>

(* The process ends without CLOSE_SUB_MSG; a message that did not fit in    *)
(* the buffer is lost.                                                      *)
Crash(p) ==
  /\ "crash" \in Faults
  /\ cli[p] = "connected" \/ Runs(p)
  /\ cli' = [cli EXCEPT ![p] = "died"]
  /\ up' = [up EXCEPT ![p] = SubSeq(@, 1, IF CliSending(p) THEN UpCap ELSE Len(@))]
  /\ sub_close(p)
  /\ UNCHANGED <<listening, backlog, sock, down, cliSees, udp, console, left>>

-----------------------------------------------------------------------------
SubscriberInit ==
  /\ cli = [p \in Procs |-> "off"]
  /\ left = MaxCommands

SubscriberNext(p) ==
  \/ Connect(p)
  \/ SendId(p)
  \/ sub_HandleStdin(p)
  \/ sub_Exit(p)
  \/ HandleServerMsg(p)
  \/ sub_BlockedSendFails(p)
  \/ Crash(p)

SubscriberTypeOK ==
  /\ cli \in [Procs -> CliState]
  /\ left \in [Procs -> Nat]
=============================================================================
