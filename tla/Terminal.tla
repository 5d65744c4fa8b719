-------------------------------- MODULE Terminal --------------------------------
(***************************************************************************)
(* stdin of the server and of a subscriber: what the kernel holds, the      *)
(* buffer of stdio, and the part of main that calls handle_stdin_msg        *)
(* (src/server.c, src/subscriber.c; the two are alike).  poll() sees the    *)
(* kernel's side only, getline() takes from the buffer first, and each      *)
(* poll() is followed by one getline().                                     *)
(*                                                                         *)
(* A line is one or two pieces; a piece is <<n, end>>, the number of its    *)
(* line and whether the newline is in it.                                   *)
(***************************************************************************)
EXTENDS Naturals, Sequences

CONSTANTS
  Kinds,     \* what is at the other end, see below
  BufSize,   \* the pieces the buffer of stdio holds
  MaxLines   \* bound: the lines written

ASSUME TerminalAssumption ==
  /\ BufSize \in Nat \ {0}
  /\ MaxLines \in Nat
  \* "terminal": a read returns one line, whatever else waits.
  \* "patient":  a pipe, whose writer waits until each line is executed
  \*             (src/test.py, by sleeping).
  \* "script":   a pipe, whose writer writes whole lines at any time.
  \* "pieces":   a pipe, whose writer writes pieces of lines at any time.
  /\ Kinds \subseteq {"terminal", "patient", "script", "pieces"}

VARIABLES
  kind,      \* one of Kinds
  closed,    \* nothing more will be written
  input,     \* the pieces in the kernel
  buf,       \* the pieces in the buffer of stdio
  line,      \* what the getline() under way has taken of an unfinished line
  pc,        \* "poll", "getline", "exited" or "died"
  written,   \* history: all pieces written
  executed   \* history: the lines executed

vars == <<kind, closed, input, buf, line, pc, written, executed>>

-----------------------------------------------------------------------------
IsEnd(piece) == piece[2]

HasLine(pieces) == \E k \in DOMAIN pieces : IsEnd(pieces[k])

FirstEnd(pieces) ==
  CHOOSE k \in DOMAIN pieces : IsEnd(pieces[k]) /\ \A h \in 1..(k - 1) : ~IsEnd(pieces[h])

FirstLine(pieces) == SubSeq(pieces, 1, FirstEnd(pieces))

AfterLine(pieces) == SubSeq(pieces, FirstEnd(pieces) + 1, Len(pieces))

LastWritten == written[Len(written)]

NewLine == IF written = <<>> THEN 1
           ELSE IF IsEnd(LastWritten) THEN LastWritten[1] + 1 ELSE LastWritten[1]

(* What a writer writes at once.                                            *)
Writes ==
  IF kind = "pieces"
  THEN {<< <<NewLine, end>> >> : end \in BOOLEAN}
  ELSE {<< <<NewLine, TRUE>> >>, << <<NewLine, FALSE>>, <<NewLine, TRUE>> >>}

Write ==
  /\ ~closed
  /\ NewLine <= MaxLines
  /\ kind = "patient" => pc = "poll" /\ Len(executed) = NewLine - 1
  /\ kind = "pieces" => Len(written) < 2 * MaxLines
  /\ \E w \in Writes : input' = input \o w /\ written' = written \o w
  /\ UNCHANGED <<kind, closed, buf, line, pc, executed>>

Close ==
  /\ ~closed
  /\ closed' = TRUE
  /\ UNCHANGED <<kind, input, buf, line, pc, written, executed>>

-----------------------------------------------------------------------------
(* poll() reports POLLIN.  At the end of a pipe it reports POLLHUP only,    *)
(* which main does not look at: the loop then spins.                        *)
Reported == IF kind = "terminal" THEN HasLine(input) \/ closed ELSE input # <<>>

(* Mutant: getline() is called in every pass.                               *)
PollUntested ==
  /\ pc = "poll"
  /\ pc' = "getline"
  /\ UNCHANGED <<kind, closed, input, buf, line, written, executed>>

(* A poll() of main that leads to handle_stdin_msg.                         *)
Poll ==
  /\ pc = "poll"
  /\ Reported
  /\ pc' = "getline"
  /\ UNCHANGED <<kind, closed, input, buf, line, written, executed>>

(* The rest of handle_stdin_msg: any command, or exit.                      *)
Execute(l) ==
  /\ executed' = Append(executed, l)
  /\ line' = <<>>
  /\ pc' \in {"poll", "exited"}

(* Mutant: fgets() into an array that a long line does not fit in.          *)
FromBufferShort ==
  /\ pc = "getline"
  /\ buf # <<>>
  /\ Execute(<<Head(buf)>>)
  /\ buf' = Tail(buf)
  /\ UNCHANGED <<kind, closed, input, written>>

(* getline() finds the end of its line in the buffer.                       *)
FromBuffer ==
  /\ pc = "getline"
  /\ HasLine(buf)
  /\ Execute(line \o FirstLine(buf))
  /\ buf' = AfterLine(buf)
  /\ UNCHANGED <<kind, closed, input, written>>

(* What a read() returns.                                                   *)
ReadSize ==
  LET most == IF kind = "terminal" /\ HasLine(input) THEN Len(FirstLine(input)) ELSE Len(input)
  IN IF most < BufSize THEN most ELSE BufSize

(* getline() empties the buffer and fills it again.                         *)
Refill ==
  /\ pc = "getline"
  /\ ~HasLine(buf)
  /\ input # <<>>
  /\ line' = line \o buf
  /\ buf' = SubSeq(input, 1, ReadSize)
  /\ input' = SubSeq(input, ReadSize + 1, Len(input))
  /\ UNCHANGED <<kind, closed, pc, written, executed>>

(* The end of the file: an unfinished line is a line, none is a DIE.        *)
EndOfFile ==
  /\ pc = "getline"
  /\ ~HasLine(buf)
  /\ input = <<>> /\ closed
  /\ IF line \o buf # <<>>
     THEN Execute(line \o buf) /\ buf' = <<>>
     ELSE pc' = "died" /\ UNCHANGED <<line, buf, executed>>
  /\ UNCHANGED <<kind, closed, input, written>>

Init ==
  /\ kind \in Kinds
  /\ closed = FALSE
  /\ input = <<>>
  /\ buf = <<>>
  /\ line = <<>>
  /\ pc = "poll"
  /\ written = <<>>
  /\ executed = <<>>

Next == Write \/ Close \/ Poll \/ FromBuffer \/ Refill \/ EndOfFile

Spec == Init /\ [][Next]_vars

(* The process runs; the writer owes nothing.                               *)
FairSpec == Spec /\ WF_vars(Poll \/ FromBuffer \/ Refill \/ EndOfFile)

-----------------------------------------------------------------------------
Pieces == Seq(Nat \X BOOLEAN)

(* The variables have their types.                                          *)
TypeOK ==
  /\ kind \in Kinds
  /\ closed \in BOOLEAN
  /\ input \in Pieces /\ buf \in Pieces /\ line \in Pieces /\ written \in Pieces
  /\ executed \in Seq(Pieces)
  /\ pc \in {"poll", "getline", "exited", "died"}

(* Line n, when it has been written to its end.                             *)
Whole(n) == \E k \in DOMAIN written : written[k] = <<n, TRUE>>

Line(n) == SelectSeq(written, LAMBDA piece : piece[1] = n)

(* handle_stdin_msg waits for input only inside a line whose rest has not   *)
(* been written: a poll() that reports input, of whole lines, never leads   *)
(* the only thread of the server into a read() with nothing to read, also   *)
(* when the buffer cut a line in two or still holds lines of an earlier     *)
(* read (getline() at server.c line 167 and subscriber.c line 122).         *)
NoBlockingRead ==
  pc = "getline" /\ input = <<>> /\ ~HasLine(buf) /\ ~closed =>
    LET taken == line \o buf IN
    kind = "pieces" /\ taken # <<>> /\ ~IsEnd(LastWritten)

(* What NoBlockingRead needs to be inductive: a line is left unfinished only *)
(* where its newline has not been read; the last piece that has not been     *)
(* executed is the last written; and a pass calls getline() only for         *)
(* something that is there, or for the end of a terminal.                    *)
EndsAsWritten(pieces) == written # <<>> /\ pieces[Len(pieces)] = LastWritten

ReadInv ==
  /\ TypeOK
  /\ ~HasLine(line)
  /\ input # <<>> => EndsAsWritten(input)
  /\ input = <<>> /\ buf # <<>> => EndsAsWritten(buf)
  /\ input = <<>> /\ buf = <<>> /\ line # <<>> => EndsAsWritten(line)
  /\ kind # "pieces" /\ written # <<>> => IsEnd(LastWritten)
  /\ pc = "getline" => \/ input # <<>> \/ buf # <<>> \/ line # <<>>
                       \/ kind = "terminal" /\ closed

(* At a terminal, and from a writer who waits, every line is executed in    *)
(* the end, whole and in its turn, unless an exit comes before.  Behind a   *)
(* pipe it is not: a line that comes with an earlier one stays in the       *)
(* buffer, which poll() does not see (handle_stdin_msg).                    *)
LinesOfPatientUsers ==
  kind \in {"terminal", "patient"} =>
    \A n \in 1..MaxLines :
      Whole(n) ~> \/ n \in DOMAIN executed /\ executed[n] = Line(n)
                  \/ pc = "exited"
=============================================================================
