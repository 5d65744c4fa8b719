----------------------------- MODULE Terminal_proofs -----------------------------
(***************************************************************************)
(* Proofs about Terminal: getline() does not wait for whole lines.          *)
(***************************************************************************)
EXTENDS Terminal, Iteration_proofs, SequenceTheorems

-----------------------------------------------------------------------------
(* Sequences of pieces.                                                     *)

LEMMA FirstEndFacts ==
  ASSUME NEW s \in Pieces, HasLine(s)
  PROVE  FirstEnd(s) \in 1..Len(s) /\ Len(s) \in Nat
<1> DEFINE S == {k \in 1..Len(s) : IsEnd(s[k])}
<1>1. Len(s) \in Nat /\ DOMAIN s = 1..Len(s)
  BY LenProperties DEF Pieces
<1>2. PICK k \in S : \A h \in S : k <= h
  <2>1. S \in SUBSET Nat /\ S # {}
    BY <1>1 DEF HasLine
  <2> HIDE DEF S
  <2> QED BY <2>1, LeastNumber
<1>3. k \in DOMAIN s /\ IsEnd(s[k]) /\ \A h \in 1..(k - 1) : ~IsEnd(s[h])
  BY <1>1, <1>2
<1>4. FirstEnd(s) \in DOMAIN s
  BY <1>3 DEF FirstEnd
<1> QED BY <1>1, <1>4

(* A piece at the end of a sequence stays there if the front is taken away. *)
LEMMA BackOfSeq ==
  ASSUME NEW s \in Pieces, NEW k \in 0..Len(s), NEW rest, rest = SubSeq(s, k + 1, Len(s))
  PROVE  /\ rest \in Pieces /\ Len(rest) = Len(s) - k
         /\ rest # <<>> <=> k # Len(s)
         /\ rest # <<>> => rest[Len(rest)] = s[Len(s)]
<1>1. Len(s) \in Nat /\ \A n \in 1..Len(s) : s[n] \in Nat \X BOOLEAN
  BY LenProperties, ElementOfSeq DEF Pieces
<1>2. /\ rest \in Pieces /\ Len(rest) = Len(s) - k
      /\ \A n \in 1..(Len(s) - k) : rest[n] = s[n + k]
  BY <1>1, SubSeqProperties DEF Pieces
<1>3. rest # <<>> <=> Len(rest) # 0
  BY <1>2, EmptySeq DEF Pieces
<1>4. Len(rest) # 0 => rest[Len(rest)] = s[Len(s)]
  <2> SUFFICES ASSUME Len(rest) # 0 PROVE rest[Len(rest)] = s[Len(s)]
    OBVIOUS
  <2>1. Len(s) - k \in 1..(Len(s) - k) /\ (Len(s) - k) + k = Len(s)
    BY <1>1, <1>2
  <2> QED BY <1>2, <2>1
<1>5. Len(rest) = Len(s) - k /\ (Len(rest) # 0 <=> k # Len(s))
  BY <1>1, <1>2
<1> QED BY <1>2, <1>3, <1>4, <1>5

LEMMA FrontOfSeq ==
  ASSUME NEW s \in Pieces, NEW k \in 0..Len(s), NEW front, front = SubSeq(s, 1, k)
  PROVE  /\ front \in Pieces /\ Len(front) = k
         /\ \A n \in 1..k : front[n] = s[n]
BY LenProperties, SubSeqProperties, ElementOfSeq DEF Pieces

LEMMA JoinedSeqs ==
  ASSUME NEW s \in Pieces, NEW t \in Pieces, NEW join, join = s \o t
  PROVE  /\ join \in Pieces
         /\ ~HasLine(s) /\ ~HasLine(t) => ~HasLine(join)
         /\ t # <<>> => join # <<>> /\ join[Len(join)] = t[Len(t)]
         /\ t = <<>> => join = s
<1>1. /\ Len(s) \in Nat /\ DOMAIN s = 1..Len(s)
      /\ Len(t) \in Nat /\ DOMAIN t = 1..Len(t)
      /\ join \in Pieces /\ Len(join) = Len(s) + Len(t) /\ DOMAIN join = 1..(Len(s) + Len(t))
      /\ \A n \in 1..(Len(s) + Len(t)) : join[n] = IF n <= Len(s) THEN s[n] ELSE t[n - Len(s)]
  BY LenProperties, ConcatProperties DEF Pieces
<1>2. ASSUME ~HasLine(s), ~HasLine(t), NEW n \in 1..(Len(s) + Len(t))
      PROVE  ~IsEnd(join[n])
  <2>1. CASE n <= Len(s)
    BY <1>1, <1>2, <2>1 DEF HasLine
  <2>2. CASE n > Len(s)
    <3>1. n - Len(s) \in 1..Len(t) /\ join[n] = t[n - Len(s)]
      BY <1>1, <2>2
    <3> QED BY <1>1, <1>2, <3>1 DEF HasLine
  <2> QED BY <1>1, <2>1, <2>2
<1>3. ASSUME t # <<>>
      PROVE  join # <<>> /\ join[Len(join)] = t[Len(t)]
  <2>1. Len(t) > 0
    BY <1>1, <1>3, EmptySeq DEF Pieces
  <2> QED BY <1>1, <2>1, EmptySeq
<1>4. t = <<>> => join = s
  BY ConcatEmptySeq DEF Pieces
<1> QED BY <1>1, <1>2, <1>3, <1>4 DEF HasLine

-----------------------------------------------------------------------------
(* A writer's pieces come last.                                             *)
LEMMA WriteKeeps ==
  ASSUME ReadInv, Write
  PROVE  ReadInv'
<1>1. PICK w \in Writes : input' = input \o w /\ written' = written \o w
  BY DEF Write
<1>2. /\ UNCHANGED <<kind, closed, buf, line, pc, executed>>
      /\ input \in Pieces /\ written \in Pieces
  BY DEF Write, ReadInv, TypeOK
<1>3. NewLine \in Nat
  <2>1. written # <<>> => LastWritten \in Nat \X BOOLEAN
    BY <1>2, EmptySeq, ElementOfSeq DEF LastWritten, Pieces
  <2> QED BY <2>1 DEF NewLine
<1>4. w \in Pieces /\ w # <<>> /\ (kind # "pieces" => IsEnd(w[Len(w)]))
  <2> PICK n \in Nat : n = NewLine
    BY <1>3
  <2>1. CASE kind = "pieces"
    <3>1. PICK end \in BOOLEAN : w = << <<n, end>> >>
      BY <2>1 DEF Writes
    <3>2. <<n, end>> \in Nat \X BOOLEAN
      OBVIOUS
    <3> QED BY <2>1, <3>1, <3>2 DEF Pieces
  <2>2. CASE kind # "pieces"
    <3>1. w = << <<n, TRUE>> >> \/ w = << <<n, FALSE>>, <<n, TRUE>> >>
      BY <2>2 DEF Writes
    <3>2. <<n, TRUE>> \in Nat \X BOOLEAN /\ <<n, FALSE>> \in Nat \X BOOLEAN
          /\ <<n, TRUE>>[2]
      OBVIOUS
    <3> DEFINE e == <<n, TRUE>>
               f == <<n, FALSE>>
    <3> HIDE DEF e, f
    <3>3. w = <<e>> \/ w = <<f, e>>
      BY <3>1 DEF e, f
    <3>4. e \in Nat \X BOOLEAN /\ f \in Nat \X BOOLEAN /\ e[2]
      BY <3>2 DEF e, f
    <3>5. CASE w = <<e>>
      <4>1. Len(w) = 1 /\ w[1] = e /\ w # <<>>
        BY <3>5
      <4> QED BY <3>4, <3>5, <4>1 DEF Pieces, IsEnd
    <3>6. CASE w = <<f, e>>
      <4>1. Len(w) = 2 /\ w[2] = e /\ w # <<>>
        BY <3>6
      <4> QED BY <3>4, <3>6, <4>1 DEF Pieces, IsEnd
    <3> QED BY <3>3, <3>5, <3>6
  <2> QED BY <2>1, <2>2
<1>5. /\ input' \in Pieces /\ input' # <<>> /\ input'[Len(input')] = w[Len(w)]
      /\ written' \in Pieces /\ written' # <<>> /\ written'[Len(written')] = w[Len(w)]
  BY <1>1, <1>2, <1>4, JoinedSeqs
<1>6. TypeOK'
  BY <1>2, <1>5 DEF ReadInv, TypeOK
<1> QED BY <1>2, <1>4, <1>5, <1>6 DEF ReadInv, EndsAsWritten, LastWritten, HasLine

LEMMA QuietKeeps ==
  ASSUME ReadInv, Close \/ Poll \/ UNCHANGED vars
  PROVE  ReadInv'
<1>1. CASE Close \/ UNCHANGED vars
  BY <1>1 DEF Close, vars, ReadInv, TypeOK, EndsAsWritten, LastWritten, HasLine
<1>2. CASE Poll
  <2>1. input # <<>> \/ (kind = "terminal" /\ closed)
    <3>1. HasLine(input) => input # <<>>
      BY DEF HasLine
    <3> QED BY <1>2, <3>1 DEF Poll, Reported
  <2>2. UNCHANGED <<kind, closed, input, buf, line, written, executed>> /\ pc' = "getline"
    BY <1>2 DEF Poll
  <2> QED BY <2>1, <2>2 DEF ReadInv, TypeOK, EndsAsWritten, LastWritten, HasLine
<1> QED BY <1>1, <1>2

LEMMA FromBufferKeeps ==
  ASSUME ReadInv, FromBuffer
  PROVE  ReadInv'
<1>1. /\ UNCHANGED <<kind, closed, input, written>>
      /\ HasLine(buf) /\ buf \in Pieces /\ line \in Pieces
      /\ buf' = AfterLine(buf) /\ Execute(line \o FirstLine(buf))
  BY DEF FromBuffer, ReadInv, TypeOK
<1>2. FirstEnd(buf) \in 1..Len(buf) /\ Len(buf) \in Nat
  BY <1>1, FirstEndFacts
<1>3. FirstLine(buf) \in Pieces
  <2>1. FirstEnd(buf) \in 0..Len(buf)
    BY <1>2
  <2> QED BY <1>1, <2>1, FrontOfSeq DEF FirstLine
<1>4. buf' \in Pieces /\ (buf' # <<>> => buf'[Len(buf')] = buf[Len(buf)])
  <2>1. FirstEnd(buf) \in 0..Len(buf)
    BY <1>2
  <2>2. buf' = SubSeq(buf, FirstEnd(buf) + 1, Len(buf))
    BY <1>1 DEF AfterLine
  <2> QED BY <1>1, <2>1, <2>2, BackOfSeq, Zenon
<1>5. /\ executed' = Append(executed, line \o FirstLine(buf))
      /\ line' = <<>> /\ pc' \in {"poll", "exited"}
  BY <1>1 DEF Execute
<1>6. TypeOK'
  <2>1. line \o FirstLine(buf) \in Pieces
    BY <1>1, <1>3, JoinedSeqs
  <2>2. executed' \in Seq(Pieces) /\ line' \in Pieces
    BY <1>5, <2>1, AppendProperties, EmptySeq DEF ReadInv, TypeOK, Pieces
  <2> QED BY <1>1, <1>4, <1>5, <2>2 DEF ReadInv, TypeOK
<1>7. buf # <<>>
  BY <1>1 DEF HasLine
<1>8. ~HasLine(line)'
  BY <1>5 DEF HasLine
<1> QED BY <1>1, <1>4, <1>5, <1>6, <1>7, <1>8 DEF ReadInv, EndsAsWritten, LastWritten

LEMMA RefillKeeps ==
  ASSUME ReadInv, Refill
  PROVE  ReadInv'
<1>1. /\ UNCHANGED <<kind, closed, pc, written, executed>>
      /\ ~HasLine(buf) /\ ~HasLine(line)
      /\ input \in Pieces /\ input # <<>> /\ buf \in Pieces /\ line \in Pieces
      /\ line' = line \o buf
      /\ buf' = SubSeq(input, 1, ReadSize)
      /\ input' = SubSeq(input, ReadSize + 1, Len(input))
  BY DEF Refill, ReadInv, TypeOK
<1>2. Len(input) \in Nat \ {0}
  BY <1>1, EmptySeq DEF Pieces
<1>3. ReadSize \in 1..Len(input)
  <2>1. HasLine(input) => Len(FirstLine(input)) \in 1..Len(input)
    BY <1>1, FirstEndFacts, FrontOfSeq DEF FirstLine
  <2> QED BY <1>2, <2>1, TerminalAssumption DEF ReadSize
<1>4. line' \in Pieces /\ ~HasLine(line')
  BY <1>1, JoinedSeqs
<1>5. /\ buf' \in Pieces /\ Len(buf') = ReadSize /\ buf' # <<>>
      /\ \A n \in 1..ReadSize : buf'[n] = input[n]
  <2>1. /\ buf' \in Pieces /\ Len(buf') = ReadSize
        /\ \A n \in 1..ReadSize : buf'[n] = input[n]
    <3>1. ReadSize \in 0..Len(input)
      BY <1>2, <1>3
    <3> QED BY <1>1, <3>1, FrontOfSeq
  <2> QED BY <1>3, <2>1, EmptySeq
<1>6. /\ input' \in Pieces
      /\ input' = <<>> => ReadSize = Len(input)
      /\ input' # <<>> => input'[Len(input')] = input[Len(input)]
  <2>1. ReadSize \in 0..Len(input)
    BY <1>2, <1>3
  <2>2. input' = SubSeq(input, ReadSize + 1, Len(input)) /\ input \in Pieces
    BY <1>1
  <2>3. /\ input' \in Pieces
        /\ input' # <<>> <=> ReadSize # Len(input)
        /\ input' # <<>> => input'[Len(input')] = input[Len(input)]
    BY <2>1, <2>2, BackOfSeq, Zenon
  <2> QED BY <2>3
<1>7. TypeOK'
  BY <1>1, <1>4, <1>5, <1>6 DEF ReadInv, TypeOK
<1>8. input' = <<>> => buf'[Len(buf')] = input[Len(input)]
  BY <1>2, <1>5, <1>6
<1>9. ~HasLine(line)'
  BY <1>4 DEF HasLine
<1> QED BY <1>1, <1>5, <1>6, <1>7, <1>8, <1>9 DEF ReadInv, EndsAsWritten, LastWritten

LEMMA EndOfFileKeeps ==
  ASSUME ReadInv, EndOfFile
  PROVE  ReadInv'
<1>1. /\ UNCHANGED <<kind, closed, input, written>>
      /\ input = <<>> /\ buf \in Pieces /\ line \in Pieces
  BY DEF EndOfFile, ReadInv, TypeOK
<1>2. CASE Execute(line \o buf) /\ buf' = <<>>
  <2>1. /\ executed' = Append(executed, line \o buf)
        /\ line' = <<>> /\ pc' \in {"poll", "exited"}
    BY <1>2 DEF Execute
  <2>2. line \o buf \in Pieces /\ <<>> \in Pieces
    BY <1>1, JoinedSeqs, EmptySeq DEF Pieces
  <2>3. executed' \in Seq(Pieces)
    BY <2>1, <2>2, AppendProperties DEF ReadInv, TypeOK
  <2>4. TypeOK'
    BY <1>1, <1>2, <2>1, <2>2, <2>3 DEF ReadInv, TypeOK
  <2>5. ~HasLine(line)'
    BY <2>1 DEF HasLine
  <2> QED BY <1>1, <1>2, <2>1, <2>4, <2>5 DEF ReadInv, EndsAsWritten, LastWritten
<1>3. CASE pc' = "died" /\ UNCHANGED <<line, buf, executed>>
  BY <1>1, <1>3 DEF ReadInv, TypeOK, EndsAsWritten, LastWritten, HasLine
<1> QED BY <1>2, <1>3 DEF EndOfFile

LEMMA InitRead == Init => ReadInv
<1> SUFFICES ASSUME Init PROVE ReadInv
  OBVIOUS
<1>1. TypeOK
  BY EmptySeq DEF Init, TypeOK, Pieces
<1>2. ~HasLine(line)
  BY DEF Init, HasLine
<1> QED BY <1>1, <1>2 DEF Init, ReadInv

-----------------------------------------------------------------------------
THEOREM ReadInvariance == Spec => []ReadInv
<1>1. Init => ReadInv
  BY InitRead
<1>2. ReadInv /\ [Next]_vars => ReadInv'
  BY WriteKeeps, QuietKeeps, FromBufferKeeps, RefillKeeps, EndOfFileKeeps DEF Next
<1> QED BY <1>1, <1>2, PTL DEF Spec

(* For any number and length of lines and any size of the buffer of stdio,  *)
(* handle_stdin_msg waits inside getline() only for the rest of a line that *)
(* has not been written yet (getline() at server.c line 167 and             *)
(* subscriber.c line 122).                                                  *)
THEOREM GetlineReturns == Spec => []NoBlockingRead
<1>1. ReadInv => NoBlockingRead
  <2> SUFFICES ASSUME ReadInv, pc = "getline", input = <<>>, ~HasLine(buf), ~closed
               PROVE  kind = "pieces" /\ line \o buf # <<>> /\ ~IsEnd(LastWritten)
    BY DEF NoBlockingRead
  <2> PICK taken : taken = line \o buf
    OBVIOUS
  <2>1. line \in Pieces /\ buf \in Pieces /\ ~HasLine(line) /\ (line # <<>> \/ buf # <<>>)
    BY DEF ReadInv, TypeOK
  <2>2. taken \in Pieces /\ ~HasLine(taken) /\ taken # <<>> /\ EndsAsWritten(taken)
    BY <2>1, JoinedSeqs DEF ReadInv, EndsAsWritten
  <2>3. Len(taken) \in DOMAIN taken
    BY <2>2, LenProperties, EmptySeq DEF Pieces
  <2>4. ~IsEnd(LastWritten)
    BY <2>2, <2>3 DEF HasLine, EndsAsWritten
  <2> QED BY <2>2, <2>4 DEF ReadInv, EndsAsWritten
<1> QED BY <1>1, ReadInvariance, PTL
=============================================================================
