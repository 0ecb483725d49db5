-------------------------- MODULE GanakCall_proofs --------------------------
(***************************************************************************)
(* Theorems about GanakCall, for whatever Ganak prints, every capacity of  *)
(* the pipe, every size of the reads, and with or without failures.        *)
(***************************************************************************)
EXTENDS GanakCall, SequenceTheorems, TLAPS

Pieces == {"other", "head", "tail"}

(***************************************************************************)
(* The inductive invariant.                                                *)
(***************************************************************************)

\* TypeOK without the bound on the pipe.
CallTypes ==
  /\ pc \in {"mkstemp", "write", "pipe", "fork", "close", "read", "wait",
             "parse"} \cup Ended
  /\ child \in {"none", "forked", "running", "dead"} /\ reaped \in BOOLEAN
  /\ file \in {"none", "present", "removed"} /\ whole \in BOOLEAN
  /\ writers \subseteq {"parent", "child"}
  /\ pipe \in Seq(Pieces) /\ left \in Seq(Pieces) /\ ganakOutput \in Seq(Pieces)
  /\ killed \in BOOLEAN
  /\ answer \in {"none", "one", "count", "wrong"}

\* The child lives from fork() to its end, holds the pipe as long, and is
\* reaped, if ever, after that.
ChildInv ==
  /\ pc \in {"mkstemp", "write", "pipe", "fork"} => child = "none"
  /\ pc \in {"close", "read", "wait", "parse"} => child # "none"
  /\ "child" \in writers <=> child \in {"forked", "running"}
  /\ reaped => child = "dead"
  /\ pc = "parse" => reaped
  /\ pc \in Ended /\ child # "none" => reaped

\* The end of the output is not taken for reached before it is.
EndInv ==
  /\ pc \in {"read", "wait", "parse"} => "parent" \notin writers
  /\ pc \in {"wait", "parse"} => pipe = <<>> /\ child = "dead"

\* The file is there from its creation until an answer is found, and no answer
\* is given before.
ResultInv ==
  /\ pc = "mkstemp" => file = "none"
  /\ file = "none" => pc \in {"mkstemp", "exit_failure"}
  /\ pc \in {"mkstemp", "write"} => ~whole
  /\ pc \notin Ended => answer = "none"
  /\ file = "removed" => pc = "returned"

\* Nothing of what Ganak prints is lost, doubled or exchanged on its way.
Conveyed == (ganakOutput \o pipe) \o left

StreamInv ==
  /\ child \in {"none", "forked"} =>
       ganakOutput = <<>> /\ pipe = <<>> /\ left = <<>> /\ ~killed
  /\ child = "running" => ~killed /\ Conveyed \in Scripts
  /\ child = "dead" => /\ Conveyed = <<>> \/ Conveyed \in Scripts
                       /\ ~killed => left = <<>>

CallInv == CallTypes /\ ChildInv /\ EndInv /\ ResultInv /\ StreamInv

(***************************************************************************)
(* Sequences of pieces.                                                    *)
(***************************************************************************)

\* Concatenation of pieces is associative.
LEMMA PiecesAssociative ==
  ASSUME NEW s \in Seq(Pieces), NEW t \in Seq(Pieces), NEW u \in Seq(Pieces)
  PROVE  (s \o t) \o u = s \o (t \o u)
  BY ConcatAssociative

\* A read takes the front of the pipe to the end of what has been read.
LEMMA ReadConveys ==
  ASSUME NEW g \in Seq(Pieces), NEW q \in Seq(Pieces), NEW n \in 1 .. Len(q)
  PROVE  LET h == g \o SubSeq(q, 1, n)
             r == SubSeq(q, n + 1, Len(q))
         IN  h \in Seq(Pieces) /\ r \in Seq(Pieces) /\ Len(r) < Len(q) /\ h \o r = g \o q
<1> DEFINE front == SubSeq(q, 1, n)
           r == SubSeq(q, n + 1, Len(q))
<1>1. Len(q) \in Nat /\ n \in Int /\ n >= 1 /\ n <= Len(q)
  BY LenProperties
<1>2. front \in Seq(Pieces)
  <2>1. \A k \in 1 .. n : q[k] \in Pieces
    BY <1>1, ElementOfSeq
  <2> QED
    BY <1>1, <2>1, SubSeqProperties
<1>3. r \in Seq(Pieces) /\ Len(r) < Len(q)
  <2>1. \A k \in n + 1 .. Len(q) : q[k] \in Pieces
    BY <1>1, ElementOfSeq
  <2> QED
    BY <1>1, <2>1, SubSeqProperties
<1>4. front \o r = q
  <2>1. front \o r = SubSeq(q, 1, Len(q))
    BY <1>1, ConcatAdjacentSubSeq
  <2> QED
    BY <2>1, SubSeqFull
<1> HIDE DEF front, r
<1>5. (g \o front) \o r = g \o q
  <2>1. (g \o front) \o r = g \o (front \o r)
    BY <1>2, <1>3, PiecesAssociative
  <2> QED
    BY <1>4, <2>1
<1>6. g \o front \in Seq(Pieces)
  BY <1>2, ConcatProperties
<1> QED
  BY <1>3, <1>5, <1>6 DEF front, r

\* Printing takes the first piece that is left to the end of the pipe.
LEMMA PrintConveys ==
  ASSUME NEW q \in Seq(Pieces), NEW l \in Seq(Pieces), l # <<>>
  PROVE  /\ Append(q, Head(l)) \in Seq(Pieces) /\ Len(Append(q, Head(l))) = Len(q) + 1
         /\ Tail(l) \in Seq(Pieces)
         /\ Append(q, Head(l)) \o Tail(l) = q \o l
<1>1. Head(l) \in Pieces /\ Tail(l) \in Seq(Pieces)
  BY HeadTailProperties
<1>2. <<Head(l)>> \in Seq(Pieces)
  BY <1>1
<1>3. Append(q, Head(l)) = q \o <<Head(l)>>
  BY <1>1, AppendIsConcat
<1>4. <<Head(l)>> \o Tail(l) = l
  BY <1>1
<1>5. (q \o <<Head(l)>>) \o Tail(l) = q \o (<<Head(l)>> \o Tail(l))
  BY <1>1, <1>2, PiecesAssociative
<1> QED
  BY <1>1, <1>3, <1>4, <1>5, AppendProperties

\* Nothing is conveyed by empty channels.
LEMMA ConveyedEmpty ==
  /\ (<<>> \o <<>>) \o <<>> = <<>>
  /\ \A l \in Seq(Pieces) : (<<>> \o <<>>) \o l = l
  /\ \A g \in Seq(Pieces) : (g \o <<>>) \o <<>> = g
  BY ConcatEmptySeq, EmptySeq

(***************************************************************************)
(* The steps of the parent.                                                *)
(***************************************************************************)

\* The steps up to fork(): no child, nothing in the channel.
LEMMA SetUpStep ==
  ASSUME CallInv, MakeFile \/ WriteFormula \/ MakePipe
  PROVE  CallInv'
<1>1. CASE MakeFile
  BY <1>1 DEF MakeFile, CallInv, CallTypes, ChildInv, EndInv, ResultInv, StreamInv,
              Conveyed, Ended, process, channel
<1>2. CASE WriteFormula
  BY <1>2 DEF WriteFormula, CallInv, CallTypes, ChildInv, EndInv, ResultInv, StreamInv,
              Conveyed, Ended, process, channel
<1>3. CASE MakePipe
  BY <1>3 DEF MakePipe, CallInv, CallTypes, ChildInv, EndInv, ResultInv, StreamInv,
              Conveyed, Ended, process, disk
<1> QED
  BY <1>1, <1>2, <1>3

\* From fork() to the closing of the write end.
LEMMA ForkStep ==
  ASSUME CallInv, Fork \/ CloseWriteEnd
  PROVE  CallInv'
<1>1. CASE Fork
  BY <1>1 DEF Fork, CallInv, CallTypes, ChildInv, EndInv, ResultInv, StreamInv,
              Conveyed, Ended, disk
<1>2. CASE CloseWriteEnd
  BY <1>2 DEF CloseWriteEnd, CallInv, CallTypes, ChildInv, EndInv, ResultInv, StreamInv,
              Conveyed, Ended, process, disk
<1> QED
  BY <1>1, <1>2

\* A read leaves everything as it is but where the pieces are.
LEMMA ReadStep ==
  ASSUME CallInv, Read
  PROVE  CallInv'
<1>1. PICK n \in 1 .. ReadSize :
        /\ n <= Len(pipe)
        /\ ganakOutput' = ganakOutput \o SubSeq(pipe, 1, n)
        /\ pipe' = SubSeq(pipe, n + 1, Len(pipe))
  BY DEF Read
<1>2. pipe \in Seq(Pieces) /\ ganakOutput \in Seq(Pieces)
  BY DEF CallInv, CallTypes
<1>3. n \in 1 .. Len(pipe)
  BY <1>1, <1>2, LenProperties, CallAssumption DEF CallAssumption
<1>4. /\ ganakOutput' \in Seq(Pieces) /\ pipe' \in Seq(Pieces)
      /\ ganakOutput' \o pipe' = ganakOutput \o pipe
  BY <1>1, <1>2, <1>3, ReadConveys
<1>5. Conveyed' = Conveyed
  BY <1>4 DEF Read, Conveyed
<1>6. /\ pc = "read" /\ pipe # <<>>
      /\ UNCHANGED <<pc, child, reaped, file, whole, writers, left, killed, answer>>
  BY DEF Read, process, disk
<1>7. child \notin {"none", "forked"}
  BY <1>6, <1>2, EmptySeq DEF CallInv, ChildInv, StreamInv
<1>8. CallTypes'
  BY <1>4, <1>6 DEF CallInv, CallTypes, Ended
<1>9. ChildInv' /\ EndInv' /\ ResultInv'
  BY <1>6 DEF CallInv, ChildInv, EndInv, ResultInv, Ended
<1>10. StreamInv'
  BY <1>5, <1>6, <1>7 DEF CallInv, StreamInv
<1> QED
  BY <1>8, <1>9, <1>10 DEF CallInv

\* The end of the output, waitpid() and the parsing.
LEMMA FinishStep ==
  ASSUME CallInv, EndOfFile \/ Wait \/ Parse
  PROVE  CallInv'
<1>1. CASE EndOfFile
  BY <1>1 DEF EndOfFile, CallInv, CallTypes, ChildInv, EndInv, ResultInv, StreamInv,
              Conveyed, Ended, process, disk, channel
<1>2. CASE Wait
  BY <1>2 DEF Wait, CallInv, CallTypes, ChildInv, EndInv, ResultInv, StreamInv,
              Conveyed, Ended, process, disk, channel
<1>3. CASE Parse
  BY <1>3 DEF Parse, CountRead, CallInv, CallTypes, ChildInv, EndInv, ResultInv, StreamInv,
              Conveyed, Ended, process, channel
<1> QED
  BY <1>1, <1>2, <1>3

(***************************************************************************)
(* The steps of the child.                                                 *)
(***************************************************************************)

\* The child turns into Ganak, or ends at once.
LEMMA ExecStep ==
  ASSUME CallInv, Exec
  PROVE  CallInv'
<1>1. /\ child = "forked" /\ ganakOutput = <<>> /\ pipe = <<>> /\ left = <<>> /\ ~killed
      /\ UNCHANGED <<pc, reaped, file, whole, pipe, killed, ganakOutput, answer>>
  BY DEF Exec, CallInv, StreamInv, disk
<1>2. CASE child' = "running" /\ left' \in Scripts /\ UNCHANGED writers
  <2>1. left' \in Seq(Pieces)
    BY <1>2, CallAssumption DEF CallAssumption, Pieces
  <2>2. Conveyed' = left'
    BY <1>1, <2>1, ConveyedEmpty DEF Conveyed
  <2> QED
    BY <1>1, <1>2, <2>1, <2>2
    DEF CallInv, CallTypes, ChildInv, EndInv, ResultInv, StreamInv, Ended
<1>3. CASE child' = "dead" /\ writers' = writers \ {"child"} /\ UNCHANGED left
  <2>1. Conveyed' = <<>>
    BY <1>1, <1>3, ConveyedEmpty DEF Conveyed
  <2> QED
    BY <1>1, <1>3, <2>1
    DEF CallInv, CallTypes, ChildInv, EndInv, ResultInv, StreamInv, Ended
<1> QED
  BY <1>2, <1>3 DEF Exec

\* Ganak prints a piece, while the pipe has room.
LEMMA PrintStep ==
  ASSUME CallInv, GanakPrints
  PROVE  CallInv'
<1>1. /\ child = "running" /\ left # <<>>
      /\ pipe' = Append(pipe, Head(left)) /\ left' = Tail(left)
      /\ UNCHANGED <<pc, child, reaped, file, whole, writers, killed, ganakOutput, answer>>
  BY DEF GanakPrints, process, disk
<1>2. pipe \in Seq(Pieces) /\ left \in Seq(Pieces) /\ ganakOutput \in Seq(Pieces)
  BY DEF CallInv, CallTypes
<1>3. /\ pipe' \in Seq(Pieces) /\ left' \in Seq(Pieces)
      /\ pipe' \o left' = pipe \o left
  BY <1>1, <1>2, PrintConveys
<1>4. Conveyed' = Conveyed
  <2>1. Conveyed = ganakOutput \o (pipe \o left)
    BY <1>2, PiecesAssociative DEF Conveyed
  <2>2. Conveyed' = ganakOutput \o (pipe' \o left')
    <3>1. Conveyed' = (ganakOutput \o pipe') \o left'
      BY <1>1 DEF Conveyed
    <3> QED
      BY <1>2, <1>3, <3>1, PiecesAssociative
  <2> QED
    BY <1>3, <2>1, <2>2
<1>5. CallTypes'
  BY <1>1, <1>3 DEF CallInv, CallTypes, Ended
<1>6. ChildInv' /\ EndInv' /\ ResultInv'
  BY <1>1 DEF CallInv, ChildInv, EndInv, ResultInv, Ended
<1>7. StreamInv'
  BY <1>1, <1>4 DEF CallInv, StreamInv
<1> QED
  BY <1>5, <1>6, <1>7 DEF CallInv

\* Ganak ends, before it has printed everything if it is killed.
LEMMA EndStep ==
  ASSUME CallInv, GanakEnds
  PROVE  CallInv'
<1>1. /\ child = "running" /\ killed' = (left # <<>>) /\ child' = "dead"
      /\ writers' = writers \ {"child"}
      /\ UNCHANGED <<pc, reaped, file, whole, pipe, left, ganakOutput, answer>>
  BY DEF GanakEnds, disk
<1>2. Conveyed' = Conveyed
  BY <1>1 DEF Conveyed
<1>3. killed' \in BOOLEAN /\ (~killed' => left = <<>>)
  BY <1>1
<1>4. CallTypes'
  BY <1>1, <1>3 DEF CallInv, CallTypes, Ended
<1>5. ChildInv' /\ EndInv' /\ ResultInv'
  BY <1>1 DEF CallInv, ChildInv, EndInv, ResultInv, Ended
<1>6. StreamInv'
  BY <1>1, <1>2, <1>3 DEF CallInv, StreamInv
<1> QED
  BY <1>4, <1>5, <1>6 DEF CallInv

\* The child, the file and the stream of pieces, in every reachable state.
THEOREM CallCorrect == Spec => []CallInv
<1>1. Init => CallInv
  BY EmptySeq DEF Init, CallInv, CallTypes, ChildInv, EndInv, ResultInv, StreamInv, Ended
<1>2. CallInv /\ [Next]_callVars => CallInv'
  <2> SUFFICES ASSUME CallInv, [Next]_callVars PROVE CallInv'
    OBVIOUS
  <2>1. CASE Parent
    BY <2>1, SetUpStep, ForkStep, ReadStep, FinishStep DEF Parent
  <2>2. CASE Child
    BY <2>2, ExecStep, PrintStep, EndStep DEF Child
  <2>3. CASE UNCHANGED callVars
    BY <2>3 DEF CallInv, CallTypes, ChildInv, EndInv, ResultInv, StreamInv, Conveyed,
                callVars, process, disk, channel
  <2> QED
    BY <2>1, <2>2, <2>3 DEF Next, Finished
<1> QED
  BY <1>1, <1>2, PTL DEF Spec

(***************************************************************************)
(* The properties of the call.                                             *)
(***************************************************************************)

\* The pipe is never filled beyond its capacity, and the types are right.
THEOREM CallTypeCorrect == Spec => []TypeOK
<1> DEFINE Bounded == Len(pipe) <= PipeCapacity
<1>1. Init => Bounded
  BY EmptySeq, CallAssumption DEF Init, CallAssumption
<1>2. CallInv /\ Bounded /\ [Next]_callVars => Bounded'
  <2> SUFFICES ASSUME CallInv, Bounded, [Next]_callVars PROVE Bounded'
    OBVIOUS
  <2>1. pipe \in Seq(Pieces) /\ Len(pipe) \in Nat /\ PipeCapacity \in Nat
    BY LenProperties, CallAssumption DEF CallInv, CallTypes, CallAssumption
  <2>2. CASE Read
    <3>1. PICK n \in 1 .. ReadSize : n <= Len(pipe) /\ pipe' = SubSeq(pipe, n + 1, Len(pipe))
      BY <2>2 DEF Read
    <3>2. n \in 1 .. Len(pipe)
      BY <2>1, <3>1, CallAssumption DEF CallAssumption
    <3>3. Len(pipe') < Len(pipe) /\ pipe' \in Seq(Pieces)
      BY <2>1, <3>1, <3>2, EmptySeq, ReadConveys
    <3> QED
      BY <2>1, <3>3, LenProperties
  <2>3. CASE GanakPrints
    <3>1. left \in Seq(Pieces) /\ left # <<>> /\ Len(pipe) < PipeCapacity
      BY <2>3 DEF GanakPrints, CallInv, CallTypes
    <3>2. Len(pipe') = Len(pipe) + 1
      BY <2>1, <2>3, <3>1, PrintConveys DEF GanakPrints
    <3> QED
      BY <2>1, <3>1, <3>2
  <2>4. CASE ~(Read \/ GanakPrints)
    <3>1. UNCHANGED pipe
      BY <2>4 DEF Next, Parent, Child, Finished, MakeFile, WriteFormula, MakePipe, Fork,
         CloseWriteEnd, EndOfFile, Wait, Parse, Exec, GanakEnds, callVars, channel
    <3> QED
      BY <3>1
  <2> QED
    BY <2>2, <2>3, <2>4
<1>3. CallInv /\ Bounded => TypeOK
  BY DEF CallInv, CallTypes, TypeOK, Pieces
<1> QED
  BY <1>1, <1>2, <1>3, CallCorrect, PTL DEF Spec

\* What is parsed is all that Ganak has printed, in its order: the parent does
\* not stop at an empty pipe that can still be written to.
THEOREM OutputCorrect == Spec => []AllOutputIsParsed
<1>1. CallInv => AllOutputIsParsed
  <2> SUFFICES ASSUME CallInv, pc \in {"wait", "parse"}, ~killed
               PROVE  ganakOutput = <<>> \/ ganakOutput \in Scripts
    BY DEF AllOutputIsParsed, CallInv, EndInv
  <2>1. pipe = <<>> /\ child = "dead"
    BY DEF CallInv, EndInv
  <2>2. left = <<>> /\ (Conveyed = <<>> \/ Conveyed \in Scripts)
    BY <2>1 DEF CallInv, StreamInv
  <2>3. Conveyed = ganakOutput
    BY <2>1, <2>2, ConveyedEmpty DEF Conveyed, CallInv, CallTypes
  <2> QED
    BY <2>2, <2>3
<1> QED
  BY <1>1, CallCorrect, PTL

\* A Ganak that was started has ended and has been waited for when the call is
\* over, however it ends.
THEOREM ChildReaped == Spec => []NoZombie
<1>1. CallInv => NoZombie
  BY DEF CallInv, ChildInv, NoZombie
<1> QED
  BY <1>1, CallCorrect, PTL

\* Ganak finds its file whenever it opens it: the parent takes the file away only
\* when it returns a count, and then Ganak has ended.
THEOREM FileKept == Spec => []FileOutlivesGanak
<1>1. CallInv => FileOutlivesGanak
  <2> SUFFICES ASSUME CallInv, child \in {"forked", "running"}, file # "present"
               PROVE  FALSE
    BY DEF FileOutlivesGanak
  <2>1. file \in {"none", "removed"}
    BY DEF CallInv, CallTypes
  <2>2. pc \in {"mkstemp", "exit_failure", "returned"}
    BY <2>1 DEF CallInv, ResultInv
  <2> QED
    BY <2>2 DEF CallInv, ChildInv, Ended
<1> QED
  BY <1>1, CallCorrect, PTL

(***************************************************************************)
(* The call implements CountOracle.                                        *)
(***************************************************************************)
Disturbed == killed \/ (file # "none" /\ pc # "write" /\ ~whole)

\* An undisturbed call that finds the head of the count finds its tail too.
LEMMA UndisturbedCount ==
  ASSUME CallInv, pc = "parse", Printed("head"), ~Disturbed
  PROVE  CountRead = "count"
<1>1. ~killed /\ whole
  BY DEF Disturbed, CallInv, ResultInv
<1>2. ganakOutput = <<>> \/ ganakOutput \in Scripts
  <2>1. pipe = <<>> /\ child = "dead"
    BY DEF CallInv, EndInv
  <2>2. left = <<>> /\ (Conveyed = <<>> \/ Conveyed \in Scripts)
    BY <1>1, <2>1 DEF CallInv, StreamInv
  <2> QED
    BY <2>1, <2>2, ConveyedEmpty DEF Conveyed, CallInv, CallTypes
<1>3. PICK k \in DOMAIN ganakOutput : ganakOutput[k] = "head"
  BY DEF Printed
<1>4. ganakOutput \in Seq(Pieces) /\ DOMAIN ganakOutput = 1 .. Len(ganakOutput)
  BY LenProperties DEF CallInv, CallTypes
<1>5. ganakOutput \in Scripts
  BY <1>2, <1>3, <1>4, EmptySeq
<1>6. k < Len(ganakOutput) /\ ganakOutput[k + 1] = "tail"
  BY <1>3, <1>5, LineAssumption DEF LineAssumption
<1>7. Printed("tail")
  BY <1>4, <1>6 DEF Printed
<1> QED
  BY <1>1, <1>7 DEF CountRead

\* Every step of the parent is one of the oracle, or none that it sees.
LEMMA ParentMaps ==
  ASSUME CallInv, Parent
  PROVE  Oracle!OracleNext \/ UNCHANGED Oracle!oracleVars
<1> USE DEF Oracle!OracleNext, Oracle!oracleVars, Oracle!AnswerCount, Oracle!AnswerOne,
            Oracle!AnswerWrong, Oracle!EndProcess, Oracle!Disturb
<1>1. CASE MakeFile
  BY <1>1 DEF MakeFile, CallInv, ChildInv, ResultInv, StreamInv, Ended, channel
<1>2. CASE WriteFormula
  BY <1>2 DEF WriteFormula, CallInv, ChildInv, ResultInv, StreamInv, Ended, channel
<1>3. CASE MakePipe
  BY <1>3 DEF MakePipe, CallInv, ResultInv, Ended, disk
<1>4. CASE Fork
  BY <1>4 DEF Fork, Ended, disk
<1>5. CASE CloseWriteEnd \/ Read \/ EndOfFile \/ Wait
  BY <1>5 DEF CloseWriteEnd, Read, EndOfFile, Wait, Ended, disk, channel
<1>6. CASE Parse
  BY <1>6, UndisturbedCount DEF Parse, CountRead, Disturbed, CallInv, ResultInv, Ended, channel
<1> QED
  BY <1>1, <1>2, <1>3, <1>4, <1>5, <1>6 DEF Parent

\* The child is not seen, but when it is killed; then the call is not over.
LEMMA ChildMaps ==
  ASSUME CallInv, Child
  PROVE  Oracle!OracleNext \/ UNCHANGED Oracle!oracleVars
<1>1. CASE Exec \/ GanakPrints
  BY <1>1 DEF Exec, GanakPrints, Oracle!oracleVars, disk
<1>2. CASE GanakEnds
  <2>1. pc \notin Ended /\ pc' = pc /\ ~killed
    BY <1>2 DEF GanakEnds, CallInv, ChildInv, StreamInv
  <2> QED
    BY <1>2, <2>1
    DEF GanakEnds, Oracle!OracleNext, Oracle!oracleVars, Oracle!Disturb, disk, Ended
<1> QED
  BY <1>1, <1>2 DEF Child

\* The function is the oracle that count() takes it for: it answers with the
\* count, with 1 when it has no pipe, or not at all, and with a wrong number only
\* after the file or Ganak has been cut short.
THEOREM OracleCorrect == Spec => ImplementsOracle
<1>1. Init => Oracle!OracleInit
  BY DEF Init, Oracle!OracleInit, Ended
<1>2. CallInv /\ [Next]_callVars => [Oracle!OracleNext]_(Oracle!oracleVars)
  <2>1. CallInv /\ UNCHANGED callVars => UNCHANGED Oracle!oracleVars
    BY DEF callVars, disk, channel, Oracle!oracleVars
  <2> QED
    BY <2>1, ParentMaps, ChildMaps DEF Next, Finished
<1> QED
  BY <1>1, <1>2, CallCorrect, PTL DEF Spec, ImplementsOracle, Oracle!OracleSpec

(***************************************************************************)
(* Who waits for whom, and how far the call is from its end.               *)
(***************************************************************************)

\* The parent waits in read() or in waitpid().
ParentWaits ==
  \/ pc = "read" /\ pipe = <<>> /\ writers # {}
  \/ pc = "wait" /\ child # "dead"

\* Ganak waits in write(): the pipe is full.
GanakWaits == child = "running" /\ left # <<>> /\ Len(pipe) >= PipeCapacity

\* The two never wait for each other, and the parent only ever waits in read(),
\* for a child that has not ended: what can make the call hang is Ganak alone.
OnlyGanakHangs ==
  /\ ParentWaits => pc = "read" /\ child \in {"forked", "running"} /\ ~GanakWaits
  /\ GanakWaits => pc \in {"close", "read"}

ParentStage(p) ==
  CASE p = "mkstemp" -> 8 [] p = "write" -> 7 [] p = "pipe" -> 6 [] p = "fork" -> 5
    [] p = "close" -> 4 [] p = "read" -> 3 [] p = "wait" -> 2 [] p = "parse" -> 1
    [] OTHER -> 0

ChildStage(c) ==
  CASE c = "none" -> 3 [] c = "forked" -> 2 [] c = "running" -> 1 [] OTHER -> 0

\* A step brings one of the processes to a later stage, or prints a piece of what
\* is left, or empties the pipe further.
Advances ==
  \/ /\ ParentStage(pc') < ParentStage(pc)
     /\ ChildStage(child') <= ChildStage(child)
  \/ pc' = pc /\ ChildStage(child') < ChildStage(child)
  \/ pc' = pc /\ child' = child /\ Len(left') < Len(left)
  \/ pc' = pc /\ child' = child /\ left' = left /\ Len(pipe') < Len(pipe)

\* A step of the parent advances.
LEMMA ParentAdvances ==
  ASSUME CallInv, Parent
  PROVE  Advances
<1>0. ChildStage(child) <= ChildStage(child)
  BY DEF ChildStage
<1>1. CASE MakeFile \/ WriteFormula \/ MakePipe
  <2>1. /\ pc \in {"mkstemp", "write", "pipe"} /\ child' = child
        /\ pc' \in {"write", "pipe", "fork", "returned", "exit_failure"}
        /\ pc = "write" => pc' = "pipe"
        /\ pc = "pipe" => pc' \in {"fork", "returned"}
    BY <1>1 DEF MakeFile, WriteFormula, MakePipe, process
  <2>2. ParentStage(pc') < ParentStage(pc)
    BY <2>1 DEF ParentStage
  <2> QED
    BY <1>0, <2>1, <2>2 DEF Advances
<1>2. CASE Fork
  BY <1>2 DEF Fork, Advances, ParentStage, ChildStage, CallInv, ChildInv
<1>3. CASE CloseWriteEnd \/ EndOfFile \/ Wait
  BY <1>0, <1>3 DEF CloseWriteEnd, EndOfFile, Wait, Advances, ParentStage, process
<1>4. CASE Parse
  BY <1>0, <1>4 DEF Parse, Advances, ParentStage, process
<1>5. CASE Read
  <2>1. PICK n \in 1 .. Len(pipe) : pipe' = SubSeq(pipe, n + 1, Len(pipe))
    BY <1>5 DEF Read
  <2>2. Len(pipe') < Len(pipe)
    BY <2>1, ReadConveys, EmptySeq DEF CallInv, CallTypes
  <2> QED
    BY <1>5, <2>2 DEF Read, Advances, process
<1> QED
  BY <1>1, <1>2, <1>3, <1>4, <1>5 DEF Parent

\* A step of the child advances.
LEMMA ChildAdvances ==
  ASSUME CallInv, Child
  PROVE  Advances
<1>1. CASE Exec \/ GanakEnds
  BY <1>1 DEF Exec, GanakEnds, Advances, ChildStage
<1>2. CASE GanakPrints
  <2>1. Len(left') < Len(left)
    BY <1>2, HeadTailProperties, LenProperties DEF GanakPrints, CallInv, CallTypes
  <2> QED
    BY <1>2, <2>1 DEF GanakPrints, Advances, process
<1> QED
  BY <1>1, <1>2 DEF Child

\* Neither process waits for the other, and no step goes back: the stages are
\* finitely many, and so are the pieces of an output.  The call ends unless Ganak
\* lives on in silence.
THEOREM CallAdvances == Spec => []OnlyGanakHangs /\ [][Advances]_callVars
<1>1. CallInv => OnlyGanakHangs
  <2> SUFFICES ASSUME CallInv PROVE OnlyGanakHangs
    OBVIOUS
  <2>1. CallTypes /\ ChildInv /\ EndInv
    BY DEF CallInv
  <2>2. ParentWaits => pc = "read" /\ pipe = <<>> /\ child \in {"forked", "running"}
    BY <2>1 DEF ParentWaits, CallTypes, ChildInv, EndInv
  <2>3. GanakWaits => pipe # <<>>
    BY CallAssumption, EmptySeq DEF GanakWaits, CallAssumption
  <2>4. GanakWaits => pc \in {"close", "read"}
    BY <2>1 DEF GanakWaits, CallTypes, ChildInv, EndInv, Ended
  <2> QED
    BY <2>2, <2>3, <2>4 DEF OnlyGanakHangs
<1>2. CallInv /\ [Next]_callVars => [Advances]_callVars
  BY ParentAdvances, ChildAdvances DEF Next, Finished
<1> QED
  BY <1>1, <1>2, CallCorrect, PTL DEF Spec
=============================================================================
