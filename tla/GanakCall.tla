------------------------------ MODULE GanakCall ------------------------------
(***************************************************************************)
(* SklFC::count_using_ganak() of src/skolemfc.cpp: the formula goes into a *)
(* temporary file, Ganak is run on it as a child process, and its output   *)
(* comes back through a pipe until every holder of the pipe's write end    *)
(* has closed it.  The callers always pass a timeout other than 0, which   *)
(* has no effect.                                                          *)
(*                                                                         *)
(* pipe() may fail, and mkstemp(), write(), fork(), exec and Ganak too when *)
(* MayFail says so.  read(), waitpid(), dup2() and close() do not: they    *)
(* are given valid descriptors and a child of the process, and without a   *)
(* signal handler nothing interrupts them.                                 *)
(*                                                                         *)
(* Ganak's output is a sequence of pieces: "other" lines, and the line of  *)
(* the count in two pieces, the "head" (c s exact arb int and the first    *)
(* digits) and the "tail" (the other digits).  Ganak itself is not part of *)
(* the repository.                                                         *)
(***************************************************************************)
EXTENDS Integers, Sequences

CONSTANTS
  Scripts,      \* what Ganak may have to print
  PipeCapacity, \* the pieces a pipe holds
  ReadSize,     \* the pieces one read() returns at most
  MayFail       \* mkstemp(), write(), fork(), exec and Ganak may fail too

ASSUME CallAssumption ==
  /\ Scripts \subseteq Seq({"other", "head", "tail"})
  /\ PipeCapacity \in Nat \ {0}
  /\ ReadSize \in Nat \ {0}
  /\ MayFail \in BOOLEAN

\* The count stands in one line: a Ganak that has all its output printed has
\* printed the digits after the first ones too.
ASSUME LineAssumption ==
  \A s \in Scripts : \A i \in DOMAIN s :
    s[i] = "head" => i < Len(s) /\ s[i + 1] = "tail"

VARIABLES
  pc,           \* where the parent is
  child,        \* "none", "forked", "running" or "dead"
  reaped,       \* waitpid() has returned
  file,         \* the temporary file: "none", "present" or "removed"
  whole,        \* write() put the whole formula into the file
  writers,      \* the processes holding the write end of the pipe
  pipe,         \* what is in the pipe
  left,         \* what Ganak has still to print
  killed,       \* Ganak ended before it had printed everything
  ganakOutput,
  answer        \* what the function returns

process == <<child, reaped>>
disk    == <<file, whole>>
channel == <<writers, pipe, left, killed>>
callVars == <<pc, process, disk, channel, ganakOutput, answer>>

Ended == {"returned", "exit0", "exit_failure"}

Init ==
  /\ pc = "mkstemp"
  /\ child = "none" /\ reaped = FALSE
  /\ file = "none" /\ whole = FALSE
  /\ writers = {} /\ pipe = <<>> /\ left = <<>> /\ killed = FALSE
  /\ ganakOutput = <<>>
  /\ answer = "none"

MakeFile ==
  /\ pc = "mkstemp"
  /\ \/ pc' = "write" /\ file' = "present"
     \/ MayFail /\ pc' = "exit_failure" /\ UNCHANGED file
  /\ UNCHANGED <<process, whole, channel, ganakOutput, answer>>

\* The result of write() is not looked at: the disk may be full.
WriteFormula ==
  /\ pc = "write"
  /\ whole' \in IF MayFail THEN BOOLEAN ELSE {TRUE}
  /\ pc' = "pipe"
  /\ UNCHANGED <<process, file, channel, ganakOutput, answer>>

\* Without a pipe the function returns 1.
MakePipe ==
  /\ pc = "pipe"
  /\ \/ /\ writers' = {"parent"}
        /\ pc' = "fork"
        /\ UNCHANGED answer
     \/ /\ answer' = "one"
        /\ pc' = "returned"
        /\ UNCHANGED writers
  /\ UNCHANGED <<process, disk, pipe, left, killed, ganakOutput>>

Fork ==
  /\ pc = "fork"
  /\ \/ /\ child' = "forked"
        /\ writers' = {"parent", "child"}
        /\ pc' = "close"
     \/ MayFail /\ pc' = "exit_failure" /\ UNCHANGED <<child, writers>>
  /\ UNCHANGED <<reaped, disk, pipe, left, killed, ganakOutput, answer>>

\* Slip: the parent keeps its copy of the write end.
KeepWriteEnd ==
  /\ pc = "close"
  /\ pc' = "read"
  /\ UNCHANGED <<process, disk, channel, ganakOutput, answer>>

\* Slip: the file is unlinked at once, so that no way out can leave it behind.
UnlinkAtOnce ==
  /\ pc = "close"
  /\ writers' = writers \ {"parent"}
  /\ file' = "removed"
  /\ pc' = "read"
  /\ UNCHANGED <<process, whole, pipe, left, killed, ganakOutput, answer>>

\* The parent closes its copy of the write end.
CloseWriteEnd ==
  /\ pc = "close"
  /\ writers' = writers \ {"parent"}
  /\ pc' = "read"
  /\ UNCHANGED <<process, disk, pipe, left, killed, ganakOutput, answer>>

\* read() blocks while the pipe is empty and can still be written to.
Read ==
  /\ pc = "read"
  /\ pipe # <<>>
  /\ \E n \in 1 .. ReadSize :
       /\ n <= Len(pipe)
       /\ ganakOutput' = ganakOutput \o SubSeq(pipe, 1, n)
       /\ pipe' = SubSeq(pipe, n + 1, Len(pipe))
  /\ UNCHANGED <<pc, process, disk, writers, left, killed, answer>>

\* Slip: an empty pipe is taken for the end of the output.
EmptyIsEnd ==
  /\ pc = "read"
  /\ pipe = <<>>
  /\ pc' = "wait"
  /\ UNCHANGED <<process, disk, channel, ganakOutput, answer>>

\* read() returns 0.
EndOfFile ==
  /\ pc = "read"
  /\ pipe = <<>> /\ writers = {}
  /\ pc' = "wait"
  /\ UNCHANGED <<process, disk, channel, ganakOutput, answer>>

\* Slip: nobody waits.
SkipWait ==
  /\ pc = "wait"
  /\ pc' = "parse"
  /\ UNCHANGED <<process, disk, channel, ganakOutput, answer>>

\* waitpid(); the status it gives is not looked at.
Wait ==
  /\ pc = "wait"
  /\ child = "dead"
  /\ reaped' = TRUE
  /\ pc' = "parse"
  /\ UNCHANGED <<child, disk, channel, ganakOutput, answer>>

Printed(piece) == \E i \in DOMAIN ganakOutput : ganakOutput[i] = piece

CountRead == IF whole /\ Printed("tail") THEN "count" ELSE "wrong"

\* The first line of the count is taken for it, ended by a newline or not.
Parse ==
  /\ pc = "parse"
  /\ IF Printed("head")
     THEN /\ answer' = CountRead
          /\ file' = "removed"
          /\ pc' = "returned"
     ELSE pc' = "exit0" /\ UNCHANGED <<answer, file>>
  /\ UNCHANGED <<process, whole, channel, ganakOutput>>
-----------------------------------------------------------------------------
(***************************************************************************)
(* The child.  Its standard output is the pipe.                            *)
(***************************************************************************)

\* Without an executable ./ganak the child exits at once.
Exec ==
  /\ child = "forked"
  /\ \/ /\ child' = "running"
        /\ left' \in Scripts
        /\ UNCHANGED writers
     \/ /\ MayFail
        /\ child' = "dead"
        /\ writers' = writers \ {"child"}
        /\ UNCHANGED left
  /\ UNCHANGED <<pc, reaped, disk, pipe, killed, ganakOutput, answer>>

\* Slip: a pipe without a capacity.
PrintUnbounded ==
  /\ child = "running"
  /\ left # <<>>
  /\ pipe' = Append(pipe, Head(left))
  /\ left' = Tail(left)
  /\ UNCHANGED <<pc, process, disk, writers, killed, ganakOutput, answer>>

GanakPrints ==
  /\ child = "running"
  /\ left # <<>>
  /\ Len(pipe) < PipeCapacity
  /\ pipe' = Append(pipe, Head(left))
  /\ left' = Tail(left)
  /\ UNCHANGED <<pc, process, disk, writers, killed, ganakOutput, answer>>

GanakEnds ==
  /\ child = "running"
  /\ left = <<>> \/ MayFail
  /\ killed' = (left # <<>>)
  /\ child' = "dead"
  /\ writers' = writers \ {"child"}
  /\ UNCHANGED <<pc, reaped, disk, pipe, left, ganakOutput, answer>>

Parent == MakeFile \/ WriteFormula \/ MakePipe \/ Fork \/ CloseWriteEnd
            \/ Read \/ EndOfFile \/ Wait \/ Parse
Child  == Exec \/ GanakPrints \/ GanakEnds

Finished == pc \in Ended /\ child \in {"none", "dead"} /\ UNCHANGED callVars

Next == Parent \/ Child \/ Finished

Spec == Init /\ [][Next]_callVars

\* The parent and the child are scheduled.  Nothing is asked of Ganak: the alarm
\* that would limit it is commented out (skolemfc.cpp:463).
FairSpec == Spec /\ WF_callVars(Parent) /\ WF_callVars(Exec)
-----------------------------------------------------------------------------
TypeOK ==
  /\ pc \in {"mkstemp", "write", "pipe", "fork", "close", "read", "wait",
             "parse"} \cup Ended
  /\ child \in {"none", "forked", "running", "dead"} /\ reaped \in BOOLEAN
  /\ file \in {"none", "present", "removed"} /\ whole \in BOOLEAN
  /\ writers \subseteq {"parent", "child"}
  /\ pipe \in Seq({"other", "head", "tail"}) /\ Len(pipe) <= PipeCapacity
  /\ left \in Seq({"other", "head", "tail"}) /\ killed \in BOOLEAN
  /\ ganakOutput \in Seq({"other", "head", "tail"})
  /\ answer \in {"none", "one", "count", "wrong"}

\* The output is parsed only when all of it has been read: whatever Ganak has
\* printed by the time it ended, in the order in which it was printed.
AllOutputIsParsed ==
  pc \in {"wait", "parse"} =>
    /\ pipe = <<>>
    /\ killed \/ ganakOutput = <<>> \/ ganakOutput \in Scripts

\* Once Ganak has been started the function comes back only when it has ended
\* and has been waited for: no zombie is left.
NoZombie ==
  pc \in Ended /\ child # "none" => child = "dead" /\ reaped

\* The child is given the file by its name, and Ganak may open it at any time
\* until it ends: no step of the parent takes the file away before.
FileOutlivesGanak ==
  child \in {"forked", "running"} => file = "present"

\* If Ganak prints and ends the call ends: neither process waits for the other
\* for ever.
CallEnds == WF_callVars(Child) => <>(pc \in Ended)

\* No time limit ends the call, so it may hang; but then only in read(), with
\* everything printed already read, for a Ganak that is alive and silent.
HangsOnlyWithGanak ==
  \/ <>(pc \in Ended)
  \/ <>[](pc = "read" /\ child = "running" /\ pipe = <<>>)

\* The function is the oracle that count() relies on; the answer is wrong only
\* when the file is cut short or Ganak is.
Oracle == INSTANCE CountOracle
          WITH asked <- pc \notin Ended,
               reply <- IF pc = "returned" THEN answer ELSE "none",
               disturbed <- killed \/ (file # "none" /\ pc # "write" /\ ~whole)

ImplementsOracle == Oracle!OracleSpec
=============================================================================
