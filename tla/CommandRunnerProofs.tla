------------------------- MODULE CommandRunnerProofs -------------------------
(***************************************************************************)
(* Proofs about CommandRunner, for any number of lines, pipes of any size, *)
(* and a child that may close its streams early.                           *)
(***************************************************************************)
EXTENDS CommandRunner, TLAPS

Held(s) == IF reader[s] = "sending" THEN 1 ELSE 0

(* A line is with the child, in the pipe, with the reader or in the output. *)
LinesConserved ==
  \A s \in Streams : got[s] + Held(s) + pipe[s] = written[s]

NotStarted ==
  child = "unborn" =>
    /\ pc = "select" /\ open = Streams
    /\ \A s \in Streams : reader[s] = "unborn"

ClosedIsWritten ==
  readable = "yes" /\ child # "unborn" =>
    /\ \A s \in Streams : s \notin open => written[s] = lines[s]
    /\ child # "running" => open = {}

(* While the capture goes on, a reader that is done found the end of file. *)
DoneIsDrained ==
  \A s \in Streams : reader[s] = "done" /\ pc # "returned" =>
    readable = "yes" /\ child # "unborn" /\ s \notin open /\ pipe[s] = 0

CaptureEnded ==
  /\ pc = "wait" => reader["stderr"] = "done"
                     \/ (mode = "follow" /\ reader["stdout"] = "done")
  /\ Waited => pc = "returned"

IInv ==
  /\ TypeOK
  /\ LinesConserved
  /\ NotStarted
  /\ ClosedIsWritten
  /\ DoneIsDrained
  /\ CaptureEnded
  /\ StderrIsComplete
  /\ OneStreamIsComplete

-----------------------------------------------------------------------------

(* The initial states satisfy the inductive invariant.                     *)
LEMMA InitInductive == Init => IInv
BY RunnerAssumption
DEF Init, IInv, TypeOK, LinesConserved, NotStarted, ClosedIsWritten,
    DoneIsDrained, CaptureEnded, StderrIsComplete, OneStreamIsComplete, Held, Waited, Streams

(* Every step keeps the types.                                             *)
LEMMA StepTyped == ASSUME TypeOK, LinesConserved, [Next]_vars PROVE TypeOK'
<1> USE RunnerAssumption DEF TypeOK, childVars, runnerVars
<1>1. CASE Start
  BY <1>1 DEF Start
<1>2. ASSUME NEW s \in Streams, WriteLine(s) PROVE TypeOK'
  BY <1>2 DEF WriteLine
<1>3. ASSUME NEW s \in Streams, CloseStream(s) PROVE TypeOK'
  BY <1>3 DEF CloseStream
<1>4. CASE ExitChild
  BY <1>4 DEF ExitChild
<1>5. ASSUME NEW s \in Streams, ReadLine(s) PROVE TypeOK'
  BY <1>5 DEF ReadLine
<1>6. ASSUME NEW s \in Streams, ReadEnd(s) PROVE TypeOK'
  BY <1>6 DEF ReadEnd
<1>7. ASSUME NEW s \in Streams, ReadError(s) PROVE TypeOK'
  BY <1>7 DEF ReadError
<1>8. ASSUME NEW s \in Streams, ReceiveLine(s) PROVE TypeOK'
  <2>1. got[s] + 1 <= MaxLines
    BY <1>8 DEF ReceiveLine, LinesConserved, Held
  <2> QED
    BY <1>8, <2>1 DEF ReceiveLine
<1>9. CASE ReceiveEnd
  BY <1>9 DEF ReceiveEnd
<1>10. ASSUME NEW s \in Streams, ReceiveError(s) PROVE TypeOK'
  BY <1>10 DEF ReceiveError
<1>11. CASE Wait
  BY <1>11 DEF Wait
<1>12. CASE UNCHANGED vars
  BY <1>12 DEF vars
<1> QED
  BY <1>1, <1>2, <1>3, <1>4, <1>5, <1>6, <1>7, <1>8, <1>9, <1>10, <1>11,
     <1>12 DEF Next, Child, Reader, Runner

(* Every step keeps the inductive invariant.                               *)
LEMMA StepInductive == ASSUME IInv, [Next]_vars PROVE IInv'
<1> USE RunnerAssumption
    DEF IInv, TypeOK, LinesConserved, NotStarted, ClosedIsWritten,
        DoneIsDrained, CaptureEnded, StderrIsComplete, OneStreamIsComplete, Held, Waited,
        childVars, runnerVars
<1>0. TypeOK'
  BY StepTyped DEF IInv
<1>1. CASE Start
  <2>1. LinesConserved'
    BY <1>0, <1>1 DEF Start
  <2>2. NotStarted'
    BY <1>0, <1>1 DEF Start
  <2>3. ClosedIsWritten'
    BY <1>0, <1>1 DEF Start
  <2>4. DoneIsDrained'
    BY <1>0, <1>1 DEF Start
  <2>5. CaptureEnded'
    BY <1>0, <1>1 DEF Start, Streams
  <2>6. StderrIsComplete' /\ OneStreamIsComplete'
    BY <1>0, <1>1 DEF Start
  <2> QED
    BY <1>0, <2>1, <2>2, <2>3, <2>4, <2>5, <2>6
<1>2. ASSUME NEW s \in Streams, WriteLine(s) PROVE IInv'
  <2>1. LinesConserved'
    BY <1>0, <1>2 DEF WriteLine
  <2>2. NotStarted'
    BY <1>0, <1>2 DEF WriteLine
  <2>3. ClosedIsWritten'
    BY <1>0, <1>2 DEF WriteLine
  <2>4. DoneIsDrained'
    BY <1>0, <1>2 DEF WriteLine
  <2>5. CaptureEnded'
    BY <1>0, <1>2 DEF WriteLine, Streams
  <2>6. StderrIsComplete' /\ OneStreamIsComplete'
    BY <1>0, <1>2 DEF WriteLine
  <2> QED
    BY <1>0, <2>1, <2>2, <2>3, <2>4, <2>5, <2>6
<1>3. ASSUME NEW s \in Streams, CloseStream(s) PROVE IInv'
  BY <1>0, <1>3 DEF CloseStream
<1>4. CASE ExitChild
  BY <1>0, <1>4 DEF ExitChild
<1>5. ASSUME NEW s \in Streams, ReadLine(s) PROVE IInv'
  BY <1>0, <1>5 DEF ReadLine
<1>6. ASSUME NEW s \in Streams, ReadEnd(s) PROVE IInv'
  <2>1. LinesConserved'
    BY <1>0, <1>6 DEF ReadEnd
  <2>2. NotStarted'
    BY <1>0, <1>6 DEF ReadEnd
  <2>3. ClosedIsWritten'
    BY <1>0, <1>6 DEF ReadEnd
  <2>4. DoneIsDrained'
    BY <1>0, <1>6 DEF ReadEnd
  <2>5. CaptureEnded'
    BY <1>0, <1>6 DEF ReadEnd, Streams
  <2>6. StderrIsComplete' /\ OneStreamIsComplete'
    BY <1>0, <1>6 DEF ReadEnd
  <2> QED
    BY <1>0, <2>1, <2>2, <2>3, <2>4, <2>5, <2>6
<1>7. ASSUME NEW s \in Streams, ReadError(s) PROVE IInv'
  BY <1>0, <1>7 DEF ReadError
<1>8. ASSUME NEW s \in Streams, ReceiveLine(s) PROVE IInv'
  BY <1>0, <1>8 DEF ReceiveLine
<1>9. CASE ReceiveEnd
  BY <1>0, <1>9 DEF ReceiveEnd, Streams
<1>10. ASSUME NEW s \in Streams, ReceiveError(s) PROVE IInv'
  BY <1>0, <1>10 DEF ReceiveError
<1>11. CASE Wait
  BY <1>0, <1>11 DEF Wait, Streams
<1>12. CASE UNCHANGED vars
  BY <1>12 DEF vars
<1> QED
  BY <1>1, <1>2, <1>3, <1>4, <1>5, <1>6, <1>7, <1>8, <1>9, <1>10, <1>11,
     <1>12 DEF Next, Child, Reader, Runner

(* The inductive invariant holds in every state of a command and its       *)
(* readers.                                                                *)
THEOREM Invariant == Spec => []IInv
  BY InitInductive, StepInductive, PTL DEF Spec

(* Every variable of the command runner keeps its type, for any number of  *)
(* lines, any pipe and either mode.                                        *)
THEOREM TypeCorrect == Spec => []TypeOK
<1>1. IInv => TypeOK
  BY DEF IInv
<1> QED
  BY <1>1, Invariant, PTL

(* No line of stderr is lost in a quiet command.                           *)
THEOREM StderrComplete == Spec => []StderrIsComplete
  BY Invariant, PTL DEF IInv

(* One of the two streams is captured in full in either mode.              *)
THEOREM OneStreamComplete == Spec => []OneStreamIsComplete
  BY Invariant, PTL DEF IInv
=============================================================================
