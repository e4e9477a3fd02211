---------------------------- MODULE CommandRunner ----------------------------
(***************************************************************************)
(* One run of an external command (docker, docker compose) and the capture *)
(* of its output: runCommand, pipeCommand and readPipe of                  *)
(* internal/docker/docker.go.  The child writes lines to two pipes, a      *)
(* goroutine per pipe reads them and hands them to the caller over an      *)
(* unbuffered channel, and the caller selects over both channels.          *)
(***************************************************************************)
EXTENDS Naturals

CONSTANTS
  MaxLines,     \* bound: lines the child writes to one stream
  Capacity      \* lines a pipe (and its bufio.Reader) holds

ASSUME RunnerAssumption ==
  /\ MaxLines \in Nat
  /\ Capacity \in Nat \ {0}

Streams == {"stdout", "stderr"}

VARIABLES
  mode,     \* quiet, or follow: -v was given or the command shows logs
  lines,    \* the lines the child is going to write, per stream
  child,    \* unborn, running, or the status it exited with
  open,     \* streams whose write end is open
  readable, \* whether the read ends are open: yes or no
  written,  \* lines the child has written
  pipe,     \* lines in the pipe
  reader,   \* each readPipe: unborn, reading, sending a line, erring, done
  pc,       \* runCommand: select, wait, returned
  got,      \* lines in outputBuff
  result    \* none, ok, exit_error or read_error

childVars  == <<child, open, written>>
runnerVars == <<pc, got, result>>
vars == <<mode, lines, childVars, readable, pipe, reader, runnerVars>>

TypeOK ==
  /\ mode \in {"quiet", "follow"}
  /\ lines \in [Streams -> 0 .. MaxLines]
  /\ child \in {"unborn", "running", "succeeded", "failed"}
  /\ open \subseteq Streams
  /\ readable \in {"yes", "no"}
  /\ written \in [Streams -> 0 .. MaxLines]
  /\ pipe \in [Streams -> 0 .. Capacity]
  /\ reader \in [Streams -> {"unborn", "reading", "sending", "erring", "done"}]
  /\ pc \in {"select", "wait", "returned"}
  /\ got \in [Streams -> 0 .. MaxLines]
  /\ result \in {"none", "ok", "exit_error", "read_error"}

Init ==
  /\ mode \in {"quiet", "follow"}
  /\ lines \in [Streams -> 0 .. MaxLines]
  /\ child = "unborn"
  /\ open = Streams
  /\ readable = "yes"
  /\ written = [s \in Streams |-> 0]
  /\ pipe = [s \in Streams |-> 0]
  /\ reader = [s \in Streams |-> "unborn"]
  /\ pc = "select"
  /\ got = [s \in Streams |-> 0]
  /\ result = "none"

-----------------------------------------------------------------------------
(* The child.                                                              *)

(* cmd.Start: when it fails its error is printed, the read ends are closed *)
(* and the readers start all the same.                                     *)
Start ==
  /\ child = "unborn"
  /\ reader' = [s \in Streams |-> "reading"]
  /\ \/ child' = "running" /\ UNCHANGED <<open, readable>>
     \/ child' = "failed" /\ open' = {} /\ readable' = "no"
  /\ UNCHANGED <<mode, lines, written, pipe, runnerVars>>

(* Blocks while the pipe is full.                                          *)
WriteLine(s) ==
  /\ child = "running" /\ s \in open
  /\ written[s] < lines[s] /\ pipe[s] < Capacity
  /\ written' = [written EXCEPT ![s] = @ + 1]
  /\ pipe' = [pipe EXCEPT ![s] = @ + 1]
  /\ UNCHANGED <<mode, lines, child, open, readable, reader, runnerVars>>

(* A child may close a stream before it exits; docker does not.            *)
CloseStream(s) ==
  /\ child = "running" /\ s \in open
  /\ written[s] = lines[s]
  /\ open' = open \ {s}
  /\ UNCHANGED <<mode, lines, child, readable, written, pipe, reader, runnerVars>>

ExitChild ==
  /\ child = "running"
  /\ written = lines
  /\ child' \in {"succeeded", "failed"}
  /\ open' = {}
  /\ UNCHANGED <<mode, lines, readable, written, pipe, reader, runnerVars>>

-----------------------------------------------------------------------------
(* readPipe.                                                               *)

ReadLine(s) ==
  /\ reader[s] = "reading" /\ readable = "yes"
  /\ pipe[s] > 0
  /\ pipe' = [pipe EXCEPT ![s] = @ - 1]
  /\ reader' = [reader EXCEPT ![s] = "sending"]
  /\ UNCHANGED <<mode, lines, childVars, readable, runnerVars>>

\* MUTANT: the reader gives up when the child is gone.
ReadEndAtExit(s) ==
  /\ reader[s] = "reading" /\ readable = "yes"
  /\ s \notin open
  /\ reader' = [reader EXCEPT ![s] = "done"]
  /\ UNCHANGED <<mode, lines, childVars, readable, pipe, runnerVars>>

(* io.EOF: the channel is closed.                                          *)
ReadEnd(s) ==
  /\ reader[s] = "reading" /\ readable = "yes"
  /\ pipe[s] = 0 /\ s \notin open
  /\ reader' = [reader EXCEPT ![s] = "done"]
  /\ UNCHANGED <<mode, lines, childVars, readable, pipe, runnerVars>>

ReadError(s) ==
  /\ reader[s] = "reading" /\ readable = "no"
  /\ reader' = [reader EXCEPT ![s] = "erring"]
  /\ UNCHANGED <<mode, lines, childVars, readable, pipe, runnerVars>>

-----------------------------------------------------------------------------
(* runCommand.                                                             *)

\* MUTANT: the line is written to the output and, as a default, once more.
ReceiveLineTwice(s) ==
  /\ pc = "select" /\ reader[s] = "sending"
  /\ got' = [got EXCEPT ![s] = @ + 2]
  /\ reader' = [reader EXCEPT ![s] = "reading"]
  /\ UNCHANGED <<mode, lines, childVars, readable, pipe, pc, result>>

ReceiveLine(s) ==
  /\ pc = "select" /\ reader[s] = "sending"
  /\ got' = [got EXCEPT ![s] = @ + 1]
  /\ reader' = [reader EXCEPT ![s] = "reading"]
  /\ UNCHANGED <<mode, lines, childVars, readable, pipe, pc, result>>

\* MUTANT: the end of stdout ends the capture in either mode.
ReceiveAnyEnd ==
  /\ pc = "select"
  /\ \E s \in Streams : reader[s] = "done"
  /\ pc' = "wait"
  /\ UNCHANGED <<mode, lines, childVars, readable, pipe, reader, got, result>>

\* MUTANT: only a command that is followed ends with its streams.
ReceiveFollowedEnd ==
  /\ pc = "select" /\ mode = "follow"
  /\ \E s \in Streams : reader[s] = "done"
  /\ pc' = "wait"
  /\ UNCHANGED <<mode, lines, childVars, readable, pipe, reader, got, result>>

(* The end of stderr ends the capture; that of stdout does only when the   *)
(* command is followed, otherwise the select goes round (a stutter).       *)
ReceiveEnd ==
  /\ pc = "select"
  /\ \/ reader["stderr"] = "done"
     \/ reader["stdout"] = "done" /\ mode = "follow"
  /\ pc' = "wait"
  /\ UNCHANGED <<mode, lines, childVars, readable, pipe, reader, got, result>>

ReceiveError(s) ==
  /\ pc = "select" /\ reader[s] = "erring"
  /\ reader' = [reader EXCEPT ![s] = "done"]
  /\ pc' = "returned"
  /\ result' = "read_error"
  /\ UNCHANGED <<mode, lines, childVars, readable, pipe, got>>

(* cmd.Wait waits for the child and then closes the read ends.             *)
Wait ==
  /\ pc = "wait" /\ child \in {"succeeded", "failed"}
  /\ readable' = "no"
  /\ pc' = "returned"
  /\ result' = IF child = "succeeded" THEN "ok" ELSE "exit_error"
  /\ UNCHANGED <<mode, lines, childVars, pipe, reader, got>>

-----------------------------------------------------------------------------

Child     == ExitChild \/ \E s \in Streams : WriteLine(s)
Reader(s) == ReadLine(s) \/ ReadEnd(s) \/ ReadError(s)
Runner    == ReceiveEnd \/ Wait \/ \E s \in Streams : ReceiveLine(s) \/ ReceiveError(s)

Next ==
  \/ Start \/ Child \/ Runner
  \/ \E s \in Streams : CloseStream(s) \/ Reader(s)

Spec == Init /\ [][Next]_vars

(* The child does not hang by itself, and the scheduler runs every         *)
(* goroutine; a select with a ready case takes one, at random.             *)
Fairness ==
  /\ WF_vars(Start) /\ WF_vars(Child) /\ WF_vars(Runner)
  /\ \A s \in Streams : WF_vars(Reader(s))

FairSpec == Spec /\ Fairness

-----------------------------------------------------------------------------
(* Properties.                                                             *)

ClosedEarly == child = "running" /\ open # Streams

Waited == result \in {"ok", "exit_error"}

(* What the callers of a quiet command read out of an error (removeVolumes *)
(* looks for "no such volume", the fabric provider for "already            *)
(* installed") is all there: no line of stderr is lost.                    *)
StderrIsComplete ==
  Waited /\ mode = "quiet" => got["stderr"] = lines["stderr"]

(* Whatever the mode, the output has one of the two streams in full.       *)
OneStreamIsComplete ==
  Waited => \E s \in Streams : got[s] = lines[s]

(* The caller gets a result, however full the pipes are and whichever      *)
(* stream ends first: the capture may stop on the end of one stream, since *)
(* a child that keeps both open until it exits has no line left to write.  *)
(* (One that closes a stream early may be left blocked on the other, with  *)
(* the caller in cmd.Wait.)                                                *)
EveryCommandReturns == <>(pc = "returned" \/ ClosedEarly)
=============================================================================
