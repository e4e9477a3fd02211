---------------------------- MODULE StackContract ----------------------------
(***************************************************************************)
(* What the CLI promises about the set-up of one stack, without a word on  *)
(* how it keeps the promise.  A stack is absent, new (never started, or    *)
(* reset), torn (a runtime directory is there that no finished first-time  *)
(* setup stands behind) or ready.  The promise: a stack becomes ready only *)
(* through a setup that found it new and ran to its end.  A setup that was *)
(* abandoned halfway leaves it torn, and no later command turns that into  *)
(* ready: it has to be torn down first.                                    *)
(***************************************************************************)

VARIABLES
  status,  \* what the stack is worth to its user
  busy     \* a first-time setup that found the stack new is still going on

vars == <<status, busy>>

TypeOK ==
  /\ status \in {"absent", "new", "torn", "ready"}
  /\ busy \in BOOLEAN

Init ==
  /\ status = "absent"
  /\ busy = FALSE

(* `ff init`.  A stack directory that was only half removed can hold a     *)
(* runtime directory of its predecessor: then the stack is torn at birth.  *)
Create ==
  /\ status = "absent"
  /\ status' \in {"new", "torn"}
  /\ UNCHANGED busy

BeginSetup ==
  /\ status = "new"
  /\ status' = "torn"
  /\ busy' \in BOOLEAN  \* FALSE: it failed in its very first step

Commit ==
  /\ busy
  /\ status' = "ready"
  /\ busy' = FALSE

Abandon ==
  /\ busy
  /\ busy' = FALSE
  /\ UNCHANGED status

(* A reset, a rollback or a removal in progress.                           *)
TearDown ==
  /\ ~busy
  /\ \/ status = "ready" /\ status' = "torn"
     \/ status \in {"ready", "torn"} /\ status' = "new"
     \/ status \in {"new", "torn"} /\ status' = "absent"
  /\ UNCHANGED busy

Next == Create \/ BeginSetup \/ Commit \/ Abandon \/ TearDown

Spec == Init /\ [][Next]_vars
=============================================================================
