---------------------------- MODULE ContractDeploy ----------------------------
(***************************************************************************)
(* The deployment of one contract through a connector: DeployContract of   *)
(* connector/ethconnect and connector/evmconnect over core.RequestWithRetry.*)
(* The contract is submitted with a POST, then the transaction is polled   *)
(* with GETs until its outcome is known.  A request may get lost before    *)
(* the connector has seen it, and its answer may get lost afterwards; the  *)
(* client cannot tell the two apart and sends the request again.           *)
(***************************************************************************)
EXTENDS Naturals, Sequences

CONSTANTS
  Retries  \* `retries` of RequestWithRetry: 30 in the code

ASSUME DeployAssumption == Retries \in Nat

Outcomes == {"pending", "succeeded", "reverted"}

VARIABLES
  connector, \* ethconnect or evmconnect
  pc,        \* the client: post, poll, returned
  retries,   \* retries left for its current request
  wire,      \* the request: idle, sent, answered, or failed
  ticket,    \* the transaction the answer to a POST names
  status,    \* the outcome the answer to a GET reports
  id,        \* the transaction the client polls, 0 before it has one
  txs,       \* the outcome of every transaction the connector has submitted
  lost,      \* answers of the connector to POSTs that got lost
  result,    \* none, contract, or error
  address    \* the transaction whose contract was returned

clientVars == <<connector, pc, retries, id, result, address>>
answerVars == <<ticket, status>>
vars == <<clientVars, wire, answerVars, txs, lost>>

TypeOK ==
  /\ connector \in {"ethconnect", "evmconnect"}
  /\ pc \in {"post", "poll", "returned"}
  /\ retries \in 0 .. Retries
  /\ wire \in {"idle", "sent", "answered", "failed"}
  /\ ticket \in 0 .. Len(txs)
  /\ status \in Outcomes
  /\ id \in 0 .. Len(txs)
  /\ txs \in Seq(Outcomes)
  /\ lost \in Nat
  /\ result \in {"none", "contract", "error"}
  /\ address \in 0 .. Len(txs)

Init ==
  /\ connector \in {"ethconnect", "evmconnect"}
  /\ pc = "post" /\ retries = Retries
  /\ wire = "idle" /\ ticket = 0 /\ status = "pending"
  /\ id = 0 /\ txs = <<>> /\ lost = 0
  /\ result = "none" /\ address = 0

-----------------------------------------------------------------------------
(* core.request and the retry loop around it.                              *)

Send ==
  /\ pc # "returned" /\ wire = "idle"
  /\ wire' = "sent"
  /\ UNCHANGED <<clientVars, answerVars, txs, lost>>

Return(r, a) ==
  /\ pc' = "returned"
  /\ result' = r
  /\ address' = a
  /\ UNCHANGED <<connector, retries, id>>

\* MUTANT: the counter is taken down before it is tested.
RetryOnceMore ==
  /\ wire = "failed"
  /\ wire' = "idle"
  /\ \/ /\ retries >= 0
        /\ retries' = retries - 1
        /\ UNCHANGED <<connector, pc, id, result, address>>
     \/ retries < 0 /\ Return("error", 0)
  /\ UNCHANGED <<answerVars, txs, lost>>

\* MUTANT: the counter is set inside the loop.
RetryWithoutCount ==
  /\ wire = "failed"
  /\ wire' = "idle"
  /\ UNCHANGED <<clientVars, answerVars, txs, lost>>

\* MUTANT: the retry starts again with the submission.
RetryFromSubmission ==
  /\ wire = "failed"
  /\ wire' = "idle"
  /\ \/ /\ retries > 0
        /\ retries' = retries - 1
        /\ pc' = "post"
        /\ UNCHANGED <<connector, id, result, address>>
     \/ retries = 0 /\ Return("error", 0)
  /\ UNCHANGED <<answerVars, txs, lost>>

(* RequestWithRetry: the attempt after the last retry is given up.         *)
RetryOrGiveUp ==
  /\ wire = "failed"
  /\ wire' = "idle"
  /\ \/ /\ retries > 0
        /\ retries' = retries - 1
        /\ UNCHANGED <<connector, pc, id, result, address>>
     \/ retries = 0 /\ Return("error", 0)
  /\ UNCHANGED <<answerVars, txs, lost>>

(* The POST was answered: a new RequestWithRetry polls the transaction.    *)
Submitted ==
  /\ pc = "post" /\ wire = "answered"
  /\ wire' = "idle"
  /\ id' = ticket
  /\ pc' = "poll"
  /\ retries' = Retries
  /\ UNCHANGED <<connector, result, address, answerVars, txs, lost>>

\* MUTANT: the type of the reply is not looked at.
ReceiveAnyReply ==
  /\ pc = "poll" /\ wire = "answered" /\ connector = "ethconnect"
  /\ wire' = "idle"
  /\ Return("contract", id)
  /\ UNCHANGED <<answerVars, txs, lost>>

\* MUTANT: every reply but a success is waited out.
ReceiveSuccessOnly ==
  /\ pc = "poll" /\ wire = "answered" /\ connector = "ethconnect"
  /\ wire' = "idle"
  /\ IF status = "succeeded" THEN Return("contract", id)
     ELSE retries' = Retries /\ UNCHANGED <<connector, pc, id, result, address>>
  /\ UNCHANGED <<answerVars, txs, lost>>

(* ethconnect: a reply exists once the outcome is known, and its type says *)
(* which it is.                                                            *)
ReceiveReply ==
  /\ pc = "poll" /\ wire = "answered" /\ connector = "ethconnect"
  /\ wire' = "idle"
  /\ IF status = "succeeded" THEN Return("contract", id) ELSE Return("error", 0)
  /\ UNCHANGED <<answerVars, txs, lost>>

(* evmconnect, waitForTransactionSuccess: every status but Succeeded makes *)
(* it sleep and ask again, with a new RequestWithRetry; its own `retries`  *)
(* never changes.                                                          *)
ReceiveStatus ==
  /\ pc = "poll" /\ wire = "answered" /\ connector = "evmconnect"
  /\ wire' = "idle"
  /\ \/ status = "succeeded" /\ Return("contract", id)
     \/ /\ status # "succeeded"
        /\ retries' = Retries
        /\ UNCHANGED <<connector, pc, id, result, address>>
  /\ UNCHANGED <<answerVars, txs, lost>>

Client == Send \/ RetryOrGiveUp \/ Submitted \/ ReceiveReply \/ ReceiveStatus

-----------------------------------------------------------------------------
(* The connector, its chain, and the network.                              *)

(* Every POST the connector sees is a transaction of its own.              *)
Submit ==
  /\ pc = "post" /\ wire = "sent"
  /\ txs' = Append(txs, "pending")
  /\ \/ wire' = "answered" /\ ticket' = Len(txs') /\ UNCHANGED lost
     \/ wire' = "failed" /\ lost' = lost + 1 /\ UNCHANGED ticket
  /\ UNCHANGED <<clientVars, status>>

(* ethconnect has no reply for a transaction that is pending: 404.         *)
Report ==
  /\ pc = "poll" /\ wire = "sent"
  /\ IF connector = "ethconnect" /\ txs[id] = "pending"
     THEN wire' = "failed" /\ UNCHANGED status
     ELSE wire' = "answered" /\ status' = txs[id]
  /\ UNCHANGED <<clientVars, ticket, txs, lost>>

(* The request does not arrive, or the answer of a GET does not.           *)
Drop ==
  /\ wire = "sent"
  /\ wire' = "failed"
  /\ UNCHANGED <<clientVars, answerVars, txs, lost>>

Mine(t) ==
  /\ txs[t] = "pending"
  /\ \E o \in {"succeeded", "reverted"} :
       txs' = [txs EXCEPT ![t] = o]
  /\ UNCHANGED <<clientVars, wire, answerVars, lost>>

Chain == \E t \in DOMAIN txs : Mine(t)

Answer == Submit \/ Report \/ Drop

Next == Client \/ Answer \/ Chain

Spec == Init /\ [][Next]_vars

(* The client runs, the chain mines, and every request ends: http.Client   *)
(* sets no timeout, so this is the connector's or the kernel's doing.      *)
FairSpec == Spec /\ WF_vars(Client) /\ WF_vars(Answer) /\ WF_vars(Chain)

-----------------------------------------------------------------------------
(* Properties.                                                             *)

(* The address a deployment returns is that of a contract on the chain,    *)
(* whatever got lost on the way and however often it was submitted.        *)
ReturnedIsOnChain ==
  result = "contract" => address # 0 /\ txs[address] = "succeeded"

(* The contract is submitted a second time only because the answer to the  *)
(* first submission got lost; polling never submits it again.              *)
SubmittedAgainAfterLossOnly == Len(txs) <= 1 + lost

(* However many answers get lost, the copies of the contract that end up   *)
(* on the chain are no more than the attempts of one RequestWithRetry.     *)
SubmissionsBounded == Len(txs) <= 1 + Retries

(* Every deployment returns, unless it waits, over evmconnect, for a       *)
(* transaction that was reverted.                                          *)
WaitsInVain == connector = "evmconnect" /\ id # 0 /\ txs[id] = "reverted"
DeploymentReturns == <>(pc = "returned" \/ WaitsInVain)

(* What the code announces and does not do. *)

(* waitForTransactionSuccess sets out with `retries := 10` and loops while *)
(* there are any: the wait for a transaction, reverted ones included, ends.*)
WaitIsBounded == <>(pc = "returned")
=============================================================================
