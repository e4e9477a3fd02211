------------------------- MODULE ContractDeployProofs -------------------------
(***************************************************************************)
(* Proofs about ContractDeploy, for both connectors and any number of      *)
(* retries.                                                                *)
(***************************************************************************)
EXTENDS ContractDeploy, TLAPS

(* What the client knows of the transaction at each of its steps.          *)
ClientFits ==
  /\ pc = "post" => id = 0
  /\ pc = "poll" => id # 0
  /\ pc = "returned" => wire = "idle"
  /\ pc # "returned" => result = "none"

(* An answer on its way names a transaction, or an outcome that stands.    *)
AnswerFits ==
  /\ pc = "post" /\ wire = "answered" => ticket # 0
  /\ pc = "poll" /\ wire = "answered" /\ status = "succeeded" =>
       txs[id] = "succeeded"

(* Each transaction but the one the client knows had its answer lost.      *)
Known == IF id # 0 \/ (pc = "post" /\ wire = "answered") THEN 1 ELSE 0
LossesCounted == Len(txs) = lost + Known

(* A submission under way uses up an attempt.                              *)
Attempt == IF wire \in {"answered", "failed"} THEN 0 ELSE 1
AttemptsCounted == pc = "post" => Len(txs) + retries + Attempt <= 1 + Retries

IInv ==
  /\ TypeOK
  /\ ClientFits
  /\ AnswerFits
  /\ LossesCounted
  /\ AttemptsCounted
  /\ ReturnedIsOnChain
  /\ SubmissionsBounded

-----------------------------------------------------------------------------

(* The initial states satisfy the inductive invariant.                     *)
LEMMA InitInductive == Init => IInv
BY DeployAssumption
DEF Init, IInv, TypeOK, ClientFits, AnswerFits, LossesCounted, Known,
    AttemptsCounted, Attempt, ReturnedIsOnChain, SubmissionsBounded, Outcomes

(* Every step keeps the inductive invariant.                               *)
LEMMA StepInductive == ASSUME IInv, [Next]_vars PROVE IInv'
<1> USE DeployAssumption
    DEF IInv, TypeOK, ClientFits, AnswerFits, LossesCounted, Known,
        AttemptsCounted, Attempt, ReturnedIsOnChain, SubmissionsBounded,
        Outcomes, clientVars, answerVars
<1>1. CASE Send
  BY <1>1 DEF Send
<1>2. CASE RetryOrGiveUp
  BY <1>2 DEF RetryOrGiveUp, Return
<1>3. CASE Submitted
  BY <1>3 DEF Submitted
<1>4. CASE ReceiveReply
  BY <1>4 DEF ReceiveReply, Return
<1>5. CASE ReceiveStatus
  BY <1>5 DEF ReceiveStatus, Return
<1>6. CASE Submit
  <2>1. /\ txs' \in Seq(Outcomes)
        /\ Len(txs') = Len(txs) + 1
        /\ Len(txs) \in Nat
        /\ \A t \in 1 .. Len(txs) : txs'[t] = txs[t]
    BY <1>6 DEF Submit
  <2>2. TypeOK'
    BY <1>6, <2>1 DEF Submit
  <2>3. ClientFits' /\ AnswerFits'
    BY <1>6, <2>1 DEF Submit
  <2>4. LossesCounted' /\ AttemptsCounted' /\ SubmissionsBounded'
    BY <1>6, <2>1 DEF Submit
  <2>5. ReturnedIsOnChain'
    BY <1>6, <2>1 DEF Submit
  <2> QED
    BY <2>2, <2>3, <2>4, <2>5
<1>7. CASE Report
  BY <1>7 DEF Report
<1>8. CASE Drop
  BY <1>8 DEF Drop
<1>9. ASSUME NEW t \in DOMAIN txs, Mine(t) PROVE IInv'
  <2>1. PICK o \in Outcomes : txs' = [txs EXCEPT ![t] = o]
    BY <1>9 DEF Mine
  <2>2. /\ txs' \in Seq(Outcomes)
        /\ Len(txs') = Len(txs)
        /\ Len(txs) \in Nat
        /\ \A u \in 1 .. Len(txs) : u # t => txs'[u] = txs[u]
    BY <2>1
  <2>3. \A u \in 1 .. Len(txs) : txs[u] = "succeeded" => txs'[u] = "succeeded"
    BY <1>9, <2>2 DEF Mine
  <2>4. TypeOK' /\ ClientFits'
    BY <1>9, <2>2 DEF Mine
  <2>5. AnswerFits' /\ ReturnedIsOnChain'
    BY <1>9, <2>2, <2>3 DEF Mine
  <2>6. LossesCounted' /\ AttemptsCounted' /\ SubmissionsBounded'
    BY <1>9, <2>2 DEF Mine
  <2> QED
    BY <2>4, <2>5, <2>6
<1>10. CASE UNCHANGED vars
  BY <1>10 DEF vars
<1> QED
  BY <1>1, <1>2, <1>3, <1>4, <1>5, <1>6, <1>7, <1>8, <1>9, <1>10
  DEF Next, Client, Answer, Chain

(* The inductive invariant holds in every state of a deployment and its    *)
(* retries.                                                                *)
THEOREM Invariant == Spec => []IInv
BY InitInductive, StepInductive, PTL DEF Spec

-----------------------------------------------------------------------------

(* The type invariant.                                                     *)
THEOREM TypeCorrect == Spec => []TypeOK
<1>1. IInv => TypeOK
  BY DEF IInv
<1> QED
  BY <1>1, Invariant, PTL

(* The address that DeployContract returns is that of a contract whose     *)
(* transaction succeeded.                                                  *)
THEOREM ReturnedOnChain == Spec => []ReturnedIsOnChain
<1>1. IInv => ReturnedIsOnChain
  BY DEF IInv
<1> QED
  BY <1>1, Invariant, PTL

(* RequestWithRetry submits again only what got no answer.                 *)
THEOREM AgainAfterLossOnly == Spec => []SubmittedAgainAfterLossOnly
<1>1. IInv => SubmittedAgainAfterLossOnly
  BY DEF IInv, TypeOK, LossesCounted, Known, SubmittedAgainAfterLossOnly
<1> QED
  BY <1>1, Invariant, PTL

(* The retry counter bounds the copies of a contract.                      *)
THEOREM Bounded == Spec => []SubmissionsBounded
<1>1. IInv => SubmissionsBounded
  BY DEF IInv
<1> QED
  BY <1>1, Invariant, PTL
=============================================================================
