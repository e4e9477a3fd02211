-------------------------- MODULE MCStackLifecycle --------------------------
(***************************************************************************)
(* The options of `ff init` that StackLifecycle is checked with.           *)
(***************************************************************************)
EXTENDS StackLifecycle

Option(multiparty, contract, connector) ==
  [multiparty |-> multiparty, contract |-> contract, connector |-> connector]

(* The default, with either connector.                                     *)
Deploying == {Option("yes", "none", "evmconnect"),
              Option("yes", "none", "ethconnect")}

(* A multiparty contract that was deployed beforehand.                     *)
Given == {Option("yes", "given", "ethconnect")}

(* No multiparty mode.                                                     *)
Gateway == {Option("no", "none", "evmconnect")}

MCOptions == Deploying \cup Given \cup Gateway
=============================================================================
