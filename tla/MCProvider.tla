------------------------------ MODULE MCProvider ------------------------------
(***************************************************************************)
(* Two members and two more accounts; FireFly's package, and two of the    *)
(* user's whose labels go by one name.                                     *)
(***************************************************************************)
EXTENDS Provider

MCKinds == {"geth", "quorum", "ethsigner", "tezos", "fabric", "remote-fabric"}

MCPackages == {"firefly_1.0", "asset_1", "asset_2"}

MCNamesOf ==
  [p \in MCPackages |->
     IF p = "firefly_1.0" THEN {"firefly"} ELSE {"asset"}]

=============================================================================
