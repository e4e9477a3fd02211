------------------------------ MODULE MCUpgrade ------------------------------
(***************************************************************************)
(* Three releases, v1.3.0, v1.3.2 and v1.4.0, whose connector changes in   *)
(* v1.3.2 only, and stacks that were initialised with a release, with a    *)
(* branch and a connector of the user's own before there was tezosconnect, *)
(* with a FireFly core built on the host, and with an incomplete manifest. *)
(***************************************************************************)
EXTENDS Upgrade

V130  == <<<<1>>, <<3>>, <<0>>>>
V132  == <<<<1>>, <<3>>, <<2>>>>
V140  == <<<<1>>, <<4>>, <<0>>>>
Main  == <<>>

MCReleases == {V130, V132, V140}

Manifest(core, connector, tezosconnect, tokens) ==
  [firefly |-> core, evmconnect |-> connector, tezosconnect |-> tezosconnect,
   tokens |-> tokens]

MCManifestOf ==
  [release \in MCReleases |->
     CASE release = V130  -> Manifest("core 1.3.0", "evm a", "tezos a", "tokens a")
       [] release = V132  -> Manifest("core 1.3.2", "evm b", "tezos a", "tokens a")
       [] release = V140  -> Manifest("core 1.4.0", "evm b", "tezos a", "tokens a")]

MCImages ==
  {"core 1.3.0", "core 1.3.2", "core 1.4.0", "core main", "core local",
   "evm a", "evm b", "evm own", "tezos a", "tokens a", "ipfs"}

MCLabelOf ==
  [image \in MCImages |->
     CASE image = "core 1.3.0" -> V130
       [] image = "core 1.3.2" -> V132
       [] image = "core 1.4.0" -> V140
       [] OTHER -> Main]

MCInitManifests ==
  {MCManifestOf[V130],
   Manifest("core main", "evm own", "no image", "tokens a"),
   Manifest("core local", "evm b", "tezos a", "tokens a"),
   Manifest("core 1.3.0", "evm a", "tezos a", "no image")}

=============================================================================
