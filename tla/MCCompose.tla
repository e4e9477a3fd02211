------------------------------ MODULE MCCompose ------------------------------
(***************************************************************************)
(* The stacks of the run: every blockchain with its connectors, one to     *)
(* three members of which some are external, up to two token providers,    *)
(* and every choice of database, sandbox, Prometheus and Tessera.          *)
(***************************************************************************)
EXTENDS Compose

CONSTANTS MaxMembers, MaxTokens

Nodes == {"geth", "besu", "quorum", "remote-rpc", "tezos", "fabric", "remote-fabric"}

MCOptions ==
  [members : 1 .. MaxMembers, external : 0 .. MaxMembers - 1, node : Nodes,
   connector : {"ethconnect", "evmconnect", "tezosconnect", "fabconnect"},
   ptm : {"none", "tessera"}, postgres : BOOLEAN, sandbox : BOOLEAN,
   prometheus : BOOLEAN, tokens : 0 .. MaxTokens]

(* The stacks that are started: one of each blockchain, as plain as can be, *)
(* one with Tessera, one whose second Quorum node has the port of a token   *)
(* service, two of two members, and two that have what these lack.          *)
Plain(node, connector) ==
  [members |-> 1, external |-> 0, node |-> node, connector |-> connector,
   ptm |-> "none", postgres |-> FALSE, sandbox |-> FALSE, prometheus |-> FALSE,
   tokens |-> 0]

MCCut ==
  {Plain("besu", "evmconnect"), Plain("remote-rpc", "ethconnect"),
   Plain("fabric", "fabconnect"), Plain("remote-fabric", "fabconnect"),
   [Plain("quorum", "ethconnect") EXCEPT !.ptm = "tessera"],
   [Plain("geth", "evmconnect") EXCEPT !.postgres = TRUE, !.tokens = 1,
                                           !.sandbox = TRUE],
   [Plain("remote-fabric", "fabconnect") EXCEPT !.members = 2, !.external = 1],
   [Plain("tezos", "tezosconnect") EXCEPT !.sandbox = TRUE]}

(* Commands do not break off on the larger ones.                           *)
MCStarted == MCCut \cup
  {[Plain("quorum", "ethconnect") EXCEPT !.members = 2, !.external = 1, !.tokens = 1,
                                           !.prometheus = TRUE],
   [Plain("remote-rpc", "evmconnect") EXCEPT !.members = 2],
   [Plain("tezos", "tezosconnect") EXCEPT !.sandbox = TRUE, !.prometheus = TRUE]}

(* The ports of none of these stacks collide.                              *)
ASSUME MCRoomy == \A s \in MCOptions : Roomy(s)

=============================================================================
