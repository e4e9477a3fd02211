--------------------------------- MODULE Ports ---------------------------------
(***************************************************************************)
(* The host ports of a stack: createMember gives every member its ports    *)
(* and checkPortsAvailable probes a list of them before a start            *)
(* (internal/stacks/stack_manager.go:564-827).                             *)
(*                                                                         *)
(* A stack is a record: members (how many), external (the first ones whose *)
(* FireFly core runs outside of docker), node (the blockchain node         *)
(* provider), connector, ptm, postgres, sandbox, prometheus and tokens     *)
(* (how many token providers).                                             *)
(***************************************************************************)
EXTENDS Integers

CONSTANTS
  FireflyBase,    \* --firefly-base-port
  ServicesBase,   \* --services-base-port
  PtmBase,        \* --ptm-base-port
  PrometheusPort  \* --prometheus-port

ASSUME PortsAssumption ==
  {FireflyBase, ServicesBase, PtmBase, PrometheusPort} \subseteq Nat \ {0}

Index(s) == 0 .. s.members - 1

(* The first members are the external ones.                                *)
External(s, i) == i < s.external

BlockchainPort == ServicesBase

ServiceBase(i) == ServicesBase + 100 * i

(* ExposedBlockchainPortMultiplier: each Quorum node and each Tessera has  *)
(* the base of its kind plus ten times its index.                          *)
QuorumPort(i)  == BlockchainPort + 10 * i
TesseraPort(i) == PtmBase + 10 * i

(* The Quorum nodes but for the first, which has the BlockchainPort.       *)
QuorumPorts(s) ==
  IF s.node = "quorum" THEN {QuorumPort(i) : i \in Index(s) \ {0}} ELSE {}

(* nextPort already holds serviceBase when it is added to serviceBase: the *)
(* three ports below lie at twice the base.                                *)
DoubledPort(i, k) == ServiceBase(i) + (ServiceBase(i) + k)

(* The first port after the fixed ones.                                    *)
MetricsPort(i) == ServiceBase(i) + 8
TokensPort(s, i, t) == ServiceBase(i) + (IF s.prometheus THEN 10 ELSE 8) + t

\* MUTANT: the sandbox does not move up with the number of token providers.
SandboxPortFixed(s, i) == IF s.sandbox THEN TokensPort(s, i, 0) ELSE 0

SandboxPort(s, i) == IF s.sandbox THEN TokensPort(s, i, s.tokens) ELSE 0

MemberPorts(s, i) ==
  [firefly      |-> FireflyBase + i,
   spi          |-> ServiceBase(i) + 1,
   connector    |-> ServiceBase(i) + 2,
   ui           |-> ServiceBase(i) + 3,
   database     |-> ServiceBase(i) + 4,
   ptm          |-> PtmBase + 10 * i,
   dataexchange |-> DoubledPort(i, 5),
   ipfsApi      |-> DoubledPort(i, 6),
   ipfsGateway  |-> DoubledPort(i, 7),
   metrics      |-> IF s.prometheus THEN MetricsPort(i) ELSE 0,
   connectorMetrics |-> IF s.prometheus THEN MetricsPort(i) + 1 ELSE 0,
   sandbox      |-> SandboxPort(s, i)]

(* What checkPortsAvailable asks for; dialling port 0 never finds anyone.  *)
ProbedOfMember(s, i) ==
  LET p == MemberPorts(s, i) IN
    {p.connector, p.database, p.ui, p.ptm, p.dataexchange, p.ipfsApi, p.ipfsGateway}
    \cup {TokensPort(s, i, t) : t \in 0 .. s.tokens - 1}
    \cup (IF External(s, i) THEN {} ELSE {p.spi, p.firefly, p.metrics})
    \cup (IF s.sandbox THEN {p.sandbox} ELSE {})

Probed(s) ==
  {BlockchainPort}
  \cup UNION {ProbedOfMember(s, i) : i \in Index(s)}
  \cup (IF s.prometheus THEN {PrometheusPort} ELSE {})

-----------------------------------------------------------------------------
(* What `ff init` takes for granted and does not check: with many members, *)
(* many token providers or bases close to each other, two ports of a stack *)
(* are the same number.                                                    *)

(* Ports that no flag moves (the definitions of the Fabric services and of *)
(* the Tezos signer).                                                      *)
FixedPorts(s) ==
  CASE s.node = "fabric" -> {7050, 7051, 7053, 7054, 17050, 17051, 17054}
    [] s.node = "tezos"  -> {9583}
    [] OTHER -> {}

(* The blocks that the host ports of a stack lie in, those of the Quorum   *)
(* nodes after the first left out.                                         *)
Blocks(s) ==
  LET last == s.members - 1
  IN  <<FireflyBase .. FireflyBase + last,
        ServicesBase .. ServiceBase(last) + 99,
        DoubledPort(0, 5) .. DoubledPort(last, 7),
        IF s.ptm = "tessera" THEN PtmBase .. TesseraPort(last) ELSE {},
        IF s.prometheus THEN {PrometheusPort} ELSE {},
        FixedPorts(s)>>

(* The token services and the sandbox end before the next member's ports.  *)
Roomy(s) ==
  /\ s.tokens < 90
  /\ \A b, c \in 1 .. 6 : b # c => Blocks(s)[b] \cap Blocks(s)[c] = {}

=============================================================================
