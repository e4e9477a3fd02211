------------------------------ MODULE Endpoints ------------------------------
(***************************************************************************)
(* The addresses that the generated configuration files name: in those of  *)
(* the FireFly cores (internal/core/config.go and the provider's plugin    *)
(* configuration), of the connectors, signers, token services and private  *)
(* transaction managers.  An address is reached inside docker, by a        *)
(* service's name and the port its container listens on, or on the host,   *)
(* by a published port.                                                    *)
(*                                                                         *)
(* An endpoint is who names an address, the address, and what the author   *)
(* of the line is after: a service and the container port of one of its    *)
(* listeners, or Outside for a process that is not one of the stack's.     *)
(***************************************************************************)
EXTENDS Services

InDocker(name, port) == [host |-> FALSE, service |-> name, port |-> port]
OnHost(port) == [host |-> TRUE, service |-> <<"host">>, port |-> port]
Outside == <<<<"outside">>, 0>>

Endpoint(by, address, name, port) ==
  [by |-> by, at |-> address, means |-> <<name, port>>]

(* Inside the docker network.                                              *)
Inner(by, name, port) == Endpoint(by, InDocker(name, port), name, port)

Core(i) == <<"firefly_core", i>>

-----------------------------------------------------------------------------
(* A core in docker asks for the service by name; an external one runs on  *)
(* the host and asks for the port the service publishes.                   *)
CoreURL(s, i, name, container, published) ==
  Endpoint(Core(i),
           IF External(s, i) THEN OnHost(published) ELSE InDocker(name, container),
           name, container)

(* Port(): where the connectors listen.                                    *)
ConnectorPort(s) ==
  CASE s.connector = "ethconnect" -> 8080
    [] s.connector \in {"evmconnect", "tezosconnect"} -> 5008
    [] s.connector = "fabconnect" -> 3000

(* GetConnectorURL and GetConnectorExternalURL.                            *)
ConnectorURL(s, i) ==
  CoreURL(s, i, <<s.connector, i>>, ConnectorPort(s), MemberPorts(s, i).connector)

\* MUTANT: the gateway's address of an external member has the API's port.
StorageURLsOneOff(s, i) ==
  LET p == MemberPorts(s, i)
  IN  {CoreURL(s, i, <<"ipfs", i>>, 5001, p.ipfsApi),
       CoreURL(s, i, <<"ipfs", i>>, 8080, p.ipfsApi),
       CoreURL(s, i, <<"dataexchange", i>>, 3000, p.dataexchange)}

StorageURLs(s, i) ==
  LET p == MemberPorts(s, i)
  IN  {CoreURL(s, i, <<"ipfs", i>>, 5001, p.ipfsApi),
       CoreURL(s, i, <<"ipfs", i>>, 8080, p.ipfsGateway),
       CoreURL(s, i, <<"dataexchange", i>>, 3000, p.dataexchange)}

DatabaseURL(s, i) ==
  IF s.postgres
  THEN {CoreURL(s, i, <<"postgres", i>>, 5432, MemberPorts(s, i).database)} ELSE {}

TokensURLs(s, i) ==
  {CoreURL(s, i, <<"tokens", i, t>>, 3000, TokensPort(s, i, t)) : t \in 0 .. s.tokens - 1}

(* NewFireflyConfig and what writeConfig adds to it.                       *)
FireflyConfig(s, i) ==
  StorageURLs(s, i) \cup DatabaseURL(s, i) \cup TokensURLs(s, i) \cup {ConnectorURL(s, i)}

-----------------------------------------------------------------------------
(* getCoreURL of evmconnect and tezosconnect: an external core is a        *)
(* process of the user's, on the host.                                     *)
CoreOf(s, i) ==
  LET port == MemberPorts(s, i).firefly
  IN  IF External(s, i)
      THEN [by |-> <<s.connector, i>>, at |-> OnHost(port), means |-> Outside]
      ELSE Inner(<<s.connector, i>>, Core(i), port)

(* GenerateConfig of the connectors: the node or the signer in front of it. *)
NodeOf(s, i) ==
  CASE s.node = "geth"   -> <<"geth">>
    [] s.node = "quorum" -> <<"quorum", i>>
    [] s.node \in {"besu", "remote-rpc"} -> <<"ethsigner">>

EthconnectConfig(s, i) == {Inner(<<"ethconnect", i>>, NodeOf(s, i), 8545)}

EvmconnectConfig(s, i) ==
  {Inner(<<"evmconnect", i>>, NodeOf(s, i), 8545), CoreOf(s, i)}

TezosconnectConfig(s, i) ==
  {Inner(<<"tezosconnect", i>>, <<"tezossigner">>, 6732), CoreOf(s, i)}

(* The connection profile of a local network; a remote one is given.       *)
NetworkConfig(s, i) ==
  IF s.node = "remote-fabric" THEN {}
  ELSE {Inner(<<"fabconnect", i>>, <<"fabric_ca">>, 7054),
        Inner(<<"fabconnect", i>>, <<"fabric_orderer">>, 7050),
        Inner(<<"fabconnect", i>>, <<"fabric_peer">>, 7051)}

ConnectorConfig(s, i) ==
  CASE s.connector = "ethconnect"   -> EthconnectConfig(s, i)
    [] s.connector = "evmconnect"   -> EvmconnectConfig(s, i)
    [] s.connector = "tezosconnect" -> TezosconnectConfig(s, i)
    [] s.connector = "fabconnect"   -> NetworkConfig(s, i)

(* The signer is given the node's address, or the remote one.              *)
SignerConfig(s) == IF s.node = "besu" THEN {Inner(<<"ethsigner">>, <<"besu">>, 8545)} ELSE {}

(* CreateQuorumEntrypoint: every node but the first asks the first who to  *)
(* connect to, and each asks its own Tessera.                              *)
QuorumEntrypoint(s, i) ==
  (IF i # 0 THEN {Inner(<<"quorum", i>>, <<"quorum", 0>>, 8545)} ELSE {})
  \cup (IF s.ptm = "tessera"
        THEN {Inner(<<"quorum", i>>, <<"tessera", i>>, 9080),
              Inner(<<"quorum", i>>, <<"tessera", i>>, 9101)} ELSE {})

(* CreateTesseraEntrypoint: the peers are all of them, itself included.    *)
TesseraEntrypoint(s, i) == {Inner(<<"tessera", i>>, <<"tessera", j>>, 9000) : j \in Index(s)}

NodeConfig(s, i) ==
  IF s.node # "quorum" THEN {}
  ELSE QuorumEntrypoint(s, i)
       \cup (IF s.ptm = "tessera" THEN TesseraEntrypoint(s, i) ELSE {})

(* ETHCONNECT_URL in the environment of a token service.                   *)
TokensEnvironment(s, i) ==
  {Inner(<<"tokens", i, t>>, <<s.connector, i>>, ConnectorPort(s)) : t \in 0 .. s.tokens - 1}

(* The sandbox and Prometheus ask docker for the core of every member, the *)
(* external ones included.                                                 *)
SandboxEnvironment(s, i) ==
  IF s.sandbox THEN {Inner(<<"sandbox", i>>, Core(i), MemberPorts(s, i).firefly)} ELSE {}

GeneratePrometheusConfig(s) ==
  IF ~s.prometheus THEN {}
  ELSE {Inner(<<"prometheus">>, Core(i), MemberPorts(s, i).metrics) : i \in Index(s)}
       \cup (IF s.connector = "evmconnect"
             THEN {Inner(<<"prometheus">>, <<"evmconnect", i>>,
                         MemberPorts(s, i).connectorMetrics) : i \in Index(s)}
             ELSE {})

WriteConfig(s) ==
  SignerConfig(s) \cup GeneratePrometheusConfig(s)
  \cup UNION {FireflyConfig(s, i) \cup ConnectorConfig(s, i) \cup NodeConfig(s, i)
              \cup TokensEnvironment(s, i) \cup SandboxEnvironment(s, i) : i \in Index(s)}

-----------------------------------------------------------------------------
(* Who answers at an address when every service of a file runs.            *)
Reached(file, address) ==
  IF address.host
  THEN UNION {{<<d.name, p.container>> : p \in {q \in d.ports : q.host = address.port}} :
                d \in file}
  ELSE {<<d.name, address.port>> :
          d \in {e \in file : /\ e.name = address.service
                              /\ \/ address.port \in e.unpublished
                                 \/ \E p \in e.ports : p.container = address.port}}

(* The addresses of an external core that are asked for inside docker.     *)
OfAnExternalCore(s, e) == \E i \in Index(s) : External(s, i) /\ ~e.at.host /\ e.at.service = Core(i)

(* The nodes of a Quorum network have ports among the first member's.      *)
OnAQuorumPort(s, e) == e.at.host /\ e.at.port \in QuorumPorts(s)

=============================================================================
