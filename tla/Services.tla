------------------------------- MODULE Services -------------------------------
(***************************************************************************)
(* The files `ff init` generates for a stack: the services of              *)
(* docker-compose.yml (internal/docker/docker_config.go and the service    *)
(* definitions of the providers, connectors and token providers), and the  *)
(* addresses that the configuration files of the services name.            *)
(*                                                                         *)
(* A service is a record: its name, the host ports it publishes with the   *)
(* container ports behind them, the container ports it listens on without  *)
(* publishing them, the named volumes it mounts, those among them whose    *)
(* content its command cannot do without, the volumes its definition       *)
(* lists, whether it has a health check, and what it depends on.           *)
(***************************************************************************)
EXTENDS Ports, Sequences, FiniteSets

Published(host, container) == [host |-> host, container |-> container]
Started(name) == [on |-> name, condition |-> "service_started"]
Healthy(name) == [on |-> name, condition |-> "service_healthy"]

(* A service with nothing but its name: a definition adds to it.           *)
Bare(name) ==
  [name |-> name, ports |-> {}, unpublished |-> {}, mounts |-> {}, needs |-> {},
   listed |-> {}, healthcheck |-> FALSE, depends |-> {}]

-----------------------------------------------------------------------------
(* CreateDockerCompose.  What it mounts it also declares.                  *)

CoreService(s, i) ==
  [Bare(<<"firefly_core", i>>) EXCEPT
     !.ports = {Published(MemberPorts(s, i).firefly, MemberPorts(s, i).firefly),
                Published(MemberPorts(s, i).spi, MemberPorts(s, i).spi)},
     !.unpublished = IF s.prometheus THEN {MemberPorts(s, i).metrics} ELSE {},
     !.mounts = {<<"firefly_core_data", i>>},
     !.listed = {<<"firefly_core_data", i>>},
     !.healthcheck = TRUE,
     !.depends = {Started(<<"dataexchange", i>>), Healthy(<<"ipfs", i>>)}
                   \cup (IF s.postgres THEN {Healthy(<<"postgres", i>>)} ELSE {})]

PostgresService(s, i) ==
  [Bare(<<"postgres", i>>) EXCEPT
     !.ports = {Published(MemberPorts(s, i).database, 5432)},
     !.mounts = {<<"postgres", i>>},
     !.listed = {<<"postgres", i>>},
     !.healthcheck = TRUE]

IPFSService(s, i) ==
  [Bare(<<"ipfs", i>>) EXCEPT
     !.ports = {Published(MemberPorts(s, i).ipfsApi, 5001),
                Published(MemberPorts(s, i).ipfsGateway, 8080)},
     !.mounts = {<<"ipfs_staging", i>>, <<"ipfs_data", i>>},
     !.listed = {<<"ipfs_staging", i>>, <<"ipfs_data", i>>},
     !.healthcheck = TRUE]

DataExchangeService(s, i) ==
  [Bare(<<"dataexchange", i>>) EXCEPT
     !.ports = {Published(MemberPorts(s, i).dataexchange, 3000)},
     !.mounts = {<<"dataexchange", i>>},
     !.needs = {<<"dataexchange", i>>},
     !.listed = {<<"dataexchange", i>>}]

SandboxService(s, i) ==
  [Bare(<<"sandbox", i>>) EXCEPT
     !.ports = {Published(MemberPorts(s, i).sandbox, 3001)}]

PrometheusService ==
  [Bare(<<"prometheus">>) EXCEPT
     !.ports = {Published(PrometheusPort, 9090)},
     !.mounts = {<<"prometheus_data">>, <<"prometheus_config">>},
     !.needs = {<<"prometheus_config">>},
     !.listed = {<<"prometheus_data">>, <<"prometheus_config">>}]

CreateDockerCompose(s) ==
  {CoreService(s, i) : i \in {j \in Index(s) : ~External(s, j)}}
  \cup (IF s.postgres THEN {PostgresService(s, i) : i \in Index(s)} ELSE {})
  \cup {IPFSService(s, i) : i \in Index(s)}
  \cup {DataExchangeService(s, i) : i \in Index(s)}
  \cup (IF s.sandbox THEN {SandboxService(s, i) : i \in Index(s)} ELSE {})
  \cup (IF s.prometheus THEN {PrometheusService} ELSE {})

-----------------------------------------------------------------------------
(* The connectors: one service for each member, each with what the         *)
(* provider makes it depend on.                                            *)

EthconnectService(s, i, dependencies) ==
  [Bare(<<"ethconnect", i>>) EXCEPT
     !.ports = {Published(MemberPorts(s, i).connector, 8080)},
     !.mounts = {<<"ethconnect_config", i>>, <<"ethconnect_data", i>>},
     !.needs = {<<"ethconnect_config", i>>, <<"ethconnect_data", i>>},
     !.listed = {<<"ethconnect_config", i>>, <<"ethconnect_data", i>>},
     !.depends = dependencies]

(* evmconnect and tezosconnect take their configuration from runtime/.     *)
EvmconnectService(s, i, dependencies) ==
  [Bare(<<"evmconnect", i>>) EXCEPT
     !.ports = {Published(MemberPorts(s, i).connector, 5008)},
     !.unpublished = IF s.prometheus THEN {MemberPorts(s, i).connectorMetrics} ELSE {},
     !.mounts = {<<"evmconnect_data", i>>},
     !.needs = {<<"evmconnect_data", i>>},
     !.listed = {<<"evmconnect_data", i>>},
     !.depends = dependencies]

TezosconnectService(s, i, dependencies) ==
  [Bare(<<"tezosconnect", i>>) EXCEPT
     !.ports = {Published(MemberPorts(s, i).connector, 5008)},
     !.unpublished = IF s.prometheus THEN {MemberPorts(s, i).connectorMetrics} ELSE {},
     !.mounts = {<<"tezosconnect_data", i>>},
     !.listed = {<<"tezosconnect_data", i>>},
     !.depends = dependencies]

Connectors(s, dependencies) ==
  CASE s.connector = "ethconnect"   -> {EthconnectService(s, i, dependencies) : i \in Index(s)}
    [] s.connector = "evmconnect"   -> {EvmconnectService(s, i, dependencies) : i \in Index(s)}
    [] s.connector = "tezosconnect" -> {TezosconnectService(s, i, dependencies) : i \in Index(s)}

-----------------------------------------------------------------------------
(* The providers' own services.                                            *)

GethService ==
  [Bare(<<"geth">>) EXCEPT
     !.ports = {Published(BlockchainPort, 8545)},
     !.mounts = {<<"geth">>},
     !.needs = {<<"geth">>},
     !.listed = {<<"geth">>}]

GethServices(s) == {GethService} \cup Connectors(s, {Started(<<"geth">>)})

BesuService ==
  [Bare(<<"besu">>) EXCEPT
     !.unpublished = {8545},
     !.mounts = {<<"besu">>},
     !.needs = {<<"besu">>},
     !.listed = {<<"besu">>}]

EthSignerService ==
  [Bare(<<"ethsigner">>) EXCEPT
     !.ports = {Published(BlockchainPort, 8545)},
     !.mounts = {<<"ethsigner">>, <<"ethsigner_config">>},
     !.needs = {<<"ethsigner">>, <<"ethsigner_config">>},
     !.listed = {<<"ethsigner">>, <<"ethsigner_config">>},
     !.healthcheck = TRUE]

BesuServices(s) ==
  {BesuService, EthSignerService} \cup Connectors(s, {Healthy(<<"ethsigner">>)})

RemoteRPCServices(s) ==
  {EthSignerService} \cup Connectors(s, {Healthy(<<"ethsigner">>)})

TezosSignerService ==
  [Bare(<<"tezossigner">>) EXCEPT
     !.ports = {Published(BlockchainPort, 6732), Published(9583, 9583)},
     !.mounts = {<<"tezossigner">>, <<"tezossigner_config">>},
     !.needs = {<<"tezossigner_config">>},
     !.listed = {<<"tezossigner">>, <<"tezossigner_config">>},
     !.healthcheck = TRUE]

TezosServices(s) ==
  {TezosSignerService} \cup Connectors(s, {Healthy(<<"tezossigner">>)})

\* MUTANT: the node waits for its Tessera, which waits for the node.
TesseraServiceAfterNode(i) ==
  [Bare(<<"tessera", i>>) EXCEPT
     !.ports = {Published(TesseraPort(i), 9080)},
     !.unpublished = {9101, 9000},
     !.mounts = {<<"tessera", i>>},
     !.needs = {<<"tessera", i>>},
     !.listed = {<<"tessera", i>>},
     !.healthcheck = TRUE,
     !.depends = {Started(<<"quorum", i>>)}]

(* 9080 is Tessera's third-party API, 9101 the one its Quorum node uses,   *)
(* 9000 the one other Tesseras use.                                        *)
TesseraService(i) ==
  [Bare(<<"tessera", i>>) EXCEPT
     !.ports = {Published(TesseraPort(i), 9080)},
     !.unpublished = {9101, 9000},
     !.mounts = {<<"tessera", i>>},
     !.needs = {<<"tessera", i>>},
     !.listed = {<<"tessera", i>>},
     !.healthcheck = TRUE]

QuorumService(s, i) ==
  [Bare(<<"quorum", i>>) EXCEPT
     !.ports = {Published(QuorumPort(i), 8545)},
     !.mounts = {<<"quorum", i>>},
     !.needs = {<<"quorum", i>>},
     !.listed = {<<"quorum", i>>},
     !.depends = IF s.ptm = "tessera" THEN {Healthy(<<"tessera", i>>)} ELSE {}]

QuorumServices(s) ==
  {QuorumService(s, i) : i \in Index(s)}
  \cup (IF s.ptm = "tessera" THEN {TesseraService(i) : i \in Index(s)} ELSE {})
  \cup Connectors(s, {Started(<<"quorum", i>>) : i \in Index(s)})

(* Fabric's own services have fixed host ports, and the CA lists a volume  *)
(* it does not mount; the volume they share is listed by the connectors.   *)
FabricCAService ==
  [Bare(<<"fabric_ca">>) EXCEPT
     !.ports = {Published(7054, 7054), Published(17054, 17054)},
     !.mounts = {<<"firefly_fabric">>},
     !.needs = {<<"firefly_fabric">>},
     !.listed = {<<"fabric_ca">>}]

FabricOrdererService ==
  [Bare(<<"fabric_orderer">>) EXCEPT
     !.ports = {Published(7050, 7050), Published(7053, 7053), Published(17050, 17050)},
     !.mounts = {<<"firefly_fabric">>, <<"fabric_orderer">>},
     !.needs = {<<"firefly_fabric">>},
     !.listed = {<<"fabric_orderer">>}]

FabricPeerService ==
  [Bare(<<"fabric_peer">>) EXCEPT
     !.ports = {Published(7051, 7051), Published(17051, 17051)},
     !.mounts = {<<"firefly_fabric">>, <<"fabric_peer">>},
     !.needs = {<<"firefly_fabric">>},
     !.listed = {<<"fabric_peer">>}]

\* MUTANT: the volume the local Fabric services share is not listed.
FabconnectServiceUnlisted(s, i) ==
  [Bare(<<"fabconnect", i>>) EXCEPT
     !.ports = {Published(MemberPorts(s, i).connector, 3000)},
     !.mounts = {<<"fabconnect_receipts", i>>, <<"fabconnect_events", i>>, <<"firefly_fabric">>},
     !.needs = {<<"firefly_fabric">>},
     !.listed = {<<"fabconnect_receipts", i>>, <<"fabconnect_events", i>>},
     !.healthcheck = TRUE,
     !.depends = {Started(<<"fabric_ca">>), Started(<<"fabric_peer">>),
                  Started(<<"fabric_orderer">>)}]

FabconnectService(s, i) ==
  LET local == s.node = "fabric"
      own   == {<<"fabconnect_receipts", i>>, <<"fabconnect_events", i>>}
      all   == own \cup (IF local THEN {<<"firefly_fabric">>} ELSE {})
  IN  [Bare(<<"fabconnect", i>>) EXCEPT
         !.ports = {Published(MemberPorts(s, i).connector, 3000)},
         !.mounts = all,
         !.needs = all \ own,
         !.listed = all,
         !.healthcheck = TRUE,
         !.depends = IF local
                     THEN {Started(<<"fabric_ca">>), Started(<<"fabric_peer">>),
                           Started(<<"fabric_orderer">>)}
                     ELSE {}]

FabricServices(s) ==
  (IF s.node = "fabric"
   THEN {FabricCAService, FabricOrdererService, FabricPeerService} ELSE {})
  \cup {FabconnectService(s, i) : i \in Index(s)}

(* getBlockchainProvider and GetDockerServiceDefinitions.                  *)
ProviderServices(s) ==
  CASE s.node = "geth"   -> GethServices(s)
    [] s.node = "besu"   -> BesuServices(s)
    [] s.node = "quorum" -> QuorumServices(s)
    [] s.node = "remote-rpc" -> RemoteRPCServices(s)
    [] s.node = "tezos"  -> TezosServices(s)
    [] s.node \in {"fabric", "remote-fabric"} -> FabricServices(s)

\* MUTANT: the token service waits for its core, which waits for it.
TokensServiceAfterCore(s, i, t) ==
  [Bare(<<"tokens", i, t>>) EXCEPT
     !.ports = {Published(TokensPort(s, i, t), 3000)},
     !.healthcheck = TRUE,
     !.depends = {Started(<<s.connector, i>>), Started(<<"firefly_core", i>>)}]

TokensService(s, i, t) ==
  [Bare(<<"tokens", i, t>>) EXCEPT
     !.ports = {Published(TokensPort(s, i, t), 3000)},
     !.healthcheck = TRUE,
     !.depends = {Started(<<s.connector, i>>)}]

TokensServices(s) ==
  {TokensService(s, it[1], it[2]) : it \in Index(s) \X (0 .. s.tokens - 1)}

-----------------------------------------------------------------------------
(* buildDockerCompose: every core also waits for every extra service, its  *)
(* own member's and the others'.                                           *)

Condition(d) == IF d.healthcheck THEN Healthy(d.name) ELSE Started(d.name)

\* MUTANT: the cores wait for the services of the provider only.
BuildDockerComposeWithoutTokens(s) ==
  LET extra == ProviderServices(s)
      Wait(d) == IF d.name[1] = "firefly_core"
                 THEN [d EXCEPT !.depends = @ \cup {Condition(e) : e \in extra}] ELSE d
  IN  {Wait(d) : d \in CreateDockerCompose(s)} \cup extra \cup TokensServices(s)

BuildDockerCompose(s) ==
  LET extra == ProviderServices(s) \cup TokensServices(s)
      Wait(d) == IF d.name[1] = "firefly_core"
                 THEN [d EXCEPT !.depends = @ \cup {Condition(e) : e \in extra}] ELSE d
  IN  {Wait(d) : d \in CreateDockerCompose(s)} \cup extra

=============================================================================
