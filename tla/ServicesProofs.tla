---------------------------- MODULE ServicesProofs ----------------------------
(***************************************************************************)
(* What is in the docker-compose.yml of a stack, for every stack that      *)
(* `ff init` accepts: lemmas about BuildDockerCompose, WriteConfig and the *)
(* ports, none of which changes once the files are written.  ComposeProofs *)
(* uses them for what happens when docker starts the services.             *)
(*                                                                         *)
(* IsService spells out the services of a file; the lemmas after it go     *)
(* through them one after the other.                                       *)
(***************************************************************************)
EXTENDS Compose, TLAPS

WellFormed(s) == s \in InitOptions /\ Validated(s)

(* What the connectors of a stack wait for.                                *)
Dependencies(s) ==
  CASE s.node = "geth"  -> {Started(<<"geth">>)}
    [] s.node \in {"besu", "remote-rpc"} -> {Healthy(<<"ethsigner">>)}
    [] s.node = "tezos" -> {Healthy(<<"tezossigner">>)}
    [] s.node = "quorum" -> {Started(<<"quorum", i>>) : i \in Index(s)}
    [] OTHER -> {}

IsConnector(s, d) ==
  \E i \in Index(s) :
    \/ s.connector = "ethconnect" /\ d = EthconnectService(s, i, Dependencies(s))
    \/ s.connector = "evmconnect" /\ d = EvmconnectService(s, i, Dependencies(s))
    \/ s.connector = "tezosconnect" /\ d = TezosconnectService(s, i, Dependencies(s))
    \/ s.connector = "fabconnect" /\ d = FabconnectService(s, i)

IsNode(s, d) ==
  \/ s.node = "geth" /\ d = GethService
  \/ s.node = "besu" /\ d = BesuService
  \/ s.node \in {"besu", "remote-rpc"} /\ d = EthSignerService
  \/ s.node = "tezos" /\ d = TezosSignerService
  \/ s.node = "quorum" /\ \E i \in Index(s) : d = QuorumService(s, i)
  \/ s.ptm = "tessera" /\ \E i \in Index(s) : d = TesseraService(i)
  \/ s.node = "fabric" /\ d \in {FabricCAService, FabricOrdererService, FabricPeerService}

IsTokens(s, d) == \E i \in Index(s), t \in 0 .. s.tokens - 1 : d = TokensService(s, i, t)

Extra(s) == ProviderServices(s) \cup TokensServices(s)

WaitingCore(s, i) ==
  [CoreService(s, i) EXCEPT !.depends = @ \cup {Condition(e) : e \in Extra(s)}]

(* The services of CreateDockerCompose but for the cores.                  *)
IsOwn(s, d) ==
  \/ s.postgres /\ \E i \in Index(s) : d = PostgresService(s, i)
  \/ \E i \in Index(s) : d = IPFSService(s, i) \/ d = DataExchangeService(s, i)
  \/ s.sandbox /\ \E i \in Index(s) : d = SandboxService(s, i)
  \/ s.prometheus /\ d = PrometheusService

IsCore(s, d) == \E i \in Index(s) : ~External(s, i) /\ d = WaitingCore(s, i)

IsService(s, d) ==
  IsCore(s, d) \/ IsOwn(s, d) \/ IsConnector(s, d) \/ IsNode(s, d) \/ IsTokens(s, d)

-----------------------------------------------------------------------------

(* The services GetDockerServiceDefinitions adds are the connector's, the  *)
(* node's and the tokens'.                                                 *)
LEMMA ExtraServices ==
  ASSUME NEW s, WellFormed(s), NEW d
  PROVE  d \in Extra(s) <=> IsConnector(s, d) \/ IsNode(s, d) \/ IsTokens(s, d)
<1>1. d \in TokensServices(s) <=> IsTokens(s, d)
  <2>1. ASSUME NEW i \in Index(s), NEW t \in 0 .. s.tokens - 1
        PROVE  TokensService(s, i, t) \in TokensServices(s)
    <3>1. <<i, t>> \in Index(s) \X (0 .. s.tokens - 1)
      OBVIOUS
    <3> QED
      BY <3>1 DEF TokensServices
  <2>2. ASSUME d \in TokensServices(s) PROVE IsTokens(s, d)
    BY <2>2 DEF TokensServices, IsTokens
  <2> QED
    BY <2>1, <2>2 DEF IsTokens
<1>2. d \in ProviderServices(s) <=> IsConnector(s, d) \/ IsNode(s, d)
  <2> USE DEF WellFormed, Validated, InitOptions, IsConnector, IsNode, Dependencies,
              ProviderServices, Connectors
  <2>1. CASE s.node = "geth"
    BY <2>1 DEF GethServices
  <2>2. CASE s.node = "besu"
    BY <2>2 DEF BesuServices
  <2>3. CASE s.node = "remote-rpc"
    BY <2>3 DEF RemoteRPCServices
  <2>4. CASE s.node = "tezos"
    BY <2>4 DEF TezosServices
  <2>5. CASE s.node = "quorum"
    BY <2>5 DEF QuorumServices
  <2>6. CASE s.node \in {"fabric", "remote-fabric"}
    BY <2>6 DEF FabricServices
  <2> QED
    BY <2>1, <2>2, <2>3, <2>4, <2>5, <2>6
<1> QED
  BY <1>1, <1>2 DEF Extra

(* docker-compose.yml has just the services that IsService names.          *)
LEMMA FileServices ==
  ASSUME NEW s, WellFormed(s), NEW d
  PROVE  d \in BuildDockerCompose(s) <=> IsService(s, d)
<1> DEFINE Wait(e) == IF e.name[1] = "firefly_core"
                      THEN [e EXCEPT !.depends = @ \cup {Condition(x) : x \in Extra(s)}] ELSE e
<1>1. BuildDockerCompose(s) = {Wait(e) : e \in CreateDockerCompose(s)} \cup Extra(s)
  BY DEF BuildDockerCompose, Extra
<1>2. ASSUME NEW i PROVE Wait(CoreService(s, i)) = WaitingCore(s, i)
  <2>1. CoreService(s, i).name[1] = "firefly_core"
    BY DEF CoreService, Bare
  <2> QED
    BY <2>1 DEF WaitingCore
<1>3. ASSUME NEW i
      PROVE  /\ Wait(PostgresService(s, i)) = PostgresService(s, i)
             /\ Wait(IPFSService(s, i)) = IPFSService(s, i)
             /\ Wait(DataExchangeService(s, i)) = DataExchangeService(s, i)
             /\ Wait(SandboxService(s, i)) = SandboxService(s, i)
             /\ Wait(PrometheusService) = PrometheusService
  BY DEF PostgresService, IPFSService, DataExchangeService, SandboxService, PrometheusService,
         Bare
<1>4. d \in {Wait(e) : e \in CreateDockerCompose(s)} <=> IsCore(s, d) \/ IsOwn(s, d)
  <2> HIDE DEF Wait
  <2> QED
    BY <1>2, <1>3 DEF CreateDockerCompose, IsCore, IsOwn
<1> QED
  BY <1>1, <1>4, ExtraServices DEF IsService

-----------------------------------------------------------------------------
(* One name, one service.                                                  *)

ServiceNamed(s, n) ==
  CASE n[1] = "firefly_core" -> WaitingCore(s, n[2])
    [] n[1] = "postgres"     -> PostgresService(s, n[2])
    [] n[1] = "ipfs"         -> IPFSService(s, n[2])
    [] n[1] = "dataexchange" -> DataExchangeService(s, n[2])
    [] n[1] = "sandbox"      -> SandboxService(s, n[2])
    [] n[1] = "prometheus"   -> PrometheusService
    [] n[1] = "ethconnect"   -> EthconnectService(s, n[2], Dependencies(s))
    [] n[1] = "evmconnect"   -> EvmconnectService(s, n[2], Dependencies(s))
    [] n[1] = "tezosconnect" -> TezosconnectService(s, n[2], Dependencies(s))
    [] n[1] = "fabconnect"   -> FabconnectService(s, n[2])
    [] n[1] = "geth"         -> GethService
    [] n[1] = "besu"         -> BesuService
    [] n[1] = "ethsigner"    -> EthSignerService
    [] n[1] = "tezossigner"  -> TezosSignerService
    [] n[1] = "quorum"       -> QuorumService(s, n[2])
    [] n[1] = "tessera"      -> TesseraService(n[2])
    [] n[1] = "fabric_ca"      -> FabricCAService
    [] n[1] = "fabric_orderer" -> FabricOrdererService
    [] n[1] = "fabric_peer"    -> FabricPeerService
    [] n[1] = "tokens"       -> TokensService(s, n[2], n[3])

(* A service of the file is the one its name stands for.                   *)
LEMMA NameOfService ==
  ASSUME NEW s, WellFormed(s), NEW d \in BuildDockerCompose(s)
  PROVE  d = ServiceNamed(s, d.name)
<1>1. IsService(s, d)
  BY FileServices
<1>2. CASE IsCore(s, d)
  <2>1. PICK i \in Index(s) : d = WaitingCore(s, i)
    BY <1>2 DEF IsCore
  <2>2. d.name = <<"firefly_core", i>>
    BY <2>1 DEF WaitingCore, CoreService, Bare
  <2> QED
    BY <2>1, <2>2 DEF ServiceNamed
<1>3. CASE IsOwn(s, d)
  <2>1. ASSUME NEW i \in Index(s), s.postgres, d = PostgresService(s, i)
        PROVE  d = ServiceNamed(s, d.name)
    <3>1. d.name = <<"postgres", i>>
      BY <2>1 DEF PostgresService, Bare
    <3> QED
      BY <2>1, <3>1 DEF ServiceNamed
  <2>2. ASSUME NEW i \in Index(s), d = IPFSService(s, i)
        PROVE  d = ServiceNamed(s, d.name)
    <3>1. d.name = <<"ipfs", i>>
      BY <2>2 DEF IPFSService, Bare
    <3> QED
      BY <2>2, <3>1 DEF ServiceNamed
  <2>3. ASSUME NEW i \in Index(s), d = DataExchangeService(s, i)
        PROVE  d = ServiceNamed(s, d.name)
    <3>1. d.name = <<"dataexchange", i>>
      BY <2>3 DEF DataExchangeService, Bare
    <3> QED
      BY <2>3, <3>1 DEF ServiceNamed
  <2>4. ASSUME NEW i \in Index(s), s.sandbox, d = SandboxService(s, i)
        PROVE  d = ServiceNamed(s, d.name)
    <3>1. d.name = <<"sandbox", i>>
      BY <2>4 DEF SandboxService, Bare
    <3> QED
      BY <2>4, <3>1 DEF ServiceNamed
  <2>5. ASSUME s.prometheus, d = PrometheusService PROVE d = ServiceNamed(s, d.name)
    <3>1. d.name = <<"prometheus">>
      BY <2>5 DEF PrometheusService, Bare
    <3> QED
      BY <2>5, <3>1 DEF ServiceNamed
  <2> QED
    BY <1>3, <2>1, <2>2, <2>3, <2>4, <2>5 DEF IsOwn
<1>4. CASE IsConnector(s, d)
  <2>1. ASSUME NEW i \in Index(s), s.connector = "ethconnect",
               d = EthconnectService(s, i, Dependencies(s))
        PROVE  d = ServiceNamed(s, d.name)
    <3>1. d.name = <<"ethconnect", i>>
      BY <2>1 DEF EthconnectService, Bare
    <3> QED
      BY <2>1, <3>1 DEF ServiceNamed
  <2>2. ASSUME NEW i \in Index(s), s.connector = "evmconnect",
               d = EvmconnectService(s, i, Dependencies(s))
        PROVE  d = ServiceNamed(s, d.name)
    <3>1. d.name = <<"evmconnect", i>>
      BY <2>2 DEF EvmconnectService, Bare
    <3> QED
      BY <2>2, <3>1 DEF ServiceNamed
  <2>3. ASSUME NEW i \in Index(s), s.connector = "tezosconnect",
               d = TezosconnectService(s, i, Dependencies(s))
        PROVE  d = ServiceNamed(s, d.name)
    <3>1. d.name = <<"tezosconnect", i>>
      BY <2>3 DEF TezosconnectService, Bare
    <3> QED
      BY <2>3, <3>1 DEF ServiceNamed
  <2>4. ASSUME NEW i \in Index(s), s.connector = "fabconnect",
               d = FabconnectService(s, i)
        PROVE  d = ServiceNamed(s, d.name)
    <3>1. d.name = <<"fabconnect", i>>
      BY <2>4 DEF FabconnectService, Bare
    <3> QED
      BY <2>4, <3>1 DEF ServiceNamed
  <2> QED
    BY <1>4, <2>1, <2>2, <2>3, <2>4 DEF IsConnector
<1>5. CASE IsNode(s, d)
  <2>1. ASSUME s.node = "geth", d = GethService PROVE d = ServiceNamed(s, d.name)
    <3>1. d.name = <<"geth">>
      BY <2>1 DEF GethService, Bare
    <3> QED
      BY <2>1, <3>1 DEF ServiceNamed
  <2>2. ASSUME s.node = "besu", d = BesuService PROVE d = ServiceNamed(s, d.name)
    <3>1. d.name = <<"besu">>
      BY <2>2 DEF BesuService, Bare
    <3> QED
      BY <2>2, <3>1 DEF ServiceNamed
  <2>3. ASSUME s.node \in {"besu", "remote-rpc"}, d = EthSignerService
        PROVE  d = ServiceNamed(s, d.name)
    <3>1. d.name = <<"ethsigner">>
      BY <2>3 DEF EthSignerService, Bare
    <3> QED
      BY <2>3, <3>1 DEF ServiceNamed
  <2>4. ASSUME s.node = "tezos", d = TezosSignerService
        PROVE  d = ServiceNamed(s, d.name)
    <3>1. d.name = <<"tezossigner">>
      BY <2>4 DEF TezosSignerService, Bare
    <3> QED
      BY <2>4, <3>1 DEF ServiceNamed
  <2>5. ASSUME NEW i \in Index(s), s.node = "quorum", d = QuorumService(s, i)
        PROVE  d = ServiceNamed(s, d.name)
    <3>1. d.name = <<"quorum", i>>
      BY <2>5 DEF QuorumService, Bare
    <3> QED
      BY <2>5, <3>1 DEF ServiceNamed
  <2>6. ASSUME NEW i \in Index(s), s.ptm = "tessera", d = TesseraService(i)
        PROVE  d = ServiceNamed(s, d.name)
    <3>1. d.name = <<"tessera", i>>
      BY <2>6 DEF TesseraService, Bare
    <3> QED
      BY <2>6, <3>1 DEF ServiceNamed
  <2>7. ASSUME s.node = "fabric", d = FabricCAService PROVE d = ServiceNamed(s, d.name)
    <3>1. d.name = <<"fabric_ca">>
      BY <2>7 DEF FabricCAService, Bare
    <3> QED
      BY <2>7, <3>1 DEF ServiceNamed
  <2>8. ASSUME s.node = "fabric", d = FabricOrdererService
        PROVE  d = ServiceNamed(s, d.name)
    <3>1. d.name = <<"fabric_orderer">>
      BY <2>8 DEF FabricOrdererService, Bare
    <3> QED
      BY <2>8, <3>1 DEF ServiceNamed
  <2>9. ASSUME s.node = "fabric", d = FabricPeerService
        PROVE  d = ServiceNamed(s, d.name)
    <3>1. d.name = <<"fabric_peer">>
      BY <2>9 DEF FabricPeerService, Bare
    <3> QED
      BY <2>9, <3>1 DEF ServiceNamed
  <2> QED
    BY <1>5, <2>1, <2>2, <2>3, <2>4, <2>5, <2>6, <2>7, <2>8, <2>9 DEF IsNode
<1>6. CASE IsTokens(s, d)
  BY <1>6 DEF IsTokens, ServiceNamed, TokensService, Bare
<1> QED
  BY <1>1, <1>2, <1>3, <1>4, <1>5, <1>6 DEF IsService

(* No two services of the file have one name.                              *)
LEMMA NamesAreDistinct ==
  ASSUME NEW s, WellFormed(s), NEW d \in BuildDockerCompose(s),
         NEW e \in BuildDockerCompose(s), d.name = e.name
  PROVE  d = e
BY NameOfService

-----------------------------------------------------------------------------
(* Volumes.                                                                *)

(* What a service cannot do without is filled by the first-time setup.     *)
LEMMA NeedsAreSetUp ==
  ASSUME NEW s, WellFormed(s), NEW d \in BuildDockerCompose(s)
  PROVE  d.needs \subseteq SetupFills(s)
<1>1. IsService(s, d)
  BY FileServices
<1>2. CASE IsCore(s, d)
  BY <1>2 DEF IsCore, WaitingCore, CoreService, Bare
<1>3. CASE IsOwn(s, d)
  <2>1. ASSUME NEW i \in Index(s), s.postgres, d = PostgresService(s, i)
        PROVE  d.needs \subseteq SetupFills(s)
    BY <2>1 DEF PostgresService, Bare
  <2>2. ASSUME NEW i \in Index(s), d = IPFSService(s, i)
        PROVE  d.needs \subseteq SetupFills(s)
    BY <2>2 DEF IPFSService, Bare
  <2>3. ASSUME NEW i \in Index(s), d = DataExchangeService(s, i)
        PROVE  d.needs \subseteq SetupFills(s)
    BY <2>3 DEF DataExchangeService, Bare, SetupFills
  <2>4. ASSUME NEW i \in Index(s), s.sandbox, d = SandboxService(s, i)
        PROVE  d.needs \subseteq SetupFills(s)
    BY <2>4 DEF SandboxService, Bare
  <2>5. ASSUME s.prometheus, d = PrometheusService PROVE d.needs \subseteq SetupFills(s)
    BY <2>5 DEF PrometheusService, Bare, SetupFills
  <2> QED
    BY <1>3, <2>1, <2>2, <2>3, <2>4, <2>5 DEF IsOwn
<1>4. CASE IsConnector(s, d)
  <2>1. ASSUME NEW i \in Index(s), s.connector = "ethconnect",
               d = EthconnectService(s, i, Dependencies(s))
        PROVE  d.needs \subseteq SetupFills(s)
    BY <2>1 DEF EthconnectService, Bare, SetupFills, FirstTimeSetup, ConnectorSetup
  <2>2. ASSUME NEW i \in Index(s), s.connector = "evmconnect",
               d = EvmconnectService(s, i, Dependencies(s))
        PROVE  d.needs \subseteq SetupFills(s)
    BY <2>2 DEF EvmconnectService, Bare, SetupFills, FirstTimeSetup, ConnectorSetup
  <2>3. ASSUME NEW i \in Index(s), s.connector = "tezosconnect",
               d = TezosconnectService(s, i, Dependencies(s))
        PROVE  d.needs \subseteq SetupFills(s)
    BY <2>3 DEF TezosconnectService, Bare
  <2>4. ASSUME NEW i \in Index(s), s.connector = "fabconnect",
               d = FabconnectService(s, i)
        PROVE  d.needs \subseteq SetupFills(s)
    BY <2>4 DEF FabconnectService, Bare, SetupFills, FirstTimeSetup
  <2> QED
    BY <1>4, <2>1, <2>2, <2>3, <2>4 DEF IsConnector
<1>5. CASE IsNode(s, d)
  <2>1. ASSUME s.node = "geth", d = GethService PROVE d.needs \subseteq SetupFills(s)
    BY <2>1 DEF GethService, Bare, SetupFills, FirstTimeSetup
  <2>2. ASSUME s.node = "besu", d = BesuService PROVE d.needs \subseteq SetupFills(s)
    BY <2>2 DEF BesuService, Bare, SetupFills, FirstTimeSetup
  <2>3. ASSUME s.node \in {"besu", "remote-rpc"}, d = EthSignerService
        PROVE  d.needs \subseteq SetupFills(s)
    BY <2>3 DEF EthSignerService, Bare, SetupFills, FirstTimeSetup, SignerSetup
  <2>4. ASSUME s.node = "tezos", d = TezosSignerService
        PROVE  d.needs \subseteq SetupFills(s)
    BY <2>4 DEF TezosSignerService, Bare, SetupFills, FirstTimeSetup
  <2>5. ASSUME NEW i \in Index(s), s.node = "quorum", d = QuorumService(s, i)
        PROVE  d.needs \subseteq SetupFills(s)
    BY <2>5 DEF QuorumService, Bare, SetupFills, FirstTimeSetup, QuorumSetup
  <2>6. ASSUME NEW i \in Index(s), s.ptm = "tessera", d = TesseraService(i)
        PROVE  d.needs \subseteq SetupFills(s)
    BY <2>6
       DEF TesseraService, Bare, WellFormed, Validated, SetupFills, FirstTimeSetup,
           QuorumSetup
  <2>7. ASSUME s.node = "fabric", d = FabricCAService
        PROVE  d.needs \subseteq SetupFills(s)
    BY <2>7 DEF FabricCAService, Bare, SetupFills, FirstTimeSetup
  <2>8. ASSUME s.node = "fabric", d = FabricOrdererService
        PROVE  d.needs \subseteq SetupFills(s)
    BY <2>8 DEF FabricOrdererService, Bare, SetupFills, FirstTimeSetup
  <2>9. ASSUME s.node = "fabric", d = FabricPeerService
        PROVE  d.needs \subseteq SetupFills(s)
    BY <2>9 DEF FabricPeerService, Bare, SetupFills, FirstTimeSetup
  <2> QED
    BY <1>5, <2>1, <2>2, <2>3, <2>4, <2>5, <2>6, <2>7, <2>8, <2>9 DEF IsNode
<1>6. CASE IsTokens(s, d)
  BY <1>6 DEF IsTokens, TokensService, Bare
<1> QED
  BY <1>1, <1>2, <1>3, <1>4, <1>5, <1>6 DEF IsService

(* A volume that is mounted is listed.                                     *)
LEMMA MountsAreListed ==
  ASSUME NEW s, WellFormed(s), NEW d \in BuildDockerCompose(s)
  PROVE  d.mounts \subseteq UNION {e.listed : e \in BuildDockerCompose(s)}
<1> DEFINE Shared == IF s.node = "fabric" THEN {<<"firefly_fabric">>} ELSE {}
<1>2. ASSUME IsCore(s, d) PROVE d.mounts \subseteq d.listed \cup Shared
  <2>1. PICK i \in Index(s) : d = WaitingCore(s, i)
    BY <1>2 DEF IsCore
  <2> QED
    BY <2>1 DEF WaitingCore, CoreService, Bare
<1>3. ASSUME IsOwn(s, d) PROVE d.mounts \subseteq d.listed \cup Shared
  <2>1. ASSUME NEW i \in Index(s), s.postgres, d = PostgresService(s, i)
        PROVE  d.mounts \subseteq d.listed \cup Shared
    BY <2>1 DEF PostgresService, Bare
  <2>2. ASSUME NEW i \in Index(s), d = IPFSService(s, i)
        PROVE  d.mounts \subseteq d.listed \cup Shared
    BY <2>2 DEF IPFSService, Bare
  <2>3. ASSUME NEW i \in Index(s), d = DataExchangeService(s, i)
        PROVE  d.mounts \subseteq d.listed \cup Shared
    BY <2>3 DEF DataExchangeService, Bare
  <2>4. ASSUME NEW i \in Index(s), s.sandbox, d = SandboxService(s, i)
        PROVE  d.mounts \subseteq d.listed \cup Shared
    BY <2>4 DEF SandboxService, Bare
  <2>5. ASSUME s.prometheus, d = PrometheusService
        PROVE  d.mounts \subseteq d.listed \cup Shared
    BY <2>5 DEF PrometheusService, Bare
  <2> QED
    BY <1>3, <2>1, <2>2, <2>3, <2>4, <2>5 DEF IsOwn
<1>4. ASSUME IsConnector(s, d) PROVE d.mounts \subseteq d.listed \cup Shared
  <2>1. ASSUME NEW i \in Index(s), s.connector = "ethconnect",
               d = EthconnectService(s, i, Dependencies(s))
        PROVE  d.mounts \subseteq d.listed \cup Shared
    BY <2>1 DEF EthconnectService, Bare
  <2>2. ASSUME NEW i \in Index(s), s.connector = "evmconnect",
               d = EvmconnectService(s, i, Dependencies(s))
        PROVE  d.mounts \subseteq d.listed \cup Shared
    BY <2>2 DEF EvmconnectService, Bare
  <2>3. ASSUME NEW i \in Index(s), s.connector = "tezosconnect",
               d = TezosconnectService(s, i, Dependencies(s))
        PROVE  d.mounts \subseteq d.listed \cup Shared
    BY <2>3 DEF TezosconnectService, Bare
  <2>4. ASSUME NEW i \in Index(s), s.connector = "fabconnect",
               d = FabconnectService(s, i)
        PROVE  d.mounts \subseteq d.listed \cup Shared
    BY <2>4 DEF FabconnectService, Bare
  <2> QED
    BY <1>4, <2>1, <2>2, <2>3, <2>4 DEF IsConnector
<1>5. ASSUME IsNode(s, d) PROVE d.mounts \subseteq d.listed \cup Shared
  <2>1. ASSUME s.node = "geth", d = GethService
        PROVE  d.mounts \subseteq d.listed \cup Shared
    BY <2>1 DEF GethService, Bare
  <2>2. ASSUME s.node = "besu", d = BesuService
        PROVE  d.mounts \subseteq d.listed \cup Shared
    BY <2>2 DEF BesuService, Bare
  <2>3. ASSUME s.node \in {"besu", "remote-rpc"}, d = EthSignerService
        PROVE  d.mounts \subseteq d.listed \cup Shared
    BY <2>3 DEF EthSignerService, Bare
  <2>4. ASSUME s.node = "tezos", d = TezosSignerService
        PROVE  d.mounts \subseteq d.listed \cup Shared
    BY <2>4 DEF TezosSignerService, Bare
  <2>5. ASSUME NEW i \in Index(s), s.node = "quorum", d = QuorumService(s, i)
        PROVE  d.mounts \subseteq d.listed \cup Shared
    BY <2>5 DEF QuorumService, Bare
  <2>6. ASSUME NEW i \in Index(s), s.ptm = "tessera", d = TesseraService(i)
        PROVE  d.mounts \subseteq d.listed \cup Shared
    BY <2>6 DEF TesseraService, Bare
  <2>7. ASSUME s.node = "fabric", d = FabricCAService
        PROVE  d.mounts \subseteq d.listed \cup Shared
    BY <2>7 DEF FabricCAService, Bare
  <2>8. ASSUME s.node = "fabric", d = FabricOrdererService
        PROVE  d.mounts \subseteq d.listed \cup Shared
    BY <2>8 DEF FabricOrdererService, Bare
  <2>9. ASSUME s.node = "fabric", d = FabricPeerService
        PROVE  d.mounts \subseteq d.listed \cup Shared
    BY <2>9 DEF FabricPeerService, Bare
  <2> QED
    BY <1>5, <2>1, <2>2, <2>3, <2>4, <2>5, <2>6, <2>7, <2>8, <2>9 DEF IsNode
<1>6. ASSUME IsTokens(s, d) PROVE d.mounts \subseteq d.listed \cup Shared
  BY <1>6 DEF IsTokens, TokensService, Bare
<1>7. IsService(s, d)
  BY FileServices
<1>8. d.mounts \subseteq d.listed \cup Shared
  BY <1>2, <1>3, <1>4, <1>5, <1>6, <1>7 DEF IsService
<1>9. CASE s.node = "fabric"
  <2> DEFINE e == FabconnectService(s, 0)
  <2>1. 0 \in Index(s)
    BY DEF WellFormed, Validated, InitOptions, Index
  <2>2. s.connector = "fabconnect"
    BY <1>9 DEF WellFormed, Validated
  <2>3. e \in BuildDockerCompose(s)
    BY <2>1, <2>2, FileServices DEF IsService, IsConnector
  <2>4. <<"firefly_fabric">> \in e.listed
    BY <1>9 DEF FabconnectService, Bare
  <2> HIDE DEF e
  <2> QED
    BY <1>8, <2>3, <2>4
<1> QED
  BY <1>8, <1>9

-----------------------------------------------------------------------------
(* What the services wait for.                                             *)

(* Who can be waited for as a connector of its member.                     *)
LEMMA ConnectorOfMember ==
  ASSUME NEW s, WellFormed(s), NEW i \in Index(s)
  PROVE  \E e \in Extra(s) : e.name = <<s.connector, i>>
<1>1. CASE s.connector = "ethconnect"
  <2>1. EthconnectService(s, i, Dependencies(s)) \in Extra(s)
    BY <1>1, ExtraServices DEF IsConnector
  <2>2. EthconnectService(s, i, Dependencies(s)).name = <<"ethconnect", i>>
    BY DEF EthconnectService, Bare
  <2> QED
    BY <1>1, <2>1, <2>2
<1>2. CASE s.connector = "evmconnect"
  <2>1. EvmconnectService(s, i, Dependencies(s)) \in Extra(s)
    BY <1>2, ExtraServices DEF IsConnector
  <2>2. EvmconnectService(s, i, Dependencies(s)).name = <<"evmconnect", i>>
    BY DEF EvmconnectService, Bare
  <2> QED
    BY <1>2, <2>1, <2>2
<1>3. CASE s.connector = "tezosconnect"
  <2>1. TezosconnectService(s, i, Dependencies(s)) \in Extra(s)
    BY <1>3, ExtraServices DEF IsConnector
  <2>2. TezosconnectService(s, i, Dependencies(s)).name = <<"tezosconnect", i>>
    BY DEF TezosconnectService, Bare
  <2> QED
    BY <1>3, <2>1, <2>2
<1>4. CASE s.connector = "fabconnect"
  <2>1. FabconnectService(s, i) \in Extra(s)
    BY <1>4, ExtraServices DEF IsConnector
  <2>2. FabconnectService(s, i).name = <<"fabconnect", i>>
    BY DEF FabconnectService, Bare
  <2> QED
    BY <1>4, <2>1, <2>2
<1> QED
  BY <1>1, <1>2, <1>3, <1>4 DEF WellFormed, InitOptions

(* What the providers add is in the file.                                  *)
LEMMA ExtraIsInTheFile ==
  ASSUME NEW s, WellFormed(s)
  PROVE  Extra(s) \subseteq BuildDockerCompose(s)
BY ExtraServices, FileServices DEF IsService

(* Someone answers to the name, and has a health check if it is asked for. *)
CanBeMet(s, x) ==
  \E e \in BuildDockerCompose(s) :
    e.name = x.on /\ (x.condition = "service_healthy" => e.healthcheck)

(* What the blockchain provider says to wait for is in the file, with the  *)
(* health check it needs.                                                  *)
LEMMA DependenciesCanBeMet ==
  ASSUME NEW s, WellFormed(s), NEW x \in Dependencies(s)
  PROVE  CanBeMet(s, x)
<1>1. CASE s.node = "geth"
  <2>1. GethService \in BuildDockerCompose(s)
    BY <1>1, FileServices DEF IsService, IsNode
  <2>2. GethService.name = <<"geth">>
    BY DEF GethService, Bare
  <2>3. x = Started(<<"geth">>)
    BY <1>1 DEF Dependencies
  <2> QED
    BY <2>1, <2>2, <2>3 DEF CanBeMet, Started
<1>2. CASE s.node \in {"besu", "remote-rpc"}
  <2>1. EthSignerService \in BuildDockerCompose(s)
    BY <1>2, FileServices DEF IsService, IsNode
  <2>2. EthSignerService.name = <<"ethsigner">> /\ EthSignerService.healthcheck
    BY DEF EthSignerService, Bare
  <2>3. x = Healthy(<<"ethsigner">>)
    BY <1>2 DEF Dependencies
  <2> QED
    BY <2>1, <2>2, <2>3 DEF CanBeMet, Healthy
<1>3. CASE s.node = "tezos"
  <2>1. TezosSignerService \in BuildDockerCompose(s)
    BY <1>3, FileServices DEF IsService, IsNode
  <2>2. TezosSignerService.name = <<"tezossigner">> /\ TezosSignerService.healthcheck
    BY DEF TezosSignerService, Bare
  <2>3. x = Healthy(<<"tezossigner">>)
    BY <1>3 DEF Dependencies
  <2> QED
    BY <2>1, <2>2, <2>3 DEF CanBeMet, Healthy
<1>4. CASE s.node = "quorum"
  <2>1. PICK i \in Index(s) : x = Started(<<"quorum", i>>)
    BY <1>4 DEF Dependencies
  <2>2. QuorumService(s, i) \in BuildDockerCompose(s)
    BY <1>4, FileServices DEF IsService, IsNode
  <2>3. QuorumService(s, i).name = <<"quorum", i>>
    BY DEF QuorumService, Bare
  <2> QED
    BY <2>1, <2>2, <2>3 DEF CanBeMet, Started
<1> QED
  BY <1>1, <1>2, <1>3, <1>4 DEF WellFormed, InitOptions, Dependencies

(* Nobody waits for a service that is not there, or for the health of one  *)
(* without a health check.                                                 *)
LEMMA DependsCanBeMet ==
  ASSUME NEW s, WellFormed(s), NEW d \in BuildDockerCompose(s), NEW x \in d.depends
  PROVE  CanBeMet(s, x)
<1>1. CASE IsCore(s, d)
  <2>1. PICK i \in Index(s) : d = WaitingCore(s, i)
    BY <1>1 DEF IsCore
  <2>2. d.depends = CoreService(s, i).depends \cup {Condition(e) : e \in Extra(s)}
    BY <2>1 DEF WaitingCore, CoreService, Bare
  <2>3. CASE x \in {Condition(e) : e \in Extra(s)}
    BY <2>3, ExtraIsInTheFile DEF CanBeMet, Condition, Started, Healthy
  <2>4. CASE x = Started(<<"dataexchange", i>>)
    <3>1. DataExchangeService(s, i) \in BuildDockerCompose(s)
      BY FileServices DEF IsService, IsOwn
    <3>2. DataExchangeService(s, i).name = <<"dataexchange", i>>
      BY DEF DataExchangeService, Bare
    <3> QED
      BY <2>4, <3>1, <3>2 DEF CanBeMet, Started
  <2>5. CASE x = Healthy(<<"ipfs", i>>)
    <3>1. IPFSService(s, i) \in BuildDockerCompose(s)
      BY FileServices DEF IsService, IsOwn
    <3>2. IPFSService(s, i).name = <<"ipfs", i>> /\ IPFSService(s, i).healthcheck
      BY DEF IPFSService, Bare
    <3> QED
      BY <2>5, <3>1, <3>2 DEF CanBeMet, Healthy
  <2>6. CASE s.postgres /\ x = Healthy(<<"postgres", i>>)
    <3>1. PostgresService(s, i) \in BuildDockerCompose(s)
      BY <2>6, FileServices DEF IsService, IsOwn
    <3>2. PostgresService(s, i).name = <<"postgres", i>> /\ PostgresService(s, i).healthcheck
      BY DEF PostgresService, Bare
    <3> QED
      BY <2>6, <3>1, <3>2 DEF CanBeMet, Healthy
  <2> QED
    BY <2>2, <2>3, <2>4, <2>5, <2>6 DEF CoreService, Bare
<1>2. CASE IsOwn(s, d)
  <2>1. ASSUME NEW i \in Index(s), s.postgres, d = PostgresService(s, i)
        PROVE  d.depends = {}
    BY <2>1 DEF PostgresService, Bare
  <2>2. ASSUME NEW i \in Index(s), d = IPFSService(s, i) PROVE d.depends = {}
    BY <2>2 DEF IPFSService, Bare
  <2>3. ASSUME NEW i \in Index(s), d = DataExchangeService(s, i) PROVE d.depends = {}
    BY <2>3 DEF DataExchangeService, Bare
  <2>4. ASSUME NEW i \in Index(s), s.sandbox, d = SandboxService(s, i)
        PROVE  d.depends = {}
    BY <2>4 DEF SandboxService, Bare
  <2>5. ASSUME s.prometheus, d = PrometheusService PROVE d.depends = {}
    BY <2>5 DEF PrometheusService, Bare
  <2> QED
    BY <1>2, <2>1, <2>2, <2>3, <2>4, <2>5 DEF IsOwn
<1>3. CASE IsConnector(s, d)
  <2>1. ASSUME NEW i \in Index(s), d = EthconnectService(s, i, Dependencies(s))
        PROVE  CanBeMet(s, x)
    <3>1. x \in Dependencies(s)
      BY <2>1 DEF EthconnectService, Bare
    <3> QED
      BY <3>1, DependenciesCanBeMet
  <2>2. ASSUME NEW i \in Index(s), d = EvmconnectService(s, i, Dependencies(s))
        PROVE  CanBeMet(s, x)
    <3>1. x \in Dependencies(s)
      BY <2>2 DEF EvmconnectService, Bare
    <3> QED
      BY <3>1, DependenciesCanBeMet
  <2>3. ASSUME NEW i \in Index(s), d = TezosconnectService(s, i, Dependencies(s))
        PROVE  CanBeMet(s, x)
    <3>1. x \in Dependencies(s)
      BY <2>3 DEF TezosconnectService, Bare
    <3> QED
      BY <3>1, DependenciesCanBeMet
  <2>4. ASSUME NEW i \in Index(s), d = FabconnectService(s, i)
        PROVE  CanBeMet(s, x)
    <3>1. /\ s.node = "fabric"
          /\ \/ x = Started(<<"fabric_ca">>)
             \/ x = Started(<<"fabric_peer">>)
             \/ x = Started(<<"fabric_orderer">>)
      BY <2>4 DEF FabconnectService, Bare
    <3>2. {FabricCAService, FabricPeerService, FabricOrdererService}
            \subseteq BuildDockerCompose(s)
      BY <3>1, FileServices DEF IsService, IsNode
    <3>3. /\ FabricCAService.name = <<"fabric_ca">>
          /\ FabricPeerService.name = <<"fabric_peer">>
          /\ FabricOrdererService.name = <<"fabric_orderer">>
      BY DEF FabricCAService, FabricPeerService, FabricOrdererService, Bare
    <3> QED
      BY <3>1, <3>2, <3>3 DEF CanBeMet, Started
  <2> QED
    BY <1>3, <2>1, <2>2, <2>3, <2>4 DEF IsConnector
<1>4. CASE IsNode(s, d)
  <2>1. ASSUME s.node = "geth", d = GethService PROVE CanBeMet(s, x)
    BY <2>1 DEF GethService, Bare
  <2>2. ASSUME s.node = "besu", d = BesuService PROVE CanBeMet(s, x)
    BY <2>2 DEF BesuService, Bare
  <2>3. ASSUME s.node \in {"besu", "remote-rpc"}, d = EthSignerService
        PROVE  CanBeMet(s, x)
    BY <2>3 DEF EthSignerService, Bare
  <2>4. ASSUME s.node = "tezos", d = TezosSignerService PROVE CanBeMet(s, x)
    BY <2>4 DEF TezosSignerService, Bare
  <2>5. ASSUME NEW i \in Index(s), s.node = "quorum", d = QuorumService(s, i)
        PROVE  CanBeMet(s, x)
    <3>1. s.ptm = "tessera" /\ x = Healthy(<<"tessera", i>>)
      BY <2>5 DEF QuorumService, Bare
    <3>2. TesseraService(i) \in BuildDockerCompose(s)
      BY <3>1, FileServices DEF IsService, IsNode
    <3>3. TesseraService(i).name = <<"tessera", i>> /\ TesseraService(i).healthcheck
      BY DEF TesseraService, Bare
    <3> QED
      BY <3>1, <3>2, <3>3 DEF CanBeMet, Healthy
  <2>6. ASSUME NEW i \in Index(s), s.ptm = "tessera", d = TesseraService(i)
        PROVE  CanBeMet(s, x)
    BY <2>6 DEF TesseraService, Bare
  <2>7. ASSUME s.node = "fabric", d = FabricCAService PROVE CanBeMet(s, x)
    BY <2>7 DEF FabricCAService, Bare
  <2>8. ASSUME s.node = "fabric", d = FabricOrdererService PROVE CanBeMet(s, x)
    BY <2>8 DEF FabricOrdererService, Bare
  <2>9. ASSUME s.node = "fabric", d = FabricPeerService PROVE CanBeMet(s, x)
    BY <2>9 DEF FabricPeerService, Bare
  <2> QED
    BY <1>4, <2>1, <2>2, <2>3, <2>4, <2>5, <2>6, <2>7, <2>8, <2>9 DEF IsNode
<1>5. CASE IsTokens(s, d)
  <2>1. PICK i \in Index(s) : x = Started(<<s.connector, i>>)
    BY <1>5 DEF IsTokens, TokensService, Bare
  <2> QED
    BY <2>1, ConnectorOfMember, ExtraIsInTheFile DEF CanBeMet, Started
<1> QED
  BY <1>1, <1>2, <1>3, <1>4, <1>5, FileServices DEF IsService

(* Who waits for whom: the cores for the token services, these for the     *)
(* connectors, these for the nodes and signers, a Quorum node for its      *)
(* Tessera.                                                                *)
Rank(name) ==
  CASE name[1] = "firefly_core" -> 4
    [] name[1] = "tokens"       -> 3
    [] name[1] \in {"ethconnect", "evmconnect", "tezosconnect", "fabconnect"} -> 2
    [] name[1] = "quorum"       -> 1
    [] OTHER                    -> 0

(* No provider adds a core.                                                *)
LEMMA ExtraIsNoCore ==
  ASSUME NEW s, WellFormed(s), NEW d \in Extra(s)
  PROVE  d.name[1] # "firefly_core"
<1>1. CASE IsConnector(s, d)
  <2>1. ASSUME NEW i \in Index(s), s.connector = "ethconnect", d = EthconnectService(s, i, Dependencies(s))
        PROVE  d.name[1] # "firefly_core"
    <3>1. d.name = <<"ethconnect", i>>
      BY <2>1 DEF EthconnectService, Bare
    <3> QED
      BY <3>1
  <2>2. ASSUME NEW i \in Index(s), s.connector = "evmconnect", d = EvmconnectService(s, i, Dependencies(s))
        PROVE  d.name[1] # "firefly_core"
    <3>1. d.name = <<"evmconnect", i>>
      BY <2>2 DEF EvmconnectService, Bare
    <3> QED
      BY <3>1
  <2>3. ASSUME NEW i \in Index(s), s.connector = "tezosconnect", d = TezosconnectService(s, i, Dependencies(s))
        PROVE  d.name[1] # "firefly_core"
    <3>1. d.name = <<"tezosconnect", i>>
      BY <2>3 DEF TezosconnectService, Bare
    <3> QED
      BY <3>1
  <2>4. ASSUME NEW i \in Index(s), s.connector = "fabconnect", d = FabconnectService(s, i)
        PROVE  d.name[1] # "firefly_core"
    <3>1. d.name = <<"fabconnect", i>>
      BY <2>4 DEF FabconnectService, Bare
    <3> QED
      BY <3>1
  <2> QED
    BY <1>1, <2>1, <2>2, <2>3, <2>4 DEF IsConnector
<1>2. CASE IsNode(s, d)
  <2>1. ASSUME s.node = "geth", d = GethService PROVE d.name[1] # "firefly_core"
    <3>1. d.name = <<"geth">>
      BY <2>1 DEF GethService, Bare
    <3> QED
      BY <3>1
  <2>2. ASSUME s.node = "besu", d = BesuService PROVE d.name[1] # "firefly_core"
    <3>1. d.name = <<"besu">>
      BY <2>2 DEF BesuService, Bare
    <3> QED
      BY <3>1
  <2>3. ASSUME s.node \in {"besu", "remote-rpc"}, d = EthSignerService
        PROVE  d.name[1] # "firefly_core"
    <3>1. d.name = <<"ethsigner">>
      BY <2>3 DEF EthSignerService, Bare
    <3> QED
      BY <3>1
  <2>4. ASSUME s.node = "tezos", d = TezosSignerService
        PROVE  d.name[1] # "firefly_core"
    <3>1. d.name = <<"tezossigner">>
      BY <2>4 DEF TezosSignerService, Bare
    <3> QED
      BY <3>1
  <2>5. ASSUME NEW i \in Index(s), s.node = "quorum", d = QuorumService(s, i)
        PROVE  d.name[1] # "firefly_core"
    <3>1. d.name = <<"quorum", i>>
      BY <2>5 DEF QuorumService, Bare
    <3> QED
      BY <3>1
  <2>6. ASSUME NEW i \in Index(s), s.ptm = "tessera", d = TesseraService(i)
        PROVE  d.name[1] # "firefly_core"
    <3>1. d.name = <<"tessera", i>>
      BY <2>6 DEF TesseraService, Bare
    <3> QED
      BY <3>1
  <2>7. ASSUME s.node = "fabric", d = FabricCAService
        PROVE  d.name[1] # "firefly_core"
    <3>1. d.name = <<"fabric_ca">>
      BY <2>7 DEF FabricCAService, Bare
    <3> QED
      BY <3>1
  <2>8. ASSUME s.node = "fabric", d = FabricOrdererService
        PROVE  d.name[1] # "firefly_core"
    <3>1. d.name = <<"fabric_orderer">>
      BY <2>8 DEF FabricOrdererService, Bare
    <3> QED
      BY <3>1
  <2>9. ASSUME s.node = "fabric", d = FabricPeerService
        PROVE  d.name[1] # "firefly_core"
    <3>1. d.name = <<"fabric_peer">>
      BY <2>9 DEF FabricPeerService, Bare
    <3> QED
      BY <3>1
  <2> QED
    BY <1>2, <2>1, <2>2, <2>3, <2>4, <2>5, <2>6, <2>7, <2>8, <2>9 DEF IsNode
<1>3. CASE IsTokens(s, d)
  <2>1. PICK i \in Index(s), t \in 0 .. s.tokens - 1 : d.name = <<"tokens", i, t>>
    BY <1>3 DEF IsTokens, TokensService, Bare
  <2> QED
    BY <2>1
<1> QED
  BY <1>1, <1>2, <1>3, ExtraServices

(* Nobody waits for one who waits for it, directly or through others.      *)
LEMMA WaitsForLowerRanks ==
  ASSUME NEW s, WellFormed(s), NEW d \in BuildDockerCompose(s), NEW x \in d.depends
  PROVE  /\ Rank(x.on) \in 0 .. 4 /\ Rank(d.name) \in 0 .. 4
         /\ Rank(x.on) < Rank(d.name)
<1>0. \A n : Rank(n) \in 0 .. 4
  BY DEF Rank
<1>1. CASE IsCore(s, d)
  <2>1. PICK i \in Index(s) : d = WaitingCore(s, i)
    BY <1>1 DEF IsCore
  <2>2. /\ d.name = <<"firefly_core", i>>
        /\ d.depends = CoreService(s, i).depends \cup {Condition(e) : e \in Extra(s)}
    BY <2>1 DEF WaitingCore, CoreService, Bare
  <2>3. ASSUME NEW e \in Extra(s), x = Condition(e) PROVE x.on[1] # "firefly_core"
    BY <2>3, ExtraIsNoCore DEF Condition, Healthy, Started
  <2>4. ASSUME x \in CoreService(s, i).depends PROVE x.on[1] # "firefly_core"
    <3>1. x.on \in {<<"dataexchange", i>>, <<"ipfs", i>>, <<"postgres", i>>}
      BY <2>4 DEF CoreService, Bare, Healthy, Started
    <3> QED
      BY <3>1
  <2>5. x.on[1] # "firefly_core"
    BY <2>2, <2>3, <2>4
  <2> QED
    BY <1>0, <2>2, <2>5 DEF Rank
<1>2. CASE IsOwn(s, d)
  <2>1. ASSUME NEW i \in Index(s), s.postgres, d = PostgresService(s, i) PROVE FALSE
    BY <2>1 DEF PostgresService, Bare
  <2>2. ASSUME NEW i \in Index(s), d = IPFSService(s, i) PROVE FALSE
    BY <2>2 DEF IPFSService, Bare
  <2>3. ASSUME NEW i \in Index(s), d = DataExchangeService(s, i) PROVE FALSE
    BY <2>3 DEF DataExchangeService, Bare
  <2>4. ASSUME NEW i \in Index(s), s.sandbox, d = SandboxService(s, i) PROVE FALSE
    BY <2>4 DEF SandboxService, Bare
  <2>5. ASSUME s.prometheus, d = PrometheusService PROVE FALSE
    BY <2>5 DEF PrometheusService, Bare
  <2> QED
    BY <1>2, <2>1, <2>2, <2>3, <2>4, <2>5 DEF IsOwn
<1>3. CASE IsConnector(s, d)
  <2>0. ASSUME x \in Dependencies(s) PROVE Rank(x.on) < 2
    <3>1. \/ x.on \in {<<"geth">>, <<"ethsigner">>, <<"tezossigner">>}
          \/ \E i \in Index(s) : x.on = <<"quorum", i>>
      BY <2>0 DEF Dependencies, Started, Healthy
    <3> QED
      BY <3>1 DEF Rank
  <2>1. ASSUME NEW i \in Index(s), d = EthconnectService(s, i, Dependencies(s))
        PROVE  Rank(x.on) < Rank(d.name)
    <3>1. d.name = <<"ethconnect", i>> /\ x \in Dependencies(s)
      BY <2>1 DEF EthconnectService, Bare
    <3> QED
      BY <2>0, <3>1 DEF Rank
  <2>2. ASSUME NEW i \in Index(s), d = EvmconnectService(s, i, Dependencies(s))
        PROVE  Rank(x.on) < Rank(d.name)
    <3>1. d.name = <<"evmconnect", i>> /\ x \in Dependencies(s)
      BY <2>2 DEF EvmconnectService, Bare
    <3> QED
      BY <2>0, <3>1 DEF Rank
  <2>3. ASSUME NEW i \in Index(s), d = TezosconnectService(s, i, Dependencies(s))
        PROVE  Rank(x.on) < Rank(d.name)
    <3>1. d.name = <<"tezosconnect", i>> /\ x \in Dependencies(s)
      BY <2>3 DEF TezosconnectService, Bare
    <3> QED
      BY <2>0, <3>1 DEF Rank
  <2>4. ASSUME NEW i \in Index(s), d = FabconnectService(s, i)
        PROVE  Rank(x.on) < Rank(d.name)
    <3>1. /\ d.name = <<"fabconnect", i>>
          /\ x.on \in {<<"fabric_ca">>, <<"fabric_peer">>, <<"fabric_orderer">>}
      BY <2>4 DEF FabconnectService, Bare, Started
    <3> QED
      BY <3>1 DEF Rank
  <2> QED
    BY <1>0, <1>3, <2>1, <2>2, <2>3, <2>4 DEF IsConnector
<1>4. CASE IsNode(s, d)
  <2>1. ASSUME s.node = "geth", d = GethService PROVE Rank(x.on) < Rank(d.name)
    BY <2>1 DEF GethService, Bare
  <2>2. ASSUME s.node = "besu", d = BesuService PROVE Rank(x.on) < Rank(d.name)
    BY <2>2 DEF BesuService, Bare
  <2>3. ASSUME s.node \in {"besu", "remote-rpc"}, d = EthSignerService
        PROVE  Rank(x.on) < Rank(d.name)
    BY <2>3 DEF EthSignerService, Bare
  <2>4. ASSUME s.node = "tezos", d = TezosSignerService
        PROVE  Rank(x.on) < Rank(d.name)
    BY <2>4 DEF TezosSignerService, Bare
  <2>5. ASSUME NEW i \in Index(s), s.node = "quorum", d = QuorumService(s, i)
        PROVE  Rank(x.on) < Rank(d.name)
    <3>1. d.name = <<"quorum", i>> /\ x.on = <<"tessera", i>>
      BY <2>5 DEF QuorumService, Bare, Healthy
    <3> QED
      BY <3>1 DEF Rank
  <2>6. ASSUME NEW i \in Index(s), s.ptm = "tessera", d = TesseraService(i)
        PROVE  Rank(x.on) < Rank(d.name)
    BY <2>6 DEF TesseraService, Bare
  <2>7. ASSUME s.node = "fabric", d = FabricCAService PROVE Rank(x.on) < Rank(d.name)
    BY <2>7 DEF FabricCAService, Bare
  <2>8. ASSUME s.node = "fabric", d = FabricOrdererService
        PROVE  Rank(x.on) < Rank(d.name)
    BY <2>8 DEF FabricOrdererService, Bare
  <2>9. ASSUME s.node = "fabric", d = FabricPeerService
        PROVE  Rank(x.on) < Rank(d.name)
    BY <2>9 DEF FabricPeerService, Bare
  <2> QED
    BY <1>0, <1>4, <2>1, <2>2, <2>3, <2>4, <2>5, <2>6, <2>7, <2>8, <2>9 DEF IsNode
<1>5. CASE IsTokens(s, d)
  <2>1. PICK i \in Index(s), t \in 0 .. s.tokens - 1 : d = TokensService(s, i, t)
    BY <1>5 DEF IsTokens
  <2>2. d.name = <<"tokens", i, t>> /\ x.on = <<s.connector, i>>
    BY <2>1 DEF TokensService, Bare, Started
  <2>3. s.connector \in {"ethconnect", "evmconnect", "tezosconnect", "fabconnect"}
    BY DEF WellFormed, InitOptions
  <2> QED
    BY <1>0, <2>2, <2>3 DEF Rank
<1> QED
  BY <1>1, <1>2, <1>3, <1>4, <1>5, FileServices DEF IsService

(* Who names an address, and whom he means.                                *)
LEMMA Lines ==
  /\ \A by, name, port : /\ Inner(by, name, port).by = by
                         /\ Inner(by, name, port).means = <<name, port>>
  /\ \A s, i, name, container, published :
       /\ CoreURL(s, i, name, container, published).by = <<"firefly_core", i>>
       /\ CoreURL(s, i, name, container, published).means = <<name, container>>
BY DEF Inner, CoreURL, Endpoint, Core

(* The lines of the configuration files of the cores.                      *)
LEMMA LinesOfACore ==
  ASSUME NEW s, WellFormed(s), NEW e \in WriteConfig(s), e.by[1] = "firefly_core"
  PROVE  \E i \in Index(s) : e.by = <<"firefly_core", i>> /\ e \in FireflyConfig(s, i)
<1>1. ASSUME NEW i \in Index(s), e \in ConnectorConfig(s, i) PROVE FALSE
  BY <1>1 DEF ConnectorConfig, EthconnectConfig, EvmconnectConfig, TezosconnectConfig,
              NetworkConfig, CoreOf, Inner, Endpoint, WellFormed, InitOptions
<1>2. ASSUME NEW i \in Index(s), e \in NodeConfig(s, i) PROVE FALSE
  <2>1. ASSUME e \in QuorumEntrypoint(s, i) PROVE e.by = <<"quorum", i>>
    <3>1. \E name, port : e = Inner(<<"quorum", i>>, name, port)
      BY <2>1 DEF QuorumEntrypoint
    <3> QED
      BY <3>1, Lines
  <2>2. ASSUME e \in TesseraEntrypoint(s, i) PROVE e.by = <<"tessera", i>>
    <3>1. PICK j \in Index(s) : e = Inner(<<"tessera", i>>, <<"tessera", j>>, 9000)
      BY <2>2 DEF TesseraEntrypoint
    <3> QED
      BY <3>1, Lines
  <2>3. e.by = <<"quorum", i>> \/ e.by = <<"tessera", i>>
    BY <1>2, <2>1, <2>2 DEF NodeConfig
  <2> QED
    BY <2>3
<1>3. ASSUME NEW i \in Index(s), e \in TokensEnvironment(s, i) PROVE FALSE
  BY <1>3 DEF TokensEnvironment, Inner, Endpoint
<1>4. ASSUME NEW i \in Index(s), e \in SandboxEnvironment(s, i) PROVE FALSE
  BY <1>4 DEF SandboxEnvironment, Inner, Endpoint
<1>5. e \notin SignerConfig(s)
  BY DEF SignerConfig, Inner, Endpoint
<1>6. e \notin GeneratePrometheusConfig(s)
  <2>1. ASSUME e \in GeneratePrometheusConfig(s)
        PROVE  \E name, port : e = Inner(<<"prometheus">>, name, port)
    BY <2>1 DEF GeneratePrometheusConfig
  <2>2. ASSUME e \in GeneratePrometheusConfig(s) PROVE e.by = <<"prometheus">>
    BY <2>1, <2>2, Lines
  <2> QED
    BY <2>2
<1>7. PICK i \in Index(s) : e \in FireflyConfig(s, i)
  BY <1>1, <1>2, <1>3, <1>4, <1>5, <1>6 DEF WriteConfig
<1>8. \E name, container, published : e = CoreURL(s, i, name, container, published)
  <2>1. CASE e \in StorageURLs(s, i)
    BY <2>1 DEF StorageURLs
  <2>2. CASE e \in DatabaseURL(s, i)
    BY <2>2 DEF DatabaseURL
  <2>3. CASE e \in TokensURLs(s, i)
    <3>1. PICK n \in 0 .. s.tokens - 1 :
                 e = CoreURL(s, i, <<"tokens", i, n>>, 3000, TokensPort(s, i, n))
      BY <2>3 DEF TokensURLs
    <3> QED
      BY <3>1
  <2>4. CASE e = ConnectorURL(s, i)
    BY <2>4 DEF ConnectorURL
  <2> QED
    BY <1>7, <2>1, <2>2, <2>3, <2>4 DEF FireflyConfig
<1>9. e.by = <<"firefly_core", i>>
  BY <1>8, Lines
<1> QED
  BY <1>7, <1>9

(* A core waits for every service its configuration names.                 *)
LEMMA CoreWaitsForItsServices ==
  ASSUME NEW s, WellFormed(s), NEW e \in WriteConfig(s), e.by[1] = "firefly_core",
         NEW c \in BuildDockerCompose(s), c.name = e.by,
         NEW d \in BuildDockerCompose(s), d.name = e.means[1]
  PROVE  Condition(d) \in c.depends
<1>1. PICK i \in Index(s) : e.by = <<"firefly_core", i>> /\ e \in FireflyConfig(s, i)
  BY LinesOfACore
<1>2. c = WaitingCore(s, i)
  BY <1>1, NameOfService DEF ServiceNamed
<1>3. c.depends = CoreService(s, i).depends \cup {Condition(x) : x \in Extra(s)}
  BY <1>2 DEF WaitingCore, CoreService, Bare
<1>4. CASE d \in Extra(s)
  BY <1>3, <1>4
<1>5. CASE d.name = <<"ipfs", i>>
  <2>1. d = IPFSService(s, i)
    BY <1>5, NameOfService DEF ServiceNamed
  <2>2. Condition(d) = Healthy(<<"ipfs", i>>)
    BY <2>1 DEF IPFSService, Bare, Condition
  <2> QED
    BY <1>3, <2>2 DEF CoreService, Bare
<1>6. CASE d.name = <<"dataexchange", i>>
  <2>1. d = DataExchangeService(s, i)
    BY <1>6, NameOfService DEF ServiceNamed
  <2>2. Condition(d) = Started(<<"dataexchange", i>>)
    BY <2>1 DEF DataExchangeService, Bare, Condition
  <2> QED
    BY <1>3, <2>2 DEF CoreService, Bare
<1>7. CASE s.postgres /\ d.name = <<"postgres", i>>
  <2>1. d = PostgresService(s, i)
    BY <1>7, NameOfService DEF ServiceNamed
  <2>2. Condition(d) = Healthy(<<"postgres", i>>)
    BY <2>1 DEF PostgresService, Bare, Condition
  <2> QED
    BY <1>3, <1>7, <2>2 DEF CoreService, Bare
<1>8. CASE d.name = <<s.connector, i>>
  <2>1. PICK x \in Extra(s) : x.name = <<s.connector, i>>
    BY ConnectorOfMember
  <2> QED
    BY <1>4, <1>8, <2>1, ExtraIsInTheFile, NamesAreDistinct
<1>9. ASSUME NEW n \in 0 .. s.tokens - 1, d.name = <<"tokens", i, n>> PROVE d \in Extra(s)
  <2>1. d = TokensService(s, i, n)
    BY <1>9, NameOfService DEF ServiceNamed
  <2> QED
    BY <2>1, ExtraServices DEF IsTokens
<1>10. CASE e \in StorageURLs(s, i)
  <2>1. e.means[1] = <<"ipfs", i>> \/ e.means[1] = <<"dataexchange", i>>
    BY <1>10, Lines DEF StorageURLs
  <2> QED
    BY <1>5, <1>6, <2>1
<1>11. CASE e \in DatabaseURL(s, i)
  <2>1. s.postgres /\ e.means[1] = <<"postgres", i>>
    BY <1>11, Lines DEF DatabaseURL
  <2> QED
    BY <1>7, <2>1
<1>12. CASE e \in TokensURLs(s, i)
  <2>1. PICK n \in 0 .. s.tokens - 1 :
               e = CoreURL(s, i, <<"tokens", i, n>>, 3000, TokensPort(s, i, n))
    BY <1>12 DEF TokensURLs
  <2>2. e.means[1] = <<"tokens", i, n>>
    BY <2>1, Lines
  <2> QED
    BY <1>4, <1>9, <2>2
<1>13. CASE e = ConnectorURL(s, i)
  BY <1>8, <1>13, Lines DEF ConnectorURL
<1> QED
  BY <1>1, <1>10, <1>11, <1>12, <1>13 DEF FireflyConfig

-----------------------------------------------------------------------------
(* Whose a host port is.  A listener is a service and a container port.    *)

AtOffset(s, i, k) ==
  CASE k = 0 -> IF s.node = "geth" THEN <<<<"geth">>, 8545>>
                ELSE IF s.node = "quorum" THEN <<<<"quorum", 0>>, 8545>>
                ELSE IF s.node = "tezos" THEN <<<<"tezossigner">>, 6732>>
                ELSE <<<<"ethsigner">>, 8545>>
    [] k = 1 -> <<Core(i), ServiceBase(i) + 1>>
    [] k = 2 -> <<<<s.connector, i>>, ConnectorPort(s)>>
    [] k = 4 -> <<<<"postgres", i>>, 5432>>
    [] OTHER -> IF s.sandbox /\ SandboxPort(s, i) = ServiceBase(i) + k
                THEN <<<<"sandbox", i>>, 3001>>
                ELSE <<<<"tokens", i, k - (IF s.prometheus THEN 10 ELSE 8)>>, 3000>>

AtDoubled(i, k) ==
  CASE k = 5 -> <<<<"dataexchange", i>>, 3000>>
    [] k = 6 -> <<<<"ipfs", i>>, 5001>>
    [] k = 7 -> <<<<"ipfs", i>>, 8080>>

AtFixed(port) ==
  IF port = 9583 THEN <<<<"tezossigner">>, port>>
  ELSE IF port \in {7054, 17054} THEN <<<<"fabric_ca">>, port>>
  ELSE IF port \in {7051, 17051} THEN <<<<"fabric_peer">>, port>>
  ELSE <<<<"fabric_orderer">>, port>>

(* Block b gives the port to the listener.                                 *)
Gives(s, b, port, listener) ==
  \/ b = 1 /\ \E i \in Index(s) : /\ ~External(s, i)
                                  /\ port = FireflyBase + i
                                  /\ listener = <<Core(i), FireflyBase + i>>
  \/ b = 2 /\ \E i \in Index(s), k \in 0 .. 99 :
                port = ServiceBase(i) + k /\ listener = AtOffset(s, i, k)
  \/ b = 3 /\ \E i \in Index(s), k \in 5 .. 7 :
                port = DoubledPort(i, k) /\ listener = AtDoubled(i, k)
  \/ b = 4 /\ s.ptm = "tessera"
           /\ \E i \in Index(s) :
                port = TesseraPort(i) /\ listener = <<<<"tessera", i>>, 9080>>
  \/ b = 5 /\ s.prometheus
           /\ port = PrometheusPort /\ listener = <<<<"prometheus">>, 9090>>
  \/ b = 6 /\ port \in FixedPorts(s) /\ listener = AtFixed(port)

(* A port that is given lies in the block of its kind.                     *)
LEMMA GivenInTheBlock ==
  ASSUME NEW s, WellFormed(s), NEW b, NEW port, NEW listener, Gives(s, b, port, listener)
  PROVE  b \in 1 .. 6 /\ port \in Blocks(s)[b]
<1>0. s.members \in Nat \ {0}
  BY DEF WellFormed, Validated, InitOptions
<1> USE <1>0, PortsAssumption DEF Index, ServiceBase, DoubledPort, TesseraPort
<1>1. CASE b = 1
  BY <1>1 DEF Gives, Blocks
<1>2. CASE b = 2
  BY <1>2 DEF Gives, Blocks
<1>3. CASE b = 3
  BY <1>3 DEF Gives, Blocks
<1>4. CASE b = 4
  BY <1>4 DEF Gives, Blocks
<1>5. CASE b = 5
  BY <1>5 DEF Gives, Blocks
<1>6. CASE b = 6
  BY <1>6 DEF Gives, Blocks
<1> QED
  BY <1>1, <1>2, <1>3, <1>4, <1>5, <1>6 DEF Gives

(* A port belongs to one listener, when the blocks do not overlap.         *)
LEMMA OneListener ==
  ASSUME NEW s, WellFormed(s), Roomy(s), NEW port,
         NEW b, NEW l, Gives(s, b, port, l), NEW c, NEW m, Gives(s, c, port, m)
  PROVE  b = c /\ l = m
<1>1. b = c /\ b \in 1 .. 6
  <2>1. /\ b \in 1 .. 6 /\ port \in Blocks(s)[b]
        /\ c \in 1 .. 6 /\ port \in Blocks(s)[c]
    BY GivenInTheBlock
  <2> QED
    BY <2>1 DEF Roomy
<1>0. s.members \in Nat \ {0}
  BY DEF WellFormed, Validated, InitOptions
<1> USE <1>0, PortsAssumption DEF Index, ServiceBase, DoubledPort, TesseraPort
<1>2. CASE b = 1
  BY <1>1, <1>2 DEF Gives
<1>3. CASE b = 2
  <2>1. PICK i \in Index(s), k \in 0 .. 99 : port = ServiceBase(i) + k /\ l = AtOffset(s, i, k)
    BY <1>3 DEF Gives
  <2>2. PICK j \in Index(s), n \in 0 .. 99 : port = ServiceBase(j) + n /\ m = AtOffset(s, j, n)
    BY <1>1, <1>3 DEF Gives
  <2>3. i = j /\ k = n
    BY <2>1, <2>2
  <2> QED
    BY <1>1, <2>1, <2>2, <2>3
<1>4. CASE b = 3
  <2>1. PICK i \in Index(s), k \in 5 .. 7 : port = DoubledPort(i, k) /\ l = AtDoubled(i, k)
    BY <1>4 DEF Gives
  <2>2. PICK j \in Index(s), n \in 5 .. 7 : port = DoubledPort(j, n) /\ m = AtDoubled(j, n)
    BY <1>1, <1>4 DEF Gives
  <2>3. i = j /\ k = n
    BY <2>1, <2>2
  <2> QED
    BY <1>1, <2>1, <2>2, <2>3
<1>5. CASE b = 4
  BY <1>1, <1>5 DEF Gives
<1>6. CASE b = 5
  BY <1>1, <1>6 DEF Gives
<1>7. CASE b = 6
  BY <1>1, <1>7 DEF Gives
<1> QED
  BY <1>1, <1>2, <1>3, <1>4, <1>5, <1>6, <1>7

(* Every port that a service publishes is given to it by a block.          *)
LEMMA PublishedPorts ==
  ASSUME NEW s, WellFormed(s), Roomy(s), NEW d \in BuildDockerCompose(s), NEW p \in d.ports
  PROVE  \/ p.host \in QuorumPorts(s)
         \/ \E b : Gives(s, b, p.host, <<d.name, p.container>>)
<1> DEFINE Given == \/ p.host \in QuorumPorts(s)
                    \/ \E b : Gives(s, b, p.host, <<d.name, p.container>>)
<1>0. s.members \in Nat \ {0} /\ s.tokens \in 0 .. 89
  BY DEF WellFormed, Validated, InitOptions, Roomy
<1>1. CASE IsCore(s, d)
  <2>1. PICK i \in Index(s) : ~External(s, i) /\ d = WaitingCore(s, i)
    BY <1>1 DEF IsCore
  <2>2. /\ d.name = Core(i)
        /\ d.ports = {Published(FireflyBase + i, FireflyBase + i),
                      Published(ServiceBase(i) + 1, ServiceBase(i) + 1)}
    BY <2>1 DEF WaitingCore, CoreService, Bare, Core, MemberPorts
  <2>3. CASE p = Published(FireflyBase + i, FireflyBase + i)
    <3>1. Gives(s, 1, p.host, <<d.name, p.container>>)
      BY <2>1, <2>2, <2>3 DEF Gives, Published
    <3> QED
      BY <3>1
  <2>4. CASE p = Published(ServiceBase(i) + 1, ServiceBase(i) + 1)
    <3>1. <<d.name, p.container>> = AtOffset(s, i, 1)
      BY <2>2, <2>4 DEF AtOffset, Published
    <3>2. Gives(s, 2, p.host, <<d.name, p.container>>)
      BY <2>4, <3>1 DEF Gives, Published
    <3> QED
      BY <3>2
  <2> QED
    BY <2>2, <2>3, <2>4
<1>2. CASE IsOwn(s, d)
  <2>1. ASSUME NEW i \in Index(s), s.postgres, d = PostgresService(s, i) PROVE Given
    <3>1. /\ d.name = <<"postgres", i>>
          /\ d.ports = {Published(ServiceBase(i) + 4, 5432)}
      BY <2>1 DEF PostgresService, Bare, MemberPorts
    <3>2. CASE p = Published(ServiceBase(i) + 4, 5432)
      <4>1. <<d.name, p.container>> = AtOffset(s, i, 4)
        BY <2>1, <3>1, <3>2 DEF AtOffset, Published
      <4>2. Gives(s, 2, p.host, <<d.name, p.container>>)
        BY <3>2, <4>1 DEF Gives, Published
      <4> QED
        BY <4>2
    <3> QED
      BY <3>1, <3>2
  <2>2. ASSUME NEW i \in Index(s), d = IPFSService(s, i) PROVE Given
    <3>1. /\ d.name = <<"ipfs", i>>
          /\ d.ports = {Published(DoubledPort(i, 6), 5001), Published(DoubledPort(i, 7), 8080)}
      BY <2>2 DEF IPFSService, Bare, MemberPorts
    <3>2. CASE p = Published(DoubledPort(i, 6), 5001)
      <4>1. <<d.name, p.container>> = AtDoubled(i, 6)
        BY <3>1, <3>2 DEF AtDoubled, Published
      <4>2. Gives(s, 3, p.host, <<d.name, p.container>>)
        BY <3>2, <4>1 DEF Gives, Published
      <4> QED
        BY <4>2
    <3>3. CASE p = Published(DoubledPort(i, 7), 8080)
      <4>1. <<d.name, p.container>> = AtDoubled(i, 7)
        BY <3>1, <3>3 DEF AtDoubled, Published
      <4>2. Gives(s, 3, p.host, <<d.name, p.container>>)
        BY <3>3, <4>1 DEF Gives, Published
      <4> QED
        BY <4>2
    <3> QED
      BY <3>1, <3>2, <3>3
  <2>3. ASSUME NEW i \in Index(s), d = DataExchangeService(s, i) PROVE Given
    <3>1. /\ d.name = <<"dataexchange", i>>
          /\ d.ports = {Published(DoubledPort(i, 5), 3000)}
      BY <2>3 DEF DataExchangeService, Bare, MemberPorts
    <3>2. CASE p = Published(DoubledPort(i, 5), 3000)
      <4>1. <<d.name, p.container>> = AtDoubled(i, 5)
        BY <3>1, <3>2 DEF AtDoubled, Published
      <4>2. Gives(s, 3, p.host, <<d.name, p.container>>)
        BY <3>2, <4>1 DEF Gives, Published
      <4> QED
        BY <4>2
    <3> QED
      BY <3>1, <3>2
  <2>4. ASSUME NEW i \in Index(s), s.sandbox, d = SandboxService(s, i) PROVE Given
    <3> DEFINE k == (IF s.prometheus THEN 10 ELSE 8) + s.tokens
    <3>1. d.name = <<"sandbox", i>> /\ d.ports = {Published(SandboxPort(s, i), 3001)}
      BY <2>4 DEF SandboxService, Bare, MemberPorts
    <3>2. k \in 8 .. 99 /\ SandboxPort(s, i) = ServiceBase(i) + k
      BY <2>4, <1>0, PortsAssumption DEF SandboxPort, TokensPort, ServiceBase, Index
    <3>3. <<d.name, p.container>> = AtOffset(s, i, k)
      BY <2>4, <3>1, <3>2 DEF AtOffset, Published
    <3>4. Gives(s, 2, p.host, <<d.name, p.container>>)
      BY <3>1, <3>2, <3>3 DEF Gives, Published
    <3> QED
      BY <3>4
  <2>5. ASSUME s.prometheus, d = PrometheusService PROVE Given
    <3>1. /\ d.name = <<"prometheus">>
          /\ d.ports = {Published(PrometheusPort, 9090)}
      BY <2>5 DEF PrometheusService, Bare
    <3>2. CASE p = Published(PrometheusPort, 9090)
      <4>1. Gives(s, 5, p.host, <<d.name, p.container>>)
        BY <2>5, <3>1, <3>2 DEF Gives, Published
      <4> QED
        BY <4>1
    <3> QED
      BY <3>1, <3>2
  <2> QED
    BY <1>2, <2>1, <2>2, <2>3, <2>4, <2>5 DEF IsOwn
<1>3. CASE IsConnector(s, d)
  <2>1. ASSUME NEW i \in Index(s), s.connector = "ethconnect",
               d = EthconnectService(s, i, Dependencies(s))
        PROVE  Given
    <3>1. /\ d.name = <<"ethconnect", i>>
          /\ d.ports = {Published(ServiceBase(i) + 2, 8080)}
      BY <2>1 DEF EthconnectService, Bare, MemberPorts
    <3>2. CASE p = Published(ServiceBase(i) + 2, 8080)
      <4>1. <<d.name, p.container>> = AtOffset(s, i, 2)
        BY <2>1, <3>1, <3>2 DEF AtOffset, Published, ConnectorPort
      <4>2. Gives(s, 2, p.host, <<d.name, p.container>>)
        BY <3>2, <4>1 DEF Gives, Published
      <4> QED
        BY <4>2
    <3> QED
      BY <3>1, <3>2
  <2>2. ASSUME NEW i \in Index(s), s.connector = "evmconnect",
               d = EvmconnectService(s, i, Dependencies(s))
        PROVE  Given
    <3>1. /\ d.name = <<"evmconnect", i>>
          /\ d.ports = {Published(ServiceBase(i) + 2, 5008)}
      BY <2>2 DEF EvmconnectService, Bare, MemberPorts
    <3>2. CASE p = Published(ServiceBase(i) + 2, 5008)
      <4>1. <<d.name, p.container>> = AtOffset(s, i, 2)
        BY <2>2, <3>1, <3>2 DEF AtOffset, Published, ConnectorPort
      <4>2. Gives(s, 2, p.host, <<d.name, p.container>>)
        BY <3>2, <4>1 DEF Gives, Published
      <4> QED
        BY <4>2
    <3> QED
      BY <3>1, <3>2
  <2>3. ASSUME NEW i \in Index(s), s.connector = "tezosconnect",
               d = TezosconnectService(s, i, Dependencies(s))
        PROVE  Given
    <3>1. /\ d.name = <<"tezosconnect", i>>
          /\ d.ports = {Published(ServiceBase(i) + 2, 5008)}
      BY <2>3 DEF TezosconnectService, Bare, MemberPorts
    <3>2. CASE p = Published(ServiceBase(i) + 2, 5008)
      <4>1. <<d.name, p.container>> = AtOffset(s, i, 2)
        BY <2>3, <3>1, <3>2 DEF AtOffset, Published, ConnectorPort
      <4>2. Gives(s, 2, p.host, <<d.name, p.container>>)
        BY <3>2, <4>1 DEF Gives, Published
      <4> QED
        BY <4>2
    <3> QED
      BY <3>1, <3>2
  <2>4. ASSUME NEW i \in Index(s), s.connector = "fabconnect",
               d = FabconnectService(s, i)
        PROVE  Given
    <3>1. /\ d.name = <<"fabconnect", i>>
          /\ d.ports = {Published(ServiceBase(i) + 2, 3000)}
      BY <2>4 DEF FabconnectService, Bare, MemberPorts
    <3>2. CASE p = Published(ServiceBase(i) + 2, 3000)
      <4>1. <<d.name, p.container>> = AtOffset(s, i, 2)
        BY <2>4, <3>1, <3>2 DEF AtOffset, Published, ConnectorPort
      <4>2. Gives(s, 2, p.host, <<d.name, p.container>>)
        BY <3>2, <4>1 DEF Gives, Published
      <4> QED
        BY <4>2
    <3> QED
      BY <3>1, <3>2
  <2> QED
    BY <1>3, <2>1, <2>2, <2>3, <2>4 DEF IsConnector
<1>4. CASE IsNode(s, d)
  <2>1. ASSUME s.node = "geth", d = GethService PROVE Given
    <3>1. /\ d.name = <<"geth">>
          /\ d.ports = {Published(BlockchainPort, 8545)}
      BY <2>1 DEF GethService, Bare
    <3>2. CASE p = Published(BlockchainPort, 8545)
      <4>1. <<d.name, p.container>> = AtOffset(s, 0, 0)
        BY <2>1, <3>1, <3>2 DEF AtOffset, Published
      <4>2. p.host = ServiceBase(0) + 0 /\ 0 \in Index(s)
        BY <3>2, <1>0, PortsAssumption DEF Published, BlockchainPort, ServiceBase, Index
      <4>3. Gives(s, 2, p.host, <<d.name, p.container>>)
        BY <4>1, <4>2 DEF Gives
      <4> QED
        BY <4>3
    <3> QED
      BY <3>1, <3>2
  <2>2. ASSUME s.node = "besu", d = BesuService PROVE Given
    BY <2>2 DEF BesuService, Bare
  <2>3. ASSUME s.node \in {"besu", "remote-rpc"}, d = EthSignerService PROVE Given
    <3>1. /\ d.name = <<"ethsigner">>
          /\ d.ports = {Published(BlockchainPort, 8545)}
      BY <2>3 DEF EthSignerService, Bare
    <3>2. CASE p = Published(BlockchainPort, 8545)
      <4>1. <<d.name, p.container>> = AtOffset(s, 0, 0)
        BY <2>3, <3>1, <3>2 DEF AtOffset, Published
      <4>2. p.host = ServiceBase(0) + 0 /\ 0 \in Index(s)
        BY <3>2, <1>0, PortsAssumption DEF Published, BlockchainPort, ServiceBase, Index
      <4>3. Gives(s, 2, p.host, <<d.name, p.container>>)
        BY <4>1, <4>2 DEF Gives
      <4> QED
        BY <4>3
    <3> QED
      BY <3>1, <3>2
  <2>4. ASSUME s.node = "tezos", d = TezosSignerService PROVE Given
    <3>1. /\ d.name = <<"tezossigner">>
          /\ d.ports = {Published(BlockchainPort, 6732), Published(9583, 9583)}
      BY <2>4 DEF TezosSignerService, Bare
    <3>2. CASE p = Published(BlockchainPort, 6732)
      <4>1. <<d.name, p.container>> = AtOffset(s, 0, 0)
        BY <2>4, <3>1, <3>2 DEF AtOffset, Published
      <4>2. p.host = ServiceBase(0) + 0 /\ 0 \in Index(s)
        BY <3>2, <1>0, PortsAssumption DEF Published, BlockchainPort, ServiceBase, Index
      <4>3. Gives(s, 2, p.host, <<d.name, p.container>>)
        BY <4>1, <4>2 DEF Gives
      <4> QED
        BY <4>3
    <3>3. CASE p = Published(9583, 9583)
      <4>1. Gives(s, 6, p.host, <<d.name, p.container>>)
        BY <2>4, <3>1, <3>3 DEF Gives, Published, FixedPorts, AtFixed
      <4> QED
        BY <4>1
    <3> QED
      BY <3>1, <3>2, <3>3
  <2>5. ASSUME NEW i \in Index(s), s.node = "quorum", d = QuorumService(s, i)
        PROVE  Given
    <3>1. d.name = <<"quorum", i>> /\ d.ports = {Published(QuorumPort(i), 8545)}
      BY <2>5 DEF QuorumService, Bare
    <3>2. CASE i = 0
      <4>1. <<d.name, p.container>> = AtOffset(s, 0, 0)
        BY <2>5, <3>1, <3>2 DEF AtOffset, Published
      <4>2. p.host = ServiceBase(0) + 0
        BY <3>1, <3>2, PortsAssumption DEF Published, QuorumPort, BlockchainPort, ServiceBase
      <4>3. Gives(s, 2, p.host, <<d.name, p.container>>)
        BY <3>2, <4>1, <4>2 DEF Gives
      <4> QED
        BY <4>3
    <3>3. CASE i # 0
      BY <2>5, <3>1, <3>3 DEF QuorumPorts, Published
    <3> QED
      BY <3>2, <3>3
  <2>6. ASSUME NEW i \in Index(s), s.ptm = "tessera", d = TesseraService(i)
        PROVE  Given
    <3>1. /\ d.name = <<"tessera", i>>
          /\ d.ports = {Published(TesseraPort(i), 9080)}
      BY <2>6 DEF TesseraService, Bare
    <3>2. CASE p = Published(TesseraPort(i), 9080)
      <4>1. Gives(s, 4, p.host, <<d.name, p.container>>)
        BY <2>6, <3>1, <3>2 DEF Gives, Published
      <4> QED
        BY <4>1
    <3> QED
      BY <3>1, <3>2
  <2>7. ASSUME s.node = "fabric", d = FabricCAService PROVE Given
    <3>1. /\ d.name = <<"fabric_ca">>
          /\ d.ports = {Published(7054, 7054), Published(17054, 17054)}
      BY <2>7 DEF FabricCAService, Bare
    <3>2. CASE p = Published(7054, 7054)
      <4>1. Gives(s, 6, p.host, <<d.name, p.container>>)
        BY <2>7, <3>1, <3>2 DEF Gives, Published, FixedPorts, AtFixed
      <4> QED
        BY <4>1
    <3>3. CASE p = Published(17054, 17054)
      <4>1. Gives(s, 6, p.host, <<d.name, p.container>>)
        BY <2>7, <3>1, <3>3 DEF Gives, Published, FixedPorts, AtFixed
      <4> QED
        BY <4>1
    <3> QED
      BY <3>1, <3>2, <3>3
  <2>8. ASSUME s.node = "fabric", d = FabricOrdererService PROVE Given
    <3>1. /\ d.name = <<"fabric_orderer">>
          /\ d.ports = {Published(7050, 7050), Published(7053, 7053), Published(17050, 17050)}
      BY <2>8 DEF FabricOrdererService, Bare
    <3>2. CASE p = Published(7050, 7050)
      <4>1. Gives(s, 6, p.host, <<d.name, p.container>>)
        BY <2>8, <3>1, <3>2 DEF Gives, Published, FixedPorts, AtFixed
      <4> QED
        BY <4>1
    <3>3. CASE p = Published(7053, 7053)
      <4>1. Gives(s, 6, p.host, <<d.name, p.container>>)
        BY <2>8, <3>1, <3>3 DEF Gives, Published, FixedPorts, AtFixed
      <4> QED
        BY <4>1
    <3>4. CASE p = Published(17050, 17050)
      <4>1. Gives(s, 6, p.host, <<d.name, p.container>>)
        BY <2>8, <3>1, <3>4 DEF Gives, Published, FixedPorts, AtFixed
      <4> QED
        BY <4>1
    <3> QED
      BY <3>1, <3>2, <3>3, <3>4
  <2>9. ASSUME s.node = "fabric", d = FabricPeerService PROVE Given
    <3>1. /\ d.name = <<"fabric_peer">>
          /\ d.ports = {Published(7051, 7051), Published(17051, 17051)}
      BY <2>9 DEF FabricPeerService, Bare
    <3>2. CASE p = Published(7051, 7051)
      <4>1. Gives(s, 6, p.host, <<d.name, p.container>>)
        BY <2>9, <3>1, <3>2 DEF Gives, Published, FixedPorts, AtFixed
      <4> QED
        BY <4>1
    <3>3. CASE p = Published(17051, 17051)
      <4>1. Gives(s, 6, p.host, <<d.name, p.container>>)
        BY <2>9, <3>1, <3>3 DEF Gives, Published, FixedPorts, AtFixed
      <4> QED
        BY <4>1
    <3> QED
      BY <3>1, <3>2, <3>3
  <2> QED
    BY <1>4, <2>1, <2>2, <2>3, <2>4, <2>5, <2>6, <2>7, <2>8, <2>9 DEF IsNode
<1>5. CASE IsTokens(s, d)
  <2>1. PICK i \in Index(s), n \in 0 .. s.tokens - 1 : d = TokensService(s, i, n)
    BY <1>5 DEF IsTokens
  <2> DEFINE first == IF s.prometheus THEN 10 ELSE 8
  <2> DEFINE k == first + n
  <2>2. d.name = <<"tokens", i, n>> /\ d.ports = {Published(ServiceBase(i) + k, 3000)}
    BY <2>1, <1>0, PortsAssumption DEF TokensService, Bare, TokensPort, ServiceBase, Index
  <2>3. k \in 8 .. 99 /\ k - first = n
    BY <1>0
  <2>4. s.sandbox => SandboxPort(s, i) # ServiceBase(i) + k
    BY <1>0, PortsAssumption DEF SandboxPort, TokensPort, ServiceBase, Index
  <2>5. <<d.name, p.container>> = AtOffset(s, i, k)
    BY <2>2, <2>3, <2>4 DEF AtOffset, Published
  <2>6. Gives(s, 2, p.host, <<d.name, p.container>>)
    BY <2>2, <2>3, <2>5 DEF Gives, Published
  <2> QED
    BY <2>6
<1> QED
  BY <1>1, <1>2, <1>3, <1>4, <1>5, FileServices DEF IsService

-----------------------------------------------------------------------------
(* The addresses in the configuration files.                               *)

(* Somebody called name listens on the container port; somebody publishes  *)
(* it on the host as well.                                                 *)
Listens(s, name, container) ==
  \E d \in BuildDockerCompose(s) :
    d.name = name /\ (container \in d.unpublished
                      \/ \E p \in d.ports : p.container = container)

Publishes(s, name, container, host) ==
  \E d \in BuildDockerCompose(s) : d.name = name /\ Published(host, container) \in d.ports

Reaches(s, e) ==
  \/ OfAnExternalCore(s, e)
  \/ OnAQuorumPort(s, e)
  \/ Reached(BuildDockerCompose(s), e.at) = {e.means} \ {Outside}

(* The address of a port a container listens on reaches that container.    *)
LEMMA InnerReaches ==
  ASSUME NEW s, NEW by, NEW name, NEW port \in Nat \ {0}, Listens(s, name, port)
  PROVE  Reaches(s, Inner(by, name, port))
<1>1. Reached(BuildDockerCompose(s), InDocker(name, port)) = {<<name, port>>}
  BY DEF Reached, InDocker, Listens
<1>2. {<<name, port>>} \ {Outside} = {<<name, port>>}
  BY DEF Outside
<1> QED
  BY <1>1, <1>2 DEF Reaches, Inner, Endpoint

(* A container listens on the port it publishes.                           *)
LEMMA PublisherListens ==
  ASSUME NEW s, NEW name, NEW container, NEW host, Publishes(s, name, container, host)
  PROVE  Listens(s, name, container)
BY DEF Publishes, Listens, Published

(* A core asks for a published port, from inside or from outside.          *)
LEMMA CoreURLReaches ==
  ASSUME NEW s, WellFormed(s), Roomy(s), NEW i, NEW name, NEW container \in Nat \ {0},
         NEW host, Publishes(s, name, container, host)
  PROVE  Reaches(s, CoreURL(s, i, name, container, host))
<1>1. CASE ~External(s, i)
  <2>1. CoreURL(s, i, name, container, host) = Inner(Core(i), name, container)
    BY <1>1 DEF CoreURL, Inner
  <2> QED
    BY <2>1, InnerReaches, PublisherListens
<1>2. CASE External(s, i)
  <2> DEFINE e == CoreURL(s, i, name, container, host)
  <2>1. e.at = OnHost(host) /\ e.means = <<name, container>>
    BY <1>2 DEF CoreURL, Endpoint
  <2>2. CASE host \in QuorumPorts(s)
    <3>1. OnAQuorumPort(s, e)
      BY <2>1, <2>2 DEF OnAQuorumPort, OnHost
    <3> QED
      BY <3>1 DEF Reaches
  <2>3. CASE host \notin QuorumPorts(s)
    <3>1. PICK d \in BuildDockerCompose(s) :
                 d.name = name /\ Published(host, container) \in d.ports
      BY DEF Publishes
    <3>2. \E b : Gives(s, b, host, <<name, container>>)
      BY <2>3, <3>1, PublishedPorts DEF Published
    <3>3. ASSUME NEW c \in BuildDockerCompose(s), NEW q \in c.ports, q.host = host
          PROVE  <<c.name, q.container>> = <<name, container>>
      <4>1. \E b : Gives(s, b, host, <<c.name, q.container>>)
        BY <2>3, <3>3, PublishedPorts
      <4> QED
        BY <3>2, <4>1, OneListener
    <3>4. Reached(BuildDockerCompose(s), OnHost(host)) = {<<name, container>>}
      <4> DEFINE At(c) == {<<c.name, q.container>> : q \in {r \in c.ports : r.host = host}}
      <4>1. <<name, container>> \in At(d)
        BY <3>1 DEF Published
      <4>2. \A c \in BuildDockerCompose(s) : At(c) \subseteq {<<name, container>>}
        BY <3>3
      <4>3. Reached(BuildDockerCompose(s), OnHost(host))
              = UNION {At(c) : c \in BuildDockerCompose(s)}
        BY DEF Reached, OnHost
      <4> HIDE DEF At
      <4> QED
        BY <4>1, <4>2, <4>3
    <3>5. {<<name, container>>} \ {Outside} = {<<name, container>>}
      BY DEF Outside
    <3> QED
      BY <2>1, <3>4, <3>5 DEF Reaches
  <2> QED
    BY <2>2, <2>3
<1> QED
  BY <1>1, <1>2

(* What the services named in the configuration files publish.             *)
LEMMA OwnPublish ==
  ASSUME NEW s, WellFormed(s), NEW i \in Index(s)
  PROVE  /\ Publishes(s, <<"ipfs", i>>, 5001, MemberPorts(s, i).ipfsApi)
         /\ Publishes(s, <<"ipfs", i>>, 8080, MemberPorts(s, i).ipfsGateway)
         /\ Publishes(s, <<"dataexchange", i>>, 3000, MemberPorts(s, i).dataexchange)
         /\ s.postgres => Publishes(s, <<"postgres", i>>, 5432, MemberPorts(s, i).database)
<1>1. /\ IPFSService(s, i) \in BuildDockerCompose(s)
      /\ DataExchangeService(s, i) \in BuildDockerCompose(s)
      /\ s.postgres => PostgresService(s, i) \in BuildDockerCompose(s)
  BY FileServices DEF IsService, IsOwn
<1>2. /\ IPFSService(s, i).name = <<"ipfs", i>>
      /\ Published(MemberPorts(s, i).ipfsApi, 5001) \in IPFSService(s, i).ports
      /\ Published(MemberPorts(s, i).ipfsGateway, 8080) \in IPFSService(s, i).ports
  BY DEF IPFSService, Bare
<1>3. /\ DataExchangeService(s, i).name = <<"dataexchange", i>>
      /\ Published(MemberPorts(s, i).dataexchange, 3000) \in DataExchangeService(s, i).ports
  BY DEF DataExchangeService, Bare
<1>4. /\ PostgresService(s, i).name = <<"postgres", i>>
      /\ Published(MemberPorts(s, i).database, 5432) \in PostgresService(s, i).ports
  BY DEF PostgresService, Bare
<1> QED
  BY <1>1, <1>2, <1>3, <1>4 DEF Publishes

(* The tokens connectors publish their port.                               *)
LEMMA TokensPublish ==
  ASSUME NEW s, WellFormed(s), NEW i \in Index(s), NEW n \in 0 .. s.tokens - 1
  PROVE  Publishes(s, <<"tokens", i, n>>, 3000, TokensPort(s, i, n))
<1>1. TokensService(s, i, n) \in BuildDockerCompose(s)
  BY FileServices DEF IsService, IsTokens
<1>2. /\ TokensService(s, i, n).name = <<"tokens", i, n>>
      /\ Published(TokensPort(s, i, n), 3000) \in TokensService(s, i, n).ports
  BY DEF TokensService, Bare
<1> QED
  BY <1>1, <1>2 DEF Publishes

(* The blockchain connectors publish their port.                           *)
LEMMA ConnectorPublishes ==
  ASSUME NEW s, WellFormed(s), NEW i \in Index(s)
  PROVE  /\ ConnectorPort(s) \in Nat \ {0}
         /\ Publishes(s, <<s.connector, i>>, ConnectorPort(s), MemberPorts(s, i).connector)
<1>1. CASE s.connector = "ethconnect"
  <2> DEFINE d == EthconnectService(s, i, Dependencies(s))
  <2>1. d \in BuildDockerCompose(s)
    BY <1>1, FileServices DEF IsService, IsConnector
  <2>2. /\ d.name = <<"ethconnect", i>>
        /\ Published(MemberPorts(s, i).connector, 8080) \in d.ports
    BY DEF EthconnectService, Bare
  <2>3. ConnectorPort(s) = 8080
    BY <1>1 DEF ConnectorPort
  <2> HIDE DEF d
  <2> QED
    BY <1>1, <2>1, <2>2, <2>3 DEF Publishes
<1>2. CASE s.connector = "evmconnect"
  <2> DEFINE d == EvmconnectService(s, i, Dependencies(s))
  <2>1. d \in BuildDockerCompose(s)
    BY <1>2, FileServices DEF IsService, IsConnector
  <2>2. /\ d.name = <<"evmconnect", i>>
        /\ Published(MemberPorts(s, i).connector, 5008) \in d.ports
    BY DEF EvmconnectService, Bare
  <2>3. ConnectorPort(s) = 5008
    BY <1>2 DEF ConnectorPort
  <2> HIDE DEF d
  <2> QED
    BY <1>2, <2>1, <2>2, <2>3 DEF Publishes
<1>3. CASE s.connector = "tezosconnect"
  <2> DEFINE d == TezosconnectService(s, i, Dependencies(s))
  <2>1. d \in BuildDockerCompose(s)
    BY <1>3, FileServices DEF IsService, IsConnector
  <2>2. /\ d.name = <<"tezosconnect", i>>
        /\ Published(MemberPorts(s, i).connector, 5008) \in d.ports
    BY DEF TezosconnectService, Bare
  <2>3. ConnectorPort(s) = 5008
    BY <1>3 DEF ConnectorPort
  <2> HIDE DEF d
  <2> QED
    BY <1>3, <2>1, <2>2, <2>3 DEF Publishes
<1>4. CASE s.connector = "fabconnect"
  <2> DEFINE d == FabconnectService(s, i)
  <2>1. d \in BuildDockerCompose(s)
    BY <1>4, FileServices DEF IsService, IsConnector
  <2>2. /\ d.name = <<"fabconnect", i>>
        /\ Published(MemberPorts(s, i).connector, 3000) \in d.ports
    BY DEF FabconnectService, Bare
  <2>3. ConnectorPort(s) = 3000
    BY <1>4 DEF ConnectorPort
  <2> HIDE DEF d
  <2> QED
    BY <1>4, <2>1, <2>2, <2>3 DEF Publishes
<1> QED
  BY <1>1, <1>2, <1>3, <1>4 DEF WellFormed, InitOptions

(* A core in docker listens on its API and its metrics port.               *)
LEMMA CoreListens ==
  ASSUME NEW s, WellFormed(s), NEW i \in Index(s), ~External(s, i)
  PROVE  /\ Listens(s, Core(i), MemberPorts(s, i).firefly)
         /\ s.prometheus => Listens(s, Core(i), MemberPorts(s, i).metrics)
<1> DEFINE d == WaitingCore(s, i)
<1>1. d \in BuildDockerCompose(s)
  BY FileServices DEF IsService, IsCore
<1>2. /\ d.name = Core(i)
      /\ Published(MemberPorts(s, i).firefly, MemberPorts(s, i).firefly) \in d.ports
      /\ s.prometheus => MemberPorts(s, i).metrics \in d.unpublished
  BY DEF WaitingCore, CoreService, Bare, Core
<1> HIDE DEF d
<1> QED
  BY <1>1, <1>2 DEF Listens, Published

(* The ports a member is given are ports.                                  *)
LEMMA CorePorts ==
  ASSUME NEW s, WellFormed(s), NEW i \in Index(s)
  PROVE  /\ MemberPorts(s, i).firefly \in Nat \ {0}
         /\ s.prometheus => /\ MemberPorts(s, i).metrics \in Nat \ {0}
                            /\ MemberPorts(s, i).connectorMetrics \in Nat \ {0}
BY PortsAssumption DEF MemberPorts, MetricsPort, ServiceBase, Index, WellFormed, InitOptions

(* An address of a core reaches it, when it is asked for inside docker.    *)
LEMMA CoreReached ==
  ASSUME NEW s, WellFormed(s), NEW i \in Index(s), NEW by
  PROVE  /\ Reaches(s, Inner(by, Core(i), MemberPorts(s, i).firefly))
         /\ s.prometheus => Reaches(s, Inner(by, Core(i), MemberPorts(s, i).metrics))
<1>1. CASE External(s, i)
  <2>1. ASSUME NEW port PROVE OfAnExternalCore(s, Inner(by, Core(i), port))
    BY <1>1 DEF OfAnExternalCore, Inner, Endpoint, InDocker
  <2> QED
    BY <2>1 DEF Reaches
<1>2. CASE ~External(s, i)
  BY <1>2, CoreListens, CorePorts, InnerReaches
<1> QED
  BY <1>1, <1>2

(* On the host, the port of an external core is nobody's in docker.        *)
LEMMA ExternalCoreReached ==
  ASSUME NEW s, WellFormed(s), Roomy(s), NEW i \in Index(s)
  PROVE  Reaches(s, CoreOf(s, i))
<1>1. CASE ~External(s, i)
  BY <1>1, CoreReached DEF CoreOf
<1>2. CASE External(s, i)
  <2> DEFINE e == CoreOf(s, i)
             port == MemberPorts(s, i).firefly
  <2>1. e.at = OnHost(port) /\ e.means = Outside /\ port = FireflyBase + i
    BY <1>2 DEF CoreOf, MemberPorts
  <2>2. CASE port \in QuorumPorts(s)
    <3>1. OnAQuorumPort(s, e)
      BY <2>1, <2>2 DEF OnAQuorumPort, OnHost
    <3> QED
      BY <3>1 DEF Reaches
  <2>3. CASE port \notin QuorumPorts(s)
    <3>1. ASSUME NEW d \in BuildDockerCompose(s), NEW p \in d.ports, p.host = port
          PROVE  FALSE
      <4>1. PICK b : Gives(s, b, port, <<d.name, p.container>>)
        BY <2>3, <3>1, PublishedPorts
      <4>2. b \in 1 .. 6 /\ port \in Blocks(s)[b]
        BY <4>1, GivenInTheBlock
      <4>3. port \in Blocks(s)[1]
        BY <2>1, PortsAssumption DEF Blocks, Index, WellFormed, InitOptions
      <4>4. b = 1
        BY <4>2, <4>3 DEF Roomy
      <4>5. PICK j \in Index(s) : ~External(s, j) /\ port = FireflyBase + j
        BY <4>1, <4>4 DEF Gives
      <4>6. i = j
        BY <2>1, <4>5, PortsAssumption DEF Index
      <4> QED
        BY <1>2, <4>5, <4>6
    <3>2. Reached(BuildDockerCompose(s), OnHost(port)) = {}
      BY <3>1 DEF Reached, OnHost
    <3> QED
      BY <2>1, <3>2 DEF Reaches
  <2> QED
    BY <2>2, <2>3
<1> QED
  BY <1>1, <1>2

(* The node or the signer in front of it, where the connector asks for it. *)
LEMMA NodeListens ==
  ASSUME NEW s, WellFormed(s), NEW i \in Index(s),
         s.connector \in {"ethconnect", "evmconnect"}
  PROVE  Listens(s, NodeOf(s, i), 8545)
<1>1. CASE s.node = "geth"
  <2>1. GethService \in BuildDockerCompose(s)
    BY <1>1, FileServices DEF IsService, IsNode
  <2>2. GethService.name = <<"geth">> /\ Published(BlockchainPort, 8545) \in GethService.ports
    BY DEF GethService, Bare
  <2> QED
    BY <1>1, <2>1, <2>2 DEF NodeOf, Listens, Published
<1>2. CASE s.node = "quorum"
  <2>1. QuorumService(s, i) \in BuildDockerCompose(s)
    BY <1>2, FileServices DEF IsService, IsNode
  <2>2. /\ QuorumService(s, i).name = <<"quorum", i>>
        /\ Published(QuorumPort(i), 8545) \in QuorumService(s, i).ports
    BY DEF QuorumService, Bare
  <2> QED
    BY <1>2, <2>1, <2>2 DEF NodeOf, Listens, Published
<1>3. CASE s.node \in {"besu", "remote-rpc"}
  <2>1. EthSignerService \in BuildDockerCompose(s)
    BY <1>3, FileServices DEF IsService, IsNode
  <2>2. /\ EthSignerService.name = <<"ethsigner">>
        /\ Published(BlockchainPort, 8545) \in EthSignerService.ports
    BY DEF EthSignerService, Bare
  <2> QED
    BY <1>3, <2>1, <2>2 DEF NodeOf, Listens, Published
<1>4. s.node \in {"geth", "besu", "quorum", "remote-rpc"}
  <2>1. s.node \notin {"tezos", "fabric", "remote-fabric"}
    BY DEF WellFormed, Validated
  <2> QED
    BY <2>1 DEF WellFormed, InitOptions
<1> QED
  BY <1>1, <1>2, <1>3, <1>4

(* Every address of a member's firefly_core.yml reaches what it means.     *)
LEMMA FireflyConfigReaches ==
  ASSUME NEW s, WellFormed(s), Roomy(s), NEW i \in Index(s), NEW e \in FireflyConfig(s, i)
  PROVE  Reaches(s, e)
<1>0. /\ Publishes(s, <<"ipfs", i>>, 5001, MemberPorts(s, i).ipfsApi)
      /\ Publishes(s, <<"ipfs", i>>, 8080, MemberPorts(s, i).ipfsGateway)
      /\ Publishes(s, <<"dataexchange", i>>, 3000, MemberPorts(s, i).dataexchange)
      /\ s.postgres => Publishes(s, <<"postgres", i>>, 5432, MemberPorts(s, i).database)
  BY OwnPublish
<1>1. CASE e \in StorageURLs(s, i)
  <2>1. CASE e = CoreURL(s, i, <<"ipfs", i>>, 5001, MemberPorts(s, i).ipfsApi)
    BY <1>0, <2>1, CoreURLReaches
  <2>2. CASE e = CoreURL(s, i, <<"ipfs", i>>, 8080, MemberPorts(s, i).ipfsGateway)
    BY <1>0, <2>2, CoreURLReaches
  <2>3. CASE e = CoreURL(s, i, <<"dataexchange", i>>, 3000, MemberPorts(s, i).dataexchange)
    BY <1>0, <2>3, CoreURLReaches
  <2> QED
    BY <1>1, <2>1, <2>2, <2>3 DEF StorageURLs
<1>2. CASE e \in DatabaseURL(s, i)
  <2>1. /\ s.postgres
        /\ e = CoreURL(s, i, <<"postgres", i>>, 5432, MemberPorts(s, i).database)
    BY <1>2 DEF DatabaseURL
  <2> QED
    BY <1>0, <2>1, CoreURLReaches
<1>3. CASE e \in TokensURLs(s, i)
  <2>1. PICK n \in 0 .. s.tokens - 1 :
               e = CoreURL(s, i, <<"tokens", i, n>>, 3000, TokensPort(s, i, n))
    BY <1>3 DEF TokensURLs
  <2> QED
    BY <2>1, TokensPublish, CoreURLReaches
<1>4. CASE e = ConnectorURL(s, i)
  BY <1>4, ConnectorPublishes, CoreURLReaches DEF ConnectorURL
<1> QED
  BY <1>1, <1>2, <1>3, <1>4 DEF FireflyConfig

(* Every address of Fabric's ccp.yaml reaches what it means.               *)
LEMMA NetworkConfigReaches ==
  ASSUME NEW s, WellFormed(s), NEW i \in Index(s), s.connector = "fabconnect",
         NEW e \in NetworkConfig(s, i)
  PROVE  Reaches(s, e)
<1>1. s.node = "fabric"
  <2>1. s.node # "remote-fabric"
    BY DEF NetworkConfig
  <2>2. s.node \notin {"geth", "besu", "quorum", "remote-rpc", "tezos"}
    BY DEF WellFormed, Validated
  <2> QED
    BY <2>1, <2>2 DEF WellFormed, InitOptions
<1>2. {FabricCAService, FabricOrdererService, FabricPeerService}
        \subseteq BuildDockerCompose(s)
  BY <1>1, FileServices DEF IsService, IsNode
<1>3. /\ FabricCAService.name = <<"fabric_ca">>
      /\ Published(7054, 7054) \in FabricCAService.ports
  BY DEF FabricCAService, Bare
<1>4. /\ FabricOrdererService.name = <<"fabric_orderer">>
      /\ Published(7050, 7050) \in FabricOrdererService.ports
  BY DEF FabricOrdererService, Bare
<1>5. /\ FabricPeerService.name = <<"fabric_peer">>
      /\ Published(7051, 7051) \in FabricPeerService.ports
  BY DEF FabricPeerService, Bare
<1>6. /\ Listens(s, <<"fabric_ca">>, 7054)
      /\ Listens(s, <<"fabric_orderer">>, 7050)
      /\ Listens(s, <<"fabric_peer">>, 7051)
  BY <1>2, <1>3, <1>4, <1>5 DEF Listens, Published
<1> QED
  BY <1>1, <1>6, InnerReaches DEF NetworkConfig

(* Every address of a connector's configuration reaches what it means.     *)
LEMMA ConnectorConfigReaches ==
  ASSUME NEW s, WellFormed(s), Roomy(s), NEW i \in Index(s), NEW e \in ConnectorConfig(s, i)
  PROVE  Reaches(s, e)
<1>1. CASE s.connector = "ethconnect"
  <2>1. e = Inner(<<"ethconnect", i>>, NodeOf(s, i), 8545)
    BY <1>1 DEF ConnectorConfig, EthconnectConfig
  <2> QED
    BY <1>1, <2>1, NodeListens, InnerReaches
<1>2. CASE s.connector = "evmconnect"
  <2>1. e = Inner(<<"evmconnect", i>>, NodeOf(s, i), 8545) \/ e = CoreOf(s, i)
    BY <1>2 DEF ConnectorConfig, EvmconnectConfig
  <2> QED
    BY <1>2, <2>1, NodeListens, InnerReaches, ExternalCoreReached
<1>3. CASE s.connector = "tezosconnect"
  <2>1. e = Inner(<<"tezosconnect", i>>, <<"tezossigner">>, 6732) \/ e = CoreOf(s, i)
    BY <1>3 DEF ConnectorConfig, TezosconnectConfig
  <2>2. s.node = "tezos"
    <3>1. s.node \notin {"geth", "besu", "quorum", "remote-rpc", "fabric", "remote-fabric"}
      BY <1>3 DEF WellFormed, Validated
    <3> QED
      BY <3>1 DEF WellFormed, InitOptions
  <2>3. TezosSignerService \in BuildDockerCompose(s)
    BY <2>2, FileServices DEF IsService, IsNode
  <2>4. /\ TezosSignerService.name = <<"tezossigner">>
        /\ Published(BlockchainPort, 6732) \in TezosSignerService.ports
    BY DEF TezosSignerService, Bare
  <2>5. Listens(s, <<"tezossigner">>, 6732)
    BY <2>3, <2>4 DEF Listens, Published
  <2> QED
    BY <2>1, <2>5, InnerReaches, ExternalCoreReached
<1>4. CASE s.connector = "fabconnect"
  <2>1. e \in NetworkConfig(s, i)
    BY <1>4 DEF ConnectorConfig
  <2> QED
    BY <1>4, <2>1, NetworkConfigReaches
<1> QED
  BY <1>1, <1>2, <1>3, <1>4 DEF WellFormed, InitOptions

(* Tessera listens on the ports the Quorum nodes and its peers use.        *)
LEMMA TesseraListens ==
  ASSUME NEW s, WellFormed(s), s.ptm = "tessera", NEW i \in Index(s),
         NEW port \in {9080, 9101, 9000}
  PROVE  Listens(s, <<"tessera", i>>, port)
<1>1. TesseraService(i) \in BuildDockerCompose(s)
  BY FileServices DEF IsService, IsNode
<1>2. /\ TesseraService(i).name = <<"tessera", i>>
      /\ Published(TesseraPort(i), 9080) \in TesseraService(i).ports
      /\ {9101, 9000} \subseteq TesseraService(i).unpublished
  BY DEF TesseraService, Bare
<1> QED
  BY <1>1, <1>2 DEF Listens, Published

(* Every address of a Quorum node's entrypoint reaches what it means.      *)
LEMMA NodeConfigReaches ==
  ASSUME NEW s, WellFormed(s), NEW i \in Index(s), NEW e \in NodeConfig(s, i)
  PROVE  Reaches(s, e)
<1>1. s.node = "quorum"
  BY DEF NodeConfig
<1>2. CASE e = Inner(<<"quorum", i>>, <<"quorum", 0>>, 8545)
  <2>1. 0 \in Index(s)
    BY DEF WellFormed, Validated, InitOptions, Index
  <2>2. QuorumService(s, 0) \in BuildDockerCompose(s)
    BY <1>1, <2>1, FileServices DEF IsService, IsNode
  <2>3. /\ QuorumService(s, 0).name = <<"quorum", 0>>
        /\ Published(QuorumPort(0), 8545) \in QuorumService(s, 0).ports
    BY DEF QuorumService, Bare
  <2>4. Listens(s, <<"quorum", 0>>, 8545)
    BY <2>2, <2>3 DEF Listens, Published
  <2> QED
    BY <1>2, <2>4, InnerReaches
<1>3. CASE s.ptm = "tessera" /\ \/ e = Inner(<<"quorum", i>>, <<"tessera", i>>, 9080)
                                \/ e = Inner(<<"quorum", i>>, <<"tessera", i>>, 9101)
  BY <1>3, TesseraListens, InnerReaches
<1>4. CASE s.ptm = "tessera" /\ e \in TesseraEntrypoint(s, i)
  <2>1. PICK j \in Index(s) : e = Inner(<<"tessera", i>>, <<"tessera", j>>, 9000)
    BY <1>4 DEF TesseraEntrypoint
  <2> QED
    BY <1>4, <2>1, TesseraListens, InnerReaches
<1> QED
  BY <1>1, <1>2, <1>3, <1>4 DEF NodeConfig, QuorumEntrypoint

(* Every target of prometheus.yml reaches what it means.                   *)
LEMMA PrometheusConfigReaches ==
  ASSUME NEW s, WellFormed(s), NEW e \in GeneratePrometheusConfig(s)
  PROVE  Reaches(s, e)
<1>1. s.prometheus
  BY DEF GeneratePrometheusConfig
<1>2. ASSUME NEW i \in Index(s),
             e = Inner(<<"prometheus">>, Core(i), MemberPorts(s, i).metrics)
      PROVE  Reaches(s, e)
  BY <1>1, <1>2, CoreReached
<1>3. ASSUME NEW i \in Index(s), s.connector = "evmconnect",
             e = Inner(<<"prometheus">>, <<"evmconnect", i>>,
                       MemberPorts(s, i).connectorMetrics)
      PROVE  Reaches(s, e)
  <2> DEFINE d == EvmconnectService(s, i, Dependencies(s))
  <2>1. d \in BuildDockerCompose(s)
    BY <1>3, FileServices DEF IsService, IsConnector
  <2>2. d.name = <<"evmconnect", i>> /\ MemberPorts(s, i).connectorMetrics \in d.unpublished
    BY <1>1 DEF EvmconnectService, Bare
  <2> HIDE DEF d
  <2>3. Listens(s, <<"evmconnect", i>>, MemberPorts(s, i).connectorMetrics)
    BY <2>1, <2>2 DEF Listens
  <2> QED
    BY <1>1, <1>3, <2>3, CorePorts, InnerReaches
<1> QED
  BY <1>1, <1>2, <1>3 DEF GeneratePrometheusConfig

(* What the configuration files name is reached.                           *)
LEMMA ConfigurationReaches ==
  ASSUME NEW s, WellFormed(s), Roomy(s), NEW e \in WriteConfig(s)
  PROVE  Reaches(s, e)
<1>1. CASE e \in SignerConfig(s)
  <2>1. s.node = "besu" /\ e = Inner(<<"ethsigner">>, <<"besu">>, 8545)
    BY <1>1 DEF SignerConfig
  <2>2. BesuService \in BuildDockerCompose(s)
    BY <2>1, FileServices DEF IsService, IsNode
  <2>3. BesuService.name = <<"besu">> /\ 8545 \in BesuService.unpublished
    BY DEF BesuService, Bare
  <2>4. Listens(s, <<"besu">>, 8545)
    BY <2>2, <2>3 DEF Listens
  <2> QED
    BY <2>1, <2>4, InnerReaches
<1>2. ASSUME NEW i \in Index(s), e \in TokensEnvironment(s, i) PROVE Reaches(s, e)
  <2>1. PICK n \in 0 .. s.tokens - 1 :
               e = Inner(<<"tokens", i, n>>, <<s.connector, i>>, ConnectorPort(s))
    BY <1>2 DEF TokensEnvironment
  <2> QED
    BY <2>1, ConnectorPublishes, PublisherListens, InnerReaches
<1>3. ASSUME NEW i \in Index(s), e \in SandboxEnvironment(s, i) PROVE Reaches(s, e)
  BY <1>3, CoreReached DEF SandboxEnvironment
<1> QED
  BY <1>1, <1>2, <1>3, PrometheusConfigReaches, FireflyConfigReaches, ConnectorConfigReaches,
     NodeConfigReaches DEF WriteConfig
=============================================================================
