------------------------------- MODULE Provider -------------------------------
(***************************************************************************)
(* The blockchain provider of a stack (IBlockchainProvider): what it makes *)
(* of accounts and of FireFly's contract from init to reset.               *)
(*                                                                         *)
(* An account is a wallet in init/, which the first-time setup copies to   *)
(* the volume of a node or a signer, and an entry of the state.  Geth and  *)
(* Quorum unlock every account of the state at every start, each Quorum    *)
(* node those of its own volume; EthSigner (in front of Besu or a remote   *)
(* node) and the Tezos signer read the wallets; Fabric registers a name    *)
(* with the CA and enrolls it.  Every command can break off at each of its *)
(* steps, a setup among the wallets and a tear-down among the volumes.     *)
(* Deployments on Ethereum are in ContractDeploy, and commands that        *)
(* overlap in the state in StackState.                                     *)
(***************************************************************************)
EXTENDS Chaincode, FiniteSets

CONSTANTS
  Kinds,       \* the providers
  Members,     \* how many members a stack has
  MaxAccounts  \* bound: accounts created after init

ASSUME ProviderAssumption ==
  /\ Kinds \subseteq {"geth", "quorum", "ethsigner", "tezos", "fabric", "remote-fabric"}
  /\ Members \in Nat \ {0}
  /\ MaxAccounts \in Nat

VARIABLES
  kind,      \* the provider of the stack
  setUp,     \* "yes" once there is a runtime directory (HasRunBefore)
  up,        \* "yes" while the containers run
  step,      \* how far a start is, or "none"
  first,     \* "yes" in a first start
  finished,  \* "yes" from a first start that succeeded to the next tear-down
  report,    \* what the last start said, until the next stop
  files,     \* the wallets in init/, for each node
  volume,    \* those in the node's volume
  copied,    \* the nodes whose volume the setup has filled, and that still have it
  unlocked,  \* the accounts the node has unlocked
  accounts,  \* the accounts in runtime/stackState.json
  pending,   \* those a start has left to unlock or to register
  made,      \* how many accounts were created after init
  premade,   \* "yes" if one was created before the first start
  tmFiles,   \* the account each Tessera's key in init/ was made for
  tm,        \* and the one it runs with
  created,   \* the names the CA knows
  enrolled,  \* those that have been enrolled
  leftover,  \* "yes" if a tear-down has removed runtime/ and not the volumes
  overlapped \* "yes" if the peer had a package of the user's, or got one, in the setup

startVars == <<setUp, up, step, first, finished, report, leftover>>
walletVars == <<files, volume, copied, unlocked, made, premade, tmFiles, tm>>
nameVars == <<created, enrolled>>
vars == <<kind, startVars, walletVars, nameVars, accounts, pending, overlapped, chaincodeVars>>

Index == 0 .. Members - 1
Member(i) == <<"member", i>>
New(n) == <<"new", n>>
OfMembers == {Member(i) : i \in Index}
NoAccount == <<"none", 0>>
Everyone == OfMembers \cup {New(n) : n \in 1 .. MaxAccounts}

OnFabric == kind \in {"fabric", "remote-fabric"}
Unlocks == kind \in {"geth", "quorum"}

(* The nodes, or signers, that have a volume of their own.                 *)
Nodes == IF kind = "quorum" THEN Index ELSE IF OnFabric THEN {} ELSE {0}
Nowhere == [n \in Index |-> {}]
NoKey == [n \in Index |-> NoAccount]

(* The wallet is one more file, but for Tezos, where there is one file.    *)
WithWallet(wallets, n, a) ==
  [wallets EXCEPT ![n] = IF kind = "tezos" THEN {a} ELSE @ \cup {a}]

WalletsAtInit ==
  [n \in Index |->
     IF kind = "quorum" THEN {Member(n)}
     ELSE IF n # 0 \/ OnFabric THEN {}
     ELSE IF kind = "tezos" THEN {Member(Members - 1)} ELSE OfMembers]

Init ==
  /\ kind \in Kinds
  /\ setUp = "no" /\ up = "no" /\ step = "none" /\ first = "no"
  /\ finished = "no" /\ report = "none"
  /\ files = WalletsAtInit
  /\ volume = Nowhere /\ copied = {} /\ unlocked = Nowhere
  /\ accounts = {} /\ pending = {}
  /\ made = 0 /\ premade = "no"
  /\ tmFiles = [n \in Index |-> IF kind = "quorum" THEN Member(n) ELSE NoAccount]
  /\ tm = NoKey
  /\ created = {} /\ enrolled = {}
  /\ leftover = "no" /\ overlapped = "no"
  /\ ChaincodeInit

Deploying == job["deploy"].step # "idle"

-----------------------------------------------------------------------------
(* ff start, the first one.                                                *)

(* The runtime directory is made, and with it the stack has run before.    *)
FirstStart ==
  /\ step = "none" /\ setUp = "no"
  /\ setUp' = "yes" /\ first' = "yes" /\ step' = "copy" /\ report' = "none"
  /\ copied' = {}
  /\ overlapped' = IF Deploying \/ installed # {} THEN "yes" ELSE "no"
  /\ UNCHANGED <<kind, up, finished, leftover, files, volume, unlocked, made, premade,
                 tmFiles, tm, nameVars, accounts, pending, chaincodeVars>>

(* init/ has been copied to it, and the state that names the members.      *)
CopyInit ==
  /\ step = "copy"
  /\ accounts' = OfMembers
  /\ step' = "volumes"
  /\ UNCHANGED <<kind, setUp, up, first, finished, report, leftover, walletVars, nameVars,
                 pending, overlapped, chaincodeVars>>

\* MUTANT: the wallet of the member with the node's index, and no other.
OwnWalletToVolume(n) ==
  volume' = [volume EXCEPT ![n] = IF kind = "tezos" THEN files[n]
                                                    ELSE @ \cup (files[n] \cap {Member(n)})]

(* What a tear-down has left in the volume stays beside them.              *)
WalletsToVolume(n) ==
  volume' = [volume EXCEPT ![n] = IF kind = "tezos" THEN files[n] ELSE @ \cup files[n]]

(* The nodes are filled one after the other.                               *)
Following(n) == n \notin copied /\ \A m \in Nodes : m < n => m \in copied

(* FirstTimeSetup of the provider: the wallets, and with Quorum then the   *)
(* key of the node's Tessera.                                              *)
CopyWallets(n) ==
  /\ step = "volumes"
  /\ Following(n)
  /\ WalletsToVolume(n)
  /\ IF kind = "quorum" THEN step' = "keys" /\ copied' = copied
                        ELSE step' = "volumes" /\ copied' = copied \cup {n}
  /\ UNCHANGED <<kind, setUp, up, first, finished, report, leftover, files, unlocked, made,
                 premade, tmFiles, tm, nameVars, accounts, pending, overlapped, chaincodeVars>>

CopyKey(n) ==
  /\ step = "keys"
  /\ Following(n)
  /\ tm' = [tm EXCEPT ![n] = tmFiles[n]]
  /\ copied' = copied \cup {n} /\ step' = "volumes"
  /\ UNCHANGED <<kind, setUp, up, first, finished, report, leftover, files, volume, unlocked,
                 made, premade, tmFiles, nameVars, accounts, pending, overlapped,
                 chaincodeVars>>

(* docker compose up.                                                      *)
SetupAndUp ==
  /\ step = "volumes" /\ copied = Nodes
  /\ up' = "yes"
  /\ step' = IF kind = "fabric" THEN "channel" ELSE "accounts"
  /\ pending' = IF Unlocks \/ OnFabric THEN accounts ELSE {}
  /\ UNCHANGED <<kind, setUp, first, finished, report, leftover, walletVars, nameVars, accounts,
                 overlapped, chaincodeVars>>

(* PostStart of the first start, with Fabric.                              *)
SetupChannel ==
  /\ step \in {"channel", "join"}
  /\ IF step = "channel" THEN CreateChannel /\ step' = "join"
                         ELSE JoinChannel /\ step' = "accounts"
  /\ UNCHANGED <<kind, setUp, up, first, finished, report, leftover, walletVars, nameVars,
                 accounts, pending, overlapped>>

\* MUTANT: the name is not enrolled.
RegisterWithoutEnrolling(a) ==
  /\ a \notin created
  /\ created' = created \cup {a}
  /\ enrolled' = enrolled

(* registerIdentity: the CA knows a name once.                             *)
Register(a) ==
  /\ a \notin created
  /\ created' = created \cup {a}
  /\ enrolled' = enrolled \cup {a}

(* And with a name that is registered, the enrolment can still fail.       *)
RegisterOnly(a) ==
  /\ a \notin created
  /\ created' = created \cup {a}
  /\ enrolled' = enrolled

RegisterIdentity(a) ==
  /\ step = "accounts" /\ OnFabric
  /\ a \in pending
  /\ Register(a)
  /\ pending' = pending \ {a}
  /\ UNCHANGED <<kind, startVars, walletVars, accounts, overlapped, chaincodeVars>>

-----------------------------------------------------------------------------
(* PostStart, with Geth and Quorum.                                        *)

\* MUTANT: the member's index is not taken over.
UnlockedOnTheFirst(a) == 0

(* An account that is no member's passes for one of the first member's.    *)
UnlockedOn(a) == IF kind = "quorum" /\ a \in OfMembers THEN a[2] ELSE 0

UnlockAccount(a) ==
  /\ step \in {"accounts", "restarted"} /\ Unlocks
  /\ a \in pending
  /\ a \in volume[UnlockedOn(a)]
  /\ unlocked' = [unlocked EXCEPT ![UnlockedOn(a)] = @ \cup {a}]
  /\ pending' = pending \ {a}
  /\ UNCHANGED <<kind, startVars, files, volume, copied, made, premade, tmFiles, tm, nameVars,
                 accounts, overlapped, chaincodeVars>>

(* ff start, a later one: every account of the state again.                *)
StartAgain ==
  /\ step = "none" /\ setUp = "yes"
  /\ up' = "yes" /\ step' = "accounts" /\ first' = "no" /\ report' = "none"
  /\ pending' = IF Unlocks THEN accounts ELSE {}
  /\ UNCHANGED <<kind, setUp, finished, leftover, walletVars, nameVars, accounts, overlapped,
                 chaincodeVars>>

-----------------------------------------------------------------------------
(* The end of a start.                                                     *)

(* DeployFireFlyContract, on a network of the stack's own.                 *)
DeployFireFlyContract ==
  /\ step = "accounts" /\ pending = {} /\ first = "yes" /\ kind = "fabric"
  /\ step' = "contract"
  /\ BeginJob("setup", FireFlyPackage, FireFlyName)
  /\ UNCHANGED <<kind, setUp, up, first, finished, report, leftover, walletVars, nameVars,
                 accounts, pending, overlapped>>

(* All containers are stopped and started again, with the final            *)
(* configuration.                                                          *)
StopForRestart ==
  /\ first = "yes"
  /\ \/ step = "accounts" /\ pending = {} /\ kind # "fabric"
     \/ step = "contract" /\ job["setup"].step = "committed"
  /\ step' = "stopped" /\ up' = "no"
  /\ unlocked' = Nowhere
  /\ UNCHANGED <<kind, setUp, first, finished, report, leftover, files, volume, copied, made,
                 premade, tmFiles, tm, nameVars, accounts, pending, overlapped, chaincodeVars>>

Restart ==
  /\ step = "stopped"
  /\ step' = "restarted" /\ up' = "yes"
  /\ pending' = IF Unlocks THEN accounts ELSE {}
  /\ UNCHANGED <<kind, setUp, first, finished, report, leftover, walletVars, nameVars,
                 accounts, overlapped, chaincodeVars>>

(* A first start writes the state at its end.                              *)
FinishStart ==
  /\ pending = {}
  /\ step = IF first = "yes" THEN "restarted" ELSE "accounts"
  /\ step' = "none" /\ first' = "no" /\ report' = "started"
  /\ finished' = IF first = "yes" THEN "yes" ELSE finished
  /\ IF job["setup"].step = "committed" THEN ReportContract("setup") ELSE UNCHANGED chaincodeVars
  /\ UNCHANGED <<kind, setUp, up, leftover, walletVars, nameVars, accounts, pending, overlapped>>

\* MUTANT: the state stays.
TearDownKeepingState ==
  /\ setUp' = "no" /\ up' = "no" /\ finished' = "no" /\ leftover' = "no"
  /\ accounts' = accounts /\ unlocked' = Nowhere /\ contracts' = {}
  /\ volume' = Nowhere /\ copied' = {} /\ tm' = NoKey
  /\ created' = IF kind = "remote-fabric" THEN created ELSE {}
  /\ enrolled' = {}
  /\ LoseNetwork

(* down, the runtime directory and the volumes removed.  What the CA and   *)
(* the peer know is in their containers and volumes, a remote CA's is not. *)
TearDown ==
  /\ setUp' = "no" /\ up' = "no" /\ finished' = "no" /\ leftover' = "no"
  /\ accounts' = {} /\ unlocked' = Nowhere /\ contracts' = {}
  /\ volume' = Nowhere /\ copied' = {} /\ tm' = NoKey
  /\ created' = IF kind = "remote-fabric" THEN created ELSE {}
  /\ enrolled' = {}
  /\ LoseNetwork

(* down fails, and not all containers need be there.                       *)
DownFails ==
  /\ \/ up' = "no" /\ unlocked' = Nowhere
     \/ UNCHANGED <<up, unlocked>>
  /\ UNCHANGED <<setUp, finished, leftover, accounts, volume, copied, tm, nameVars,
                 networkVars, contracts>>

(* The runtime directory is not, or only in part, removed.                 *)
RuntimeStays ==
  /\ up' = "no" /\ finished' = "no" /\ unlocked' = Nowhere
  /\ accounts' \in {accounts, {}}
  /\ UNCHANGED <<setUp, leftover, volume, copied, tm, nameVars, networkVars, contracts>>

(* The removal of the volumes breaks off: those of nodes and of Tesseras,  *)
(* the CA's, and of the network that of the orderer or the peer, may stay. *)
SomeVolumesStay ==
  /\ up' = "no" /\ finished' = "no" /\ unlocked' = Nowhere /\ contracts' = {}
  /\ \E nodes, keys \in SUBSET Nodes :
       /\ volume' = [n \in Index |-> IF n \in nodes THEN volume[n] ELSE {}]
       /\ tm' = [n \in Index |-> IF n \in keys THEN tm[n] ELSE NoAccount]
       /\ copied' = copied \cap nodes \cap keys
  /\ created' \in {created} \cup {c \in {{}} : kind # "remote-fabric"}
  /\ enrolled' \in {{}, enrolled \cap created'}
  /\ \/ UNCHANGED networkVars
     \/ LosePeer
     \/ LoseOrderer
     \/ LoseNetwork

(* Without its runtime directory a stack has not run before, and the next  *)
(* start is a first one.                                                   *)
VolumesStay ==
  /\ setUp' = "no" /\ leftover' = "yes" /\ accounts' = {}
  /\ SomeVolumesStay

TearDownBreaksOff ==
  \/ DownFails
  \/ RuntimeStays
  \/ VolumesStay

(* Any step of a start can fail, an unlock after its retries.  A first     *)
(* start is rolled back, which can itself break off, but for --no-rollback *)
(* or a kill.  What else is done stays done, runtime/ and its state among  *)
(* it, as it does after a later start.                                     *)
FailStart ==
  /\ step # "none"
  /\ step' = "none" /\ first' = "no" /\ report' = "failed"
  /\ pending' = {}
  /\ job' = [job EXCEPT !["setup"] = Idle]
  /\ \/ first = "yes" /\ TearDown
     \/ first = "yes" /\ TearDownBreaksOff
     \/ UNCHANGED <<setUp, up, finished, leftover, volume, copied, unlocked, tm, accounts,
                    nameVars, networkVars, contracts>>
  /\ UNCHANGED <<kind, files, made, premade, tmFiles, overlapped>>

-----------------------------------------------------------------------------
(* The other commands.                                                     *)

StopStack ==
  /\ step = "none" /\ up = "yes"
  /\ up' = "no" /\ report' = "none"
  /\ unlocked' = Nowhere
  /\ UNCHANGED <<kind, setUp, step, first, finished, leftover, files, volume, copied, made,
                 premade, tmFiles, tm, nameVars, accounts, pending, overlapped, chaincodeVars>>

(* A tear-down while a chaincode is being deployed is left to StackState.  *)
ResetStack ==
  /\ step = "none" /\ setUp = "yes" /\ ~Deploying
  /\ TearDown \/ TearDownBreaksOff
  /\ report' = "none"
  /\ UNCHANGED <<kind, step, first, files, made, premade, tmFiles, pending, overlapped, job>>

(* RemoveStack removes the volumes first, so that a stack can lose them    *)
(* and keep its state.  One that ends leaves no stack.                     *)
RemoveBreaksOff ==
  /\ step = "none" /\ ~Deploying
  /\ \/ DownFails
     \/ SomeVolumesStay /\ UNCHANGED <<setUp, leftover, accounts>>
  /\ report' = "none"
  /\ UNCHANGED <<kind, step, first, files, made, premade, tmFiles, pending, overlapped, job>>

(* ff accounts create before the first start: the wallet, and Tessera's    *)
(* only key file, go to init/; then there is no runtime/ for the state.    *)
CreateAccountTooEarly(n) ==
  /\ step = "none" /\ setUp = "no"
  /\ made < MaxAccounts
  /\ made' = made + 1 /\ premade' = "yes"
  /\ files' = WithWallet(files, n, New(made + 1))
  /\ tmFiles' = IF kind = "quorum" THEN [tmFiles EXCEPT ![n] = New(made + 1)] ELSE tmFiles
  /\ UNCHANGED <<kind, startVars, volume, copied, unlocked, tm, nameVars, accounts, pending,
                 overlapped, chaincodeVars>>

\* MUTANT: the account is not unlocked.
CreateAccountLocked(n) ==
  /\ step = "none" /\ setUp = "yes"
  /\ made < MaxAccounts
  /\ made' = made + 1
  /\ volume' = WithWallet(volume, n, New(made + 1))
  /\ accounts' = accounts \cup {New(made + 1)}
  /\ UNCHANGED <<kind, startVars, files, copied, unlocked, premade, tmFiles, tm, nameVars,
                 pending, overlapped, chaincodeVars>>

(* The wallet goes to the volume; the account is unlocked where that is    *)
(* asked for, and recorded; without a node to unlock it it is not.  Either *)
(* step can be the last.  The new key of a Tessera stays in runtime/.      *)
CreateAccount(n) ==
  /\ step = "none" /\ setUp = "yes"
  /\ made < MaxAccounts
  /\ made' = made + 1
  /\ volume' = WithWallet(volume, n, New(made + 1))
  /\ \/ /\ Unlocks => up = "yes"
        /\ unlocked' = IF Unlocks THEN [unlocked EXCEPT ![n] = @ \cup {New(made + 1)}]
                                  ELSE unlocked
        /\ accounts' \in {accounts, accounts \cup {New(made + 1)}}
     \/ UNCHANGED <<unlocked, accounts>>
  /\ UNCHANGED <<kind, startVars, files, copied, premade, tmFiles, tm, nameVars, pending,
                 overlapped, chaincodeVars>>

(* With Fabric, the name is registered over the connector of its member.   *)
CreateIdentity ==
  /\ step = "none" /\ setUp = "yes" /\ up = "yes" /\ OnFabric
  /\ made < MaxAccounts
  /\ made' = made + 1
  /\ \/ /\ Register(New(made + 1))
        /\ accounts' \in {accounts, accounts \cup {New(made + 1)}}
     \/ RegisterOnly(New(made + 1)) /\ accounts' = accounts
  /\ UNCHANGED <<kind, startVars, files, volume, copied, unlocked, premade, tmFiles, tm,
                 pending, overlapped, chaincodeVars>>

(* ff deploy fabric, at any time after init.                               *)
DeployContract(package, name) ==
  /\ kind = "fabric"
  /\ setUp = "yes"
  /\ BeginJob("deploy", package, name)
  /\ overlapped' = IF first = "yes" THEN "yes" ELSE overlapped
  /\ UNCHANGED <<kind, startVars, walletVars, nameVars, accounts, pending>>

RunJob(j) ==
  /\ \/ up = "yes" /\ ChaincodeStep(j)
     \/ j = "deploy" /\ setUp = "yes" /\ ReportContract(j)
     \/ j = "deploy" /\ JobFails(j)
  /\ UNCHANGED <<kind, startVars, walletVars, nameVars, accounts, pending, overlapped>>

Next ==
  \/ FirstStart
  \/ CopyInit
  \/ \E n \in Nodes : CopyWallets(n)
  \/ \E n \in Nodes : CopyKey(n)
  \/ SetupAndUp
  \/ SetupChannel
  \/ \E a \in pending : RegisterIdentity(a)
  \/ \E a \in pending : UnlockAccount(a)
  \/ StartAgain
  \/ DeployFireFlyContract
  \/ StopForRestart
  \/ Restart
  \/ FinishStart
  \/ FailStart
  \/ StopStack
  \/ ResetStack
  \/ RemoveBreaksOff
  \/ \E n \in Nodes : CreateAccountTooEarly(n)
  \/ \E n \in Nodes : CreateAccount(n)
  \/ CreateIdentity
  \/ \E package \in Packages \ {FireFlyPackage}, name \in ChaincodeNames :
       DeployContract(package, name)
  \/ \E j \in Jobs : RunJob(j)

Spec == Init /\ [][Next]_vars

-----------------------------------------------------------------------------
JobType ==
  [step : {"idle", "install", "query", "approve", "commit", "committed"},
   given : Packages \cup {NoPackage}, name : ChaincodeNames,
   chosen : Packages \cup {NoPackage}]

TypeOK ==
  /\ kind \in Kinds
  /\ {setUp, up, first, finished, leftover, premade, overlapped} \subseteq {"yes", "no"}
  /\ step \in {"none", "copy", "volumes", "keys", "channel", "join", "accounts", "contract",
              "stopped", "restarted"}
  /\ report \in {"none", "started", "failed"}
  /\ \A f \in {files, volume, unlocked} : f \in [Index -> SUBSET Everyone]
  /\ \A n \in Index : unlocked[n] \subseteq volume[n]
  /\ copied \subseteq Nodes
  /\ setUp = "no" => accounts = {}
  /\ accounts \subseteq Everyone
  /\ pending \subseteq accounts
  /\ made \in 0 .. MaxAccounts
  /\ \A f \in {tmFiles, tm} : f \in [Index -> Everyone \cup {NoAccount}]
  /\ enrolled \subseteq created /\ created \subseteq Everyone
  /\ channel \in {"none", "created", "joined", "stale"}
  /\ installed \subseteq Packages
  /\ approved \in [ChaincodeNames -> Packages \cup {NoPackage}]
  /\ committed \subseteq ChaincodeNames
  /\ contracts \subseteq [name : ChaincodeNames, package : Packages]
  /\ job \in [Jobs -> JobType]

(* Whoever the state of a finished stack names can sign: the wallet is in  *)
(* a node's or the signer's volume, and the name enrolled with the CA, and *)
(* each Tessera has the key of its member's account.  The Tezos signer has *)
(* one key, however many accounts there are (tezossigner.go:143), and a    *)
(* Tessera's is overwritten by an account made before the first start      *)
(* (quorum_provider.go:384-391).                                           *)
RecordedCanSign ==
  finished = "yes" =>
    /\ OnFabric => accounts \subseteq enrolled
    /\ kind \in {"geth", "ethsigner", "quorum"} => accounts \subseteq UNION {volume[n] : n \in Nodes}
    /\ kind = "tezos" => Cardinality(volume[0]) = 1
    /\ kind = "quorum" /\ premade = "no" => \A i \in Index : tm[i] = Member(i)

(* From a start that succeeded to the next stop, every account of the      *)
(* state is unlocked on a node: those of the start, whatever the setup or  *)
(* a tear-down left undone before, and those created since (PostStart,     *)
(* CreateAccount).                                                         *)
StartedIsUnlocked ==
  report = "started" /\ Unlocks => \A a \in accounts : \E n \in Nodes : a \in unlocked[n]

(* Of a setup that was cut short before every node had its wallets the     *)
(* state names members nobody can unlock, so that no later start succeeds, *)
(* and a RemoveStack that broke off has lost some.  For any other stack,   *)
(* however often its starts failed, every account a start has to unlock is *)
(* known to the node it asks; and every name it is to register is new to   *)
(* the CA, if the last tear-down removed the CA's volume.  An account made *)
(* for another Quorum node than the first is asked of the first one        *)
(* (quorum_provider.go:193), and a remote CA still knows the members from  *)
(* before a reset.                                                         *)
StartIsNotDoomed ==
  step \in {"accounts", "restarted"} =>
    /\ Unlocks /\ copied = Nodes =>
         \A a \in pending : \/ a \in volume[UnlockedOn(a)]
                            \/ kind = "quorum" /\ \E n \in Nodes \ {0} : New(a[2]) = a /\ a \in volume[n]
    /\ kind = "fabric" /\ leftover = "no" => pending \cap created = {}

(* A chaincode whose deployment was reported runs the package that was     *)
(* given, unless the peer has another package whose label goes by the      *)
(* name; FireFly's does, unless the setup met a package of the user's      *)
(* (DeployContract, fabric_provider.go:549-560, takes the last match of    *)
(* the list, deploySmartContracts:181 the first entry of it).              *)
ContractsRunTheirPackage ==
  \A c \in contracts :
    \/ c.name \in committed /\ approved[c.name] = c.package
    \/ overlapped = "yes"
    \/ \E p \in installed \ {c.package} : c.name \in NamesOf[p]

(* A first start that succeeded on a Fabric network of the stack's own has *)
(* joined the channel, enrolled every member and committed FireFly's       *)
(* chaincode, and nothing short of a tear-down takes that back.            *)
FinishedSetupIsUsable ==
  finished = "yes" /\ kind = "fabric" =>
    /\ channel = "joined"
    /\ OfMembers \subseteq enrolled
    /\ FireFlyName \in committed
    /\ \E c \in contracts : c.name = FireFlyName

=============================================================================
