---------------------------- MODULE ProviderProofs ----------------------------
(***************************************************************************)
(* Proofs about Provider, for every provider, any number of members and of *)
(* accounts, and any packages.                                             *)
(*                                                                         *)
(* The properties speak of a stack whose first start is over.  What holds  *)
(* while a start is under way, and what an abandoned one leaves, is in the *)
(* parts of IInv: Stages says what else is the case at a step of a start,  *)
(* Unlocking which accounts are unlocked then, Wallets which nodes have    *)
(* the keys, Names who is registered and enrolled, Network how far the     *)
(* channel and FireFly's chaincode are, and Undisturbed what the two jobs  *)
(* know of each other's packages as long as they have not overlapped.      *)
(* Every way for a tear-down to end, or to break off, is one lemma's       *)
(* (UndoneInductive), of which the rollback, a reset and a removal are     *)
(* instances.                                                              *)
(***************************************************************************)
EXTENDS Provider, FiniteSetTheorems, TLAPS

-----------------------------------------------------------------------------
(* The inductive invariant.                                                *)

Stages ==
  /\ setUp = "no" => up = "no" /\ step = "none" /\ finished = "no" /\ contracts = {}
  /\ first = "yes" => /\ step # "none" /\ finished = "no"
                      /\ accounts = IF step = "copy" THEN {} ELSE OfMembers
                      /\ step \notin {"copy", "volumes", "keys"} => copied = Nodes
  /\ step \notin {"none", "accounts"} => first = "yes"
  /\ step \in {"channel", "join", "contract"} => kind = "fabric"
  /\ step = "keys" => kind = "quorum"
  /\ step \in {"channel", "join", "accounts", "restarted"} => up = "yes"
  /\ step \in {"copy", "volumes", "keys"} => up = "no"
  /\ step \in {"none", "copy", "volumes", "keys", "contract", "stopped"} => pending = {}
  /\ report = "started" => step = "none"
  /\ finished = "yes" => OfMembers \subseteq accounts /\ copied = Nodes

Unlocking ==
  /\ up = "no" \/ ~Unlocks => unlocked = Nowhere
  /\ Unlocks /\ (step \in {"accounts", "restarted"} \/ report = "started") =>
       \A a \in accounts \ pending : \E n \in Nodes : a \in unlocked[n]

(* The wallet of an account is where the account will be unlocked, or the  *)
(* account was made for another Quorum node than the first.                *)
Held(a) ==
  \/ a \in volume[UnlockedOn(a)]
  \/ kind = "quorum" /\ \E n \in Nodes \ {0} : New(a[2]) = a /\ a \in volume[n]

(* The wallets of a node's members are in its volume.                      *)
HasWallets(n) ==
  /\ kind \in {"geth", "ethsigner"} => OfMembers \subseteq volume[n]
  /\ kind = "quorum" => Member(n) \in volume[n]
  /\ kind = "tezos" => \E a \in Everyone : volume[n] = {a}

Wallets ==
  /\ kind \in {"geth", "ethsigner"} => OfMembers \subseteq files[0]
  /\ kind = "quorum" =>
       \A i \in Index : /\ Member(i) \in files[i]
                        /\ premade = "no" => tmFiles[i] = Member(i)
  /\ kind = "tezos" => \E a \in Everyone : files[0] = {a}
  /\ \A n \in Nodes : n \in copied \/ (step = "keys" /\ Following(n)) => HasWallets(n)
  /\ kind = "quorum" /\ premade = "no" => \A n \in copied : tm[n] = Member(n)
  /\ kind \in {"geth", "ethsigner", "quorum"} /\ copied = Nodes => \A a \in accounts : Held(a)

(* A first start has come to the accounts.                                 *)
Connected == first = "yes" /\ step \in {"accounts", "contract", "stopped", "restarted"}

Names ==
  /\ OnFabric /\ first = "no" => pending = {}
  /\ step \in {"channel", "join"} => pending = accounts
  /\ OnFabric /\ (finished = "yes" \/ Connected) => accounts \ pending \subseteq enrolled
  /\ kind = "fabric" /\ leftover = "no" =>
       /\ pending \cap created = {}
       /\ setUp = "no" \/ step \in {"copy", "volumes", "channel", "join"} => created = {}

Network ==
  /\ kind # "fabric" => \A j \in Jobs : job[j].step = "idle"
  /\ \A j \in Jobs : job[j].step # "idle" => job[j].given \in Packages
  /\ job["setup"].step # "idle" => /\ first = "yes"
                                   /\ step \in {"contract", "stopped", "restarted"}
                                   /\ job["setup"].given = FireFlyPackage
                                   /\ job["setup"].name = FireFlyName
  /\ job["setup"].step = "committed" => FireFlyName \in committed
  /\ kind = "fabric" /\ step \in {"stopped", "restarted"} => job["setup"].step = "committed"
  /\ kind = "fabric" /\ Connected => channel = "joined"
  /\ kind = "fabric" /\ finished = "yes" =>
       /\ channel = "joined"
       /\ FireFlyName \in committed
       /\ \E c \in contracts : c.name = FireFlyName

(* A job has taken a package that is installed, and the command one whose  *)
(* label goes by the name.                                                 *)
ChosenIsInstalled(j) ==
  job[j].step \in {"approve", "commit", "committed"} =>
    /\ job[j].chosen \in installed
    /\ j = "deploy" => job[j].name \in NamesOf[job[j].chosen]

Undisturbed ==
  overlapped = "no" =>
    /\ first = "yes" \/ setUp = "no" => job["deploy"].step = "idle" /\ contracts = {}
    /\ first = "yes" => installed \subseteq {FireFlyPackage}
    /\ \A j \in Jobs :
         /\ ChosenIsInstalled(j)
         /\ job[j].step \in {"commit", "committed"} => approved[job[j].name] = job[j].chosen
         /\ job[j].step = "committed" => job[j].name \in committed
    /\ \A c \in contracts :
         /\ c.name \in committed
         /\ \/ approved[c.name] = c.package
            \/ \E p \in installed \ {c.package} : c.name \in NamesOf[p]

IInv == TypeOK /\ Stages /\ Unlocking /\ Wallets /\ Names /\ Network /\ Undisturbed

-----------------------------------------------------------------------------
(* What the operators of the model give.                                   *)

(* The first member has a core, every node is that of a member, and        *)
(* outside Fabric the first one has a node.                                *)
LEMMA IndexFacts ==
  /\ 0 \in Index
  /\ \A n \in Nodes : n \in Index
  /\ kind \notin {"fabric", "remote-fabric"} => 0 \in Nodes
  /\ kind = "quorum" => Nodes = Index
BY ProviderAssumption DEF Index, Nodes, OnFabric

(* An account created later is not that of a member.                       *)
LEMMA NewIsNoMember == ASSUME NEW n, NEW i PROVE New(n) # Member(i)
BY DEF New, Member

(* An account may be created while fewer than MaxAccounts were.            *)
LEMMA NewInEveryone ==
  ASSUME made \in 0 .. MaxAccounts, made < MaxAccounts
  PROVE  made + 1 \in 0 .. MaxAccounts /\ New(made + 1) \in Everyone
BY ProviderAssumption DEF Everyone

(* The initial states satisfy the inductive invariant.                     *)
LEMMA InitInductive == Init => IInv
<1> SUFFICES ASSUME Init PROVE IInv
  OBVIOUS
<1> USE DEF Init, ChaincodeInit, Idle
<1>1. TypeOK
  <2>1. WalletsAtInit \in [Index -> SUBSET Everyone]
    <3>1. Index # {} /\ Members - 1 \in Index
      BY ProviderAssumption DEF Index
    <3>2. OfMembers \subseteq Everyone
      BY DEF Everyone
    <3>3. \A i \in Index : Member(i) \in OfMembers
      BY DEF OfMembers
    <3> QED
      BY <3>1, <3>2, <3>3 DEF WalletsAtInit
  <2>2. tmFiles \in [Index -> Everyone \cup {NoAccount}]
    BY DEF Everyone, OfMembers
  <2>3. job \in [Jobs -> JobType]
    BY ChaincodeAssumption DEF JobType
  <2> QED
    BY <2>1, <2>2, <2>3, ProviderAssumption DEF TypeOK, Nowhere, NoKey
<1>2. Stages /\ Unlocking
  BY DEF Stages, Unlocking
<1>3. Wallets
  <2>1. 0 \in Index /\ Members - 1 \in Index
    BY ProviderAssumption DEF Index
  <2>2. kind \in {"geth", "ethsigner"} => files[0] = OfMembers
    BY <2>1 DEF WalletsAtInit, OnFabric
  <2>3. kind = "quorum" => \A i \in Index : Member(i) \in files[i] /\ tmFiles[i] = Member(i)
    BY DEF WalletsAtInit
  <2>4. kind = "tezos" => files[0] = {Member(Members - 1)}
    BY <2>1 DEF WalletsAtInit, OnFabric
  <2>5. Member(Members - 1) \in Everyone
    BY <2>1 DEF Everyone, OfMembers
  <2> QED
    BY <2>2, <2>3, <2>4, <2>5, IndexFacts DEF Wallets
<1>4. Names /\ Network /\ Undisturbed
  BY DEF Names, Connected, Network, Undisturbed, ChosenIsInstalled, Jobs
<1> QED
  BY <1>1, <1>2, <1>3, <1>4 DEF IInv

(* The node that is asked to unlock an account is one of the stack's.      *)
LEMMA UnlockedOnNode ==
  ASSUME NEW a PROVE Unlocks => UnlockedOn(a) \in Nodes /\ UnlockedOn(a) \in Index
<1>1. ASSUME a \in OfMembers PROVE a[2] \in Index
  <2>1. PICK i \in Index : a = Member(i)
    BY <1>1 DEF OfMembers
  <2> QED
    BY <2>1 DEF Member
<1> QED
  BY <1>1, IndexFacts DEF UnlockedOn, Unlocks

(* A step that leaves the wallets alone and adds no account keeps Wallets. *)
LEMMA WalletsKept ==
  ASSUME Wallets, UNCHANGED <<kind, files, volume, copied, premade, tmFiles, tm>>,
         accounts' \subseteq accounts,
         step' = "keys" => step = "keys"
  PROVE  Wallets'
<1>1. Nodes' = Nodes /\ OnFabric' = OnFabric
  BY DEF Nodes, OnFabric
<1>2. \A a : Held(a)' = Held(a)
  BY <1>1 DEF Held, UnlockedOn
<1>3. \A n : HasWallets(n)' = HasWallets(n) /\ Following(n)' = Following(n)
  BY <1>1 DEF HasWallets, Following
<1> QED
  BY <1>1, <1>2, <1>3 DEF Wallets

(* With the wallets in the volume of every node, every member's account is *)
(* where it will be unlocked.                                              *)
LEMMA MembersHeld ==
  ASSUME kind \in {"geth", "ethsigner", "quorum"}, \A n \in Nodes : HasWallets(n),
         NEW i \in Index
  PROVE  Held(Member(i))
<1>1. Member(i) \in OfMembers /\ Member(i)[2] = i
  BY DEF OfMembers, Member
<1>2. UnlockedOn(Member(i)) = IF kind = "quorum" THEN i ELSE 0
  BY <1>1 DEF UnlockedOn
<1> QED
  BY <1>1, <1>2, IndexFacts DEF Held, HasWallets

(* A tear-down, also one that breaks off, and the removal of some volumes. *)
Undone ==
  \/ TearDown
  \/ TearDownBreaksOff
  \/ SomeVolumesStay /\ UNCHANGED <<setUp, leftover, accounts>>

(* What a tear-down leaves is typed.                                       *)
LEMMA UndoneTyped ==
  ASSUME TypeOK, Undone, kind' = kind
  PROVE  /\ {setUp', up', finished', leftover'} \subseteq {"yes", "no"}
         /\ volume' \in [Index -> SUBSET Everyone]
         /\ unlocked' \in [Index -> SUBSET Everyone]
         /\ \A n \in Index : unlocked'[n] \subseteq volume'[n]
         /\ copied' \subseteq Nodes
         /\ accounts' \subseteq accounts
         /\ setUp' = "no" => accounts' = {}
         /\ tm' \in [Index -> Everyone \cup {NoAccount}]
         /\ enrolled' \subseteq created' /\ created' \subseteq Everyone
         /\ channel' \in {"none", "created", "joined", "stale"}
         /\ installed' \subseteq Packages
         /\ approved' \in [ChaincodeNames -> Packages \cup {NoPackage}]
         /\ committed' \subseteq ChaincodeNames
         /\ contracts' \subseteq [name : ChaincodeNames, package : Packages]
<1> USE DEF nameVars, networkVars
<1>1. Nowhere \in [Index -> SUBSET Everyone] /\ NoKey \in [Index -> Everyone \cup {NoAccount}]
      /\ \A n \in Index : Nowhere[n] = {}
  BY DEF Nowhere, NoKey
<1>2. CASE TearDown
  BY <1>1, <1>2 DEF TypeOK, TearDown, LoseNetwork, NoLedger
<1>3. CASE DownFails
  BY <1>1, <1>3 DEF TypeOK, DownFails
<1>4. CASE RuntimeStays
  BY <1>1, <1>4 DEF TypeOK, RuntimeStays
<1>5. CASE SomeVolumesStay /\ (accounts' = {} \/ UNCHANGED <<setUp, leftover, accounts>>)
                          /\ {setUp', leftover'} \subseteq {"yes", "no"}
  <2>1. /\ volume' \in [Index -> SUBSET Everyone]
        /\ tm' \in [Index -> Everyone \cup {NoAccount}]
        /\ copied' \subseteq Nodes
    <3>1. PICK nodes \in SUBSET Nodes, keys \in SUBSET Nodes :
            /\ volume' = [n \in Index |-> IF n \in nodes THEN volume[n] ELSE {}]
            /\ tm' = [n \in Index |-> IF n \in keys THEN tm[n] ELSE NoAccount]
            /\ copied' = copied \cap nodes \cap keys
      BY <1>5 DEF SomeVolumesStay
    <3> QED
      BY <3>1 DEF TypeOK
  <2>2. /\ channel' \in {"none", "created", "joined", "stale"}
        /\ installed' \subseteq Packages
        /\ approved' \in [ChaincodeNames -> Packages \cup {NoPackage}]
        /\ committed' \subseteq ChaincodeNames
    BY <1>5 DEF SomeVolumesStay, LosePeer, LoseOrderer, LoseNetwork, NoLedger, TypeOK
  <2>3. enrolled' \subseteq created' /\ created' \subseteq Everyone
    BY <1>5 DEF SomeVolumesStay, TypeOK
  <2>4. up' = "no" /\ finished' = "no" /\ unlocked' = Nowhere /\ contracts' = {}
    BY <1>5 DEF SomeVolumesStay
  <2> QED
    BY <1>1, <1>5, <2>1, <2>2, <2>3, <2>4 DEF TypeOK
<1>6. CASE VolumesStay
  BY <1>5, <1>6 DEF VolumesStay
<1>7. CASE SomeVolumesStay /\ UNCHANGED <<setUp, leftover, accounts>>
  BY <1>5, <1>7 DEF TypeOK
<1> QED
  BY <1>2, <1>3, <1>4, <1>6, <1>7 DEF Undone, TearDownBreaksOff

(* A tear-down, or what it comes to, keeps the inductive invariant: it     *)
(* ends every start, and no package is on its way when the stack is gone.  *)
LEMMA UndoneInductive ==
  ASSUME IInv, Undone,
         step' = "none", first' = "no", pending' = {}, report' \in {"none", "failed"},
         UNCHANGED <<kind, files, made, premade, tmFiles, overlapped>>,
         job' \in [Jobs -> JobType], job'["setup"].step = "idle",
         job'["deploy"] = job["deploy"],
         first = "yes" \/ job["deploy"].step = "idle"
  PROVE  IInv'
<1> USE DEF nameVars, networkVars
<1>a. TypeOK /\ Stages /\ Unlocking /\ Wallets /\ Names /\ Network /\ Undisturbed
  BY DEF IInv
<1>b. Nodes' = Nodes /\ Unlocks' = Unlocks /\ OnFabric' = OnFabric
  BY DEF Nodes, Unlocks, OnFabric
<1>c. \/ TearDown
      \/ DownFails
      \/ RuntimeStays
      \/ VolumesStay
      \/ SomeVolumesStay /\ UNCHANGED <<setUp, leftover, accounts>>
  BY DEF Undone, TearDownBreaksOff
<1>d. Jobs = {"setup", "deploy"}
  BY DEF Jobs
<1>1. TypeOK'
  BY <1>a, <1>b, UndoneTyped DEF TypeOK
<1>2. Stages'
  <2>1. finished' = "yes" => UNCHANGED <<finished, accounts, copied>>
    BY <1>c DEF TearDown, DownFails, RuntimeStays, SomeVolumesStay, VolumesStay
  <2>2. setUp' = "no" => up' = "no" /\ contracts' = {} /\ finished' = "no"
    BY <1>a, <1>c DEF Stages, TearDown, DownFails, RuntimeStays, VolumesStay, SomeVolumesStay
  <2> QED
    BY <1>a, <1>b, <2>1, <2>2 DEF Stages
<1>3. Unlocking'
  BY <1>a, <1>b, <1>c
     DEF Unlocking, TearDown, DownFails, RuntimeStays, VolumesStay, SomeVolumesStay
<1>4. Wallets'
  <2>1. CASE TearDown
    <3>1. copied' = {} /\ accounts' = {}
      BY <2>1 DEF TearDown
    <3> QED
      BY <1>a, <1>b, <3>1, IndexFacts DEF Wallets
  <2>2. CASE DownFails \/ RuntimeStays
    <3>1. UNCHANGED <<volume, copied, tm>> /\ accounts' \subseteq accounts
      BY <2>2 DEF DownFails, RuntimeStays
    <3> QED
      BY <1>a, <3>1, WalletsKept
  <2>3. CASE SomeVolumesStay /\ accounts' \subseteq accounts
    <3>1. PICK nodes \in SUBSET Nodes, keys \in SUBSET Nodes :
            /\ volume' = [n \in Index |-> IF n \in nodes THEN volume[n] ELSE {}]
            /\ tm' = [n \in Index |-> IF n \in keys THEN tm[n] ELSE NoAccount]
            /\ copied' = copied \cap nodes \cap keys
      BY <2>3 DEF SomeVolumesStay
    <3>2. copied' \subseteq copied /\ \A n \in copied' : volume'[n] = volume[n] /\ tm'[n] = tm[n]
      BY <1>a, <3>1, IndexFacts DEF TypeOK
    <3>3. \A n \in copied' : HasWallets(n)'
      <4>1. copied' \subseteq Nodes
        BY <1>a, <3>2 DEF TypeOK
      <4>2. \A n \in copied' : HasWallets(n)
        BY <1>a, <3>2, <4>1 DEF Wallets
      <4> QED
        BY <3>2, <4>2 DEF HasWallets
    <3>4. ASSUME kind \in {"geth", "ethsigner", "quorum"}, copied' = Nodes, NEW a \in accounts'
          PROVE  Held(a)'
      <4>1. copied = Nodes /\ \A n \in Nodes : volume'[n] = volume[n]
        BY <1>a, <3>2, <3>4 DEF TypeOK
      <4>2. Held(a)
        BY <1>a, <2>3, <3>4, <4>1 DEF Wallets
      <4>3. UnlockedOn(a)' = UnlockedOn(a) /\ UnlockedOn(a) \in Nodes
        BY <3>4, IndexFacts, UnlockedOnNode DEF UnlockedOn, Unlocks
      <4> QED
        BY <1>b, <4>1, <4>2, <4>3 DEF Held
    <3> QED
      BY <1>a, <1>b, <3>2, <3>3, <3>4 DEF Wallets
  <2>4. VolumesStay => accounts' = {} /\ SomeVolumesStay
    BY DEF VolumesStay
  <2> QED
    BY <1>c, <2>1, <2>2, <2>3, <2>4
<1>5. Names'
  BY <1>a, <1>b, <1>c
     DEF Names, Connected, Stages, TypeOK, TearDown, DownFails, RuntimeStays, VolumesStay,
         SomeVolumesStay
<1>6. Network'
  BY <1>a, <1>c, <1>d
     DEF Network, Connected, TearDown, DownFails, RuntimeStays, VolumesStay, SomeVolumesStay
<1>7. Undisturbed'
  <2>1. overlapped = "no" => job'["deploy"].step = "idle"
    BY <1>a DEF Undisturbed
  <2>2. \/ contracts' = {}
        \/ UNCHANGED <<setUp, contracts, networkVars>>
    BY <1>c DEF TearDown, DownFails, RuntimeStays, VolumesStay, SomeVolumesStay
  <2> QED
    BY <1>a, <1>d, <2>1, <2>2 DEF Undisturbed, ChosenIsInstalled
<1> QED
  BY <1>1, <1>2, <1>3, <1>4, <1>5, <1>6, <1>7 DEF IInv

(* Every step keeps the inductive invariant.                               *)
LEMMA StepInductive == IInv /\ [Next]_vars => IInv'
<1> SUFFICES ASSUME IInv, [Next]_vars PROVE IInv'
  OBVIOUS
<1> USE DEF vars, startVars, walletVars, nameVars, chaincodeVars, networkVars
<1>a. TypeOK /\ Stages /\ Unlocking /\ Wallets /\ Names /\ Network /\ Undisturbed
  BY DEF IInv
<1>b. kind' = kind
  BY DEF Next, FirstStart, CopyInit, CopyWallets, CopyKey, SetupAndUp, SetupChannel, RegisterIdentity, UnlockAccount,
         StartAgain,
         DeployFireFlyContract, StopForRestart, Restart, FinishStart, FailStart, StopStack,
         ResetStack, RemoveBreaksOff, CreateAccountTooEarly, CreateAccount, CreateIdentity, DeployContract, RunJob
<1>c. /\ Nodes' = Nodes /\ Unlocks' = Unlocks /\ OnFabric' = OnFabric
      /\ ~(Unlocks /\ OnFabric)
      /\ OnFabric <=> kind \in {"fabric", "remote-fabric"}
  BY <1>b DEF Nodes, Unlocks, OnFabric
<1>d. OfMembers \subseteq Everyone
  BY DEF Everyone
<1>e. /\ {setUp, up, first, finished, leftover, premade, overlapped} \subseteq {"yes", "no"}
      /\ files \in [Index -> SUBSET Everyone]
      /\ volume \in [Index -> SUBSET Everyone]
      /\ unlocked \in [Index -> SUBSET Everyone]
      /\ pending \subseteq accounts /\ accounts \subseteq Everyone
      /\ setUp = "no" => accounts = {}
      /\ enrolled \subseteq created
      /\ job \in [Jobs -> JobType]
  BY <1>a DEF TypeOK
<1>f. Nowhere \in [Index -> SUBSET Everyone] /\ \A n \in Index : Nowhere[n] = {}
  BY DEF Nowhere
<1>g. Jobs = {"setup", "deploy"}
  BY DEF Jobs
<1>1. CASE FirstStart
  <2>1. TypeOK'
    BY <1>1, <1>a, <1>d DEF FirstStart, TypeOK
  <2>2. Stages'
    BY <1>1, <1>a, <1>c, <1>e DEF FirstStart, Stages
  <2>3. Unlocking'
    BY <1>1, <1>a DEF FirstStart, Stages, Unlocking
  <2>4. Wallets'
    BY <1>1, <1>a, <1>c, <1>e, IndexFacts DEF FirstStart, Wallets
  <2>5. Names'
    BY <1>1, <1>a DEF FirstStart, Stages, Names, Connected
  <2>6. Network'
    BY <1>1, <1>a DEF FirstStart, Network, Connected
  <2>7. Undisturbed'
    BY <1>1, <1>a, <1>g
       DEF FirstStart, Deploying, Stages, Network, Undisturbed, ChosenIsInstalled
  <2> QED
    BY <2>1, <2>2, <2>3, <2>4, <2>5, <2>6, <2>7 DEF IInv
<1>1a. CASE CopyInit
  <2>1. TypeOK'
    BY <1>1a, <1>a, <1>c, <1>d DEF CopyInit, TypeOK, Stages
  <2>2. Stages'
    BY <1>1a, <1>a DEF CopyInit, Stages
  <2>3. Unlocking'
    BY <1>1a, <1>a, <1>c DEF CopyInit, Stages, Unlocking
  <2>4. Wallets'
    <3>1. \A n : HasWallets(n)' = HasWallets(n)
      BY <1>1a DEF CopyInit, HasWallets
    <3>2. \A a : Held(a)' = Held(a)
      BY <1>1a, <1>c DEF CopyInit, Held, UnlockedOn
    <3>3. kind \in {"geth", "ethsigner", "quorum"} /\ copied = Nodes =>
            \A a \in OfMembers : Held(a)
      BY <1>a, MembersHeld DEF Wallets, OfMembers
    <3> QED
      BY <1>1a, <1>a, <1>c, <3>1, <3>2, <3>3 DEF CopyInit, Wallets
  <2>5. Names'
    BY <1>1a, <1>a, <1>c DEF CopyInit, Stages, Names, Connected
  <2>6. Network'
    BY <1>1a, <1>a DEF CopyInit, Network, Connected
  <2>7. Undisturbed'
    BY <1>1a, <1>a DEF CopyInit, Undisturbed, ChosenIsInstalled
  <2> QED
    BY <2>1, <2>2, <2>3, <2>4, <2>5, <2>6, <2>7 DEF IInv
<1>1b. ASSUME NEW n \in Nodes, CopyWallets(n) PROVE IInv'
  <2>0. n \in Index /\ unlocked = Nowhere /\ first = "yes" /\ accounts = OfMembers
    BY <1>1b, <1>a, IndexFacts DEF CopyWallets, Stages, Unlocking
  <2>a. volume' \in [Index -> SUBSET Everyone] /\ \A m \in Index : m # n => volume'[m] = volume[m]
    BY <1>1b, <1>e, <2>0 DEF CopyWallets, WalletsToVolume
  <2>1. TypeOK'
    <3>1. copied' \subseteq Nodes'
      BY <1>1b, <1>a, <1>c DEF CopyWallets, TypeOK
    <3>2. \A m \in Index : unlocked'[m] = {}
      BY <1>1b, <1>f, <2>0 DEF CopyWallets
    <3> QED
      BY <1>1b, <1>a, <2>0, <2>a, <3>1, <3>2 DEF CopyWallets, TypeOK
  <2>2. Stages'
    BY <1>1b, <1>a DEF CopyWallets, Stages
  <2>3. Unlocking'
    BY <1>1b, <1>a, <1>c DEF CopyWallets, Stages, Unlocking
  <2>4. Wallets'
    <3>1. HasWallets(n)'
      <4>1. kind = "tezos" => n = 0 /\ volume'[n] = files[n]
        BY <1>1b, <1>e, <2>0 DEF CopyWallets, WalletsToVolume, Nodes
      <4>2. kind # "tezos" => files[n] \subseteq volume'[n]
        BY <1>1b, <1>e, <2>0 DEF CopyWallets, WalletsToVolume
      <4>3. kind \in {"geth", "ethsigner"} => n = 0
        BY DEF Nodes, OnFabric
      <4> QED
        BY <1>b, <1>a, <2>0, <4>1, <4>2, <4>3 DEF HasWallets, Wallets
    <3>2. \A m \in Nodes \ {n} : HasWallets(m)' = HasWallets(m)
      BY <1>b, <2>a, IndexFacts DEF HasWallets
    <3>3. \A m \in Nodes \ {n} : m \in copied' \/ (step' = "keys" /\ Following(m)') => m \in copied
      <4>1. CASE kind = "quorum"
        <5>1. copied' = copied /\ Following(n)
          BY <1>1b, <4>1 DEF CopyWallets
        <5>2. ASSUME NEW m \in Nodes \ {n}, m \notin copied PROVE ~Following(m)'
          <6>1. m \in Nat /\ n \in Nat
            BY IndexFacts DEF Index
          <6>2. n < m
            BY <5>1, <5>2, <6>1 DEF Following
          <6> QED
            BY <1>c, <5>1, <6>2 DEF Following
        <5> QED
          BY <5>1, <5>2
      <4>2. CASE kind # "quorum"
        BY <1>1b, <4>2 DEF CopyWallets
      <4> QED
        BY <4>1, <4>2
    <3>4. \A m \in Nodes : m \in copied' \/ (step' = "keys" /\ Following(m)') => HasWallets(m)'
      BY <1>a, <3>1, <3>2, <3>3 DEF Wallets
    <3>5. kind = "quorum" => copied' = copied /\ tm' = tm
      BY <1>1b DEF CopyWallets
    <3>6. kind \in {"geth", "ethsigner", "quorum"} /\ copied' = Nodes =>
            \A a \in OfMembers : Held(a)'
      <4>1. ASSUME kind' \in {"geth", "ethsigner", "quorum"}, \A m \in Nodes' : HasWallets(m)',
                   NEW i \in Index
            PROVE  Held(Member(i))'
        <5>1. Member(i) \in OfMembers /\ Member(i)[2] = i
          BY DEF OfMembers, Member
        <5>2. UnlockedOn(Member(i))' = IF kind' = "quorum" THEN i ELSE 0
          BY <5>1 DEF UnlockedOn
        <5> QED
          BY <1>b, <1>c, <4>1, <5>1, <5>2, IndexFacts DEF Held, HasWallets
      <4> QED
        BY <1>b, <1>c, <3>4, <4>1 DEF OfMembers
    <3> QED
      BY <1>1b, <1>a, <1>b, <1>c, <2>0, <3>4, <3>5, <3>6 DEF CopyWallets, Wallets
  <2>5. Names'
    BY <1>1b, <1>a, <1>c DEF CopyWallets, Stages, Names, Connected
  <2>6. Network'
    BY <1>1b, <1>a DEF CopyWallets, Network, Connected
  <2>7. Undisturbed'
    BY <1>1b, <1>a DEF CopyWallets, Undisturbed, ChosenIsInstalled
  <2> QED
    BY <2>1, <2>2, <2>3, <2>4, <2>5, <2>6, <2>7 DEF IInv
<1>1c. ASSUME NEW n \in Nodes, CopyKey(n) PROVE IInv'
  <2>0. n \in Index /\ kind = "quorum" /\ first = "yes" /\ accounts = OfMembers
    BY <1>1c, <1>a, IndexFacts DEF CopyKey, Stages
  <2>1. TypeOK'
    <3>1. copied' \subseteq Nodes' /\ tm' \in [Index -> Everyone \cup {NoAccount}]
      BY <1>1c, <1>a, <1>c, <2>0 DEF CopyKey, TypeOK
    <3> QED
      BY <1>1c, <1>a, <3>1 DEF CopyKey, TypeOK
  <2>2. Stages'
    BY <1>1c, <1>a DEF CopyKey, Stages
  <2>3. Unlocking'
    BY <1>1c, <1>a, <1>c DEF CopyKey, Stages, Unlocking
  <2>4. Wallets'
    <3>1. \A m \in Nodes : m \in copied' => HasWallets(m)
      BY <1>1c, <1>a DEF CopyKey, Wallets
    <3>2. \A m : HasWallets(m)' = HasWallets(m)
      BY <1>1c DEF CopyKey, HasWallets
    <3>3. \A a : Held(a)' = Held(a)
      BY <1>1c, <1>c DEF CopyKey, Held, UnlockedOn
    <3>4. copied' = Nodes => \A a \in OfMembers : Held(a)
      BY <2>0, <3>1, MembersHeld DEF OfMembers
    <3>5. premade = "no" => \A m \in copied' : tm'[m] = Member(m)
      BY <1>1c, <1>a, <2>0 DEF CopyKey, Wallets, TypeOK
    <3> QED
      BY <1>1c, <1>a, <1>c, <2>0, <3>1, <3>2, <3>3, <3>4, <3>5 DEF CopyKey, Wallets
  <2>5. Names'
    BY <1>1c, <1>a, <1>c, <2>0 DEF CopyKey, Names, OnFabric
  <2>6. Network'
    BY <1>1c, <1>a DEF CopyKey, Network, Connected
  <2>7. Undisturbed'
    BY <1>1c, <1>a DEF CopyKey, Undisturbed, ChosenIsInstalled
  <2> QED
    BY <2>1, <2>2, <2>3, <2>4, <2>5, <2>6, <2>7 DEF IInv
<1>2. CASE SetupAndUp
  <2>1. TypeOK'
    BY <1>2, <1>a, <1>c DEF SetupAndUp, TypeOK
  <2>2. Stages'
    BY <1>2, <1>a, <1>c DEF SetupAndUp, Stages
  <2>3. Unlocking'
    BY <1>2, <1>a, <1>c DEF SetupAndUp, Stages, Unlocking
  <2>4. Wallets'
    BY <1>2, <1>a, WalletsKept DEF SetupAndUp
  <2>5. Names'
    BY <1>2, <1>a, <1>c DEF SetupAndUp, Stages, Names, Connected
  <2>6. Network'
    BY <1>2, <1>a DEF SetupAndUp, Network, Connected
  <2>7. Undisturbed'
    BY <1>2, <1>a DEF SetupAndUp, Undisturbed, ChosenIsInstalled
  <2> QED
    BY <2>1, <2>2, <2>3, <2>4, <2>5, <2>6, <2>7 DEF IInv
<1>3. CASE SetupChannel
  <2>1. TypeOK'
    BY <1>3, <1>a, <1>c DEF SetupChannel, CreateChannel, JoinChannel, TypeOK
  <2>2. Stages'
    <3>1. CASE step = "channel"
      BY <1>3, <1>a, <1>c DEF SetupChannel, Stages
    <3>2. CASE step = "join"
      BY <1>3, <1>a, <1>c DEF SetupChannel, Stages
    <3> QED
      BY <1>3, <3>1, <3>2 DEF SetupChannel
  <2>3. Unlocking'
    BY <1>3, <1>a, <1>c DEF SetupChannel, Stages, Unlocking
  <2>4. Wallets'
    BY <1>3, <1>a, WalletsKept DEF SetupChannel
  <2>5. Names'
    <3>1. step' = IF step = "channel" THEN "join" ELSE "accounts"
      BY <1>3 DEF SetupChannel
    <3>2. kind = "fabric" /\ first = "yes" /\ finished = "no"
      BY <1>3, <1>a DEF SetupChannel, Stages
    <3> QED
      BY <1>3, <1>a, <3>2 DEF SetupChannel, Names
  <2>6. Network'
    BY <1>3, <1>a DEF SetupChannel, CreateChannel, JoinChannel, Network, Connected
  <2>7. Undisturbed'
    BY <1>3, <1>a
       DEF SetupChannel, CreateChannel, JoinChannel, Undisturbed, ChosenIsInstalled
  <2> QED
    BY <2>1, <2>2, <2>3, <2>4, <2>5, <2>6, <2>7 DEF IInv
<1>4. ASSUME NEW a \in pending, RegisterIdentity(a) PROVE IInv'
  <2>1. TypeOK'
    BY <1>4, <1>a, <1>c DEF RegisterIdentity, Register, TypeOK
  <2>2. Stages'
    BY <1>4, <1>a, <1>c DEF RegisterIdentity, Stages
  <2>3. Unlocking'
    BY <1>4, <1>a, <1>c DEF RegisterIdentity, Unlocking
  <2>4. Wallets'
    BY <1>4, <1>a, WalletsKept DEF RegisterIdentity
  <2>5. Names'
    BY <1>4, <1>a DEF RegisterIdentity, Register, Stages, Names, Connected
  <2>6. Network'
    BY <1>4, <1>a DEF RegisterIdentity, Network, Connected
  <2>7. Undisturbed'
    BY <1>4, <1>a DEF RegisterIdentity, Undisturbed, ChosenIsInstalled
  <2> QED
    BY <2>1, <2>2, <2>3, <2>4, <2>5, <2>6, <2>7 DEF IInv
<1>5. ASSUME NEW a \in pending, UnlockAccount(a) PROVE IInv'
  <2>1. TypeOK'
    <3> DEFINE n == UnlockedOn(a)
    <3>1. n \in Index /\ a \in volume[n] /\ a \in Everyone
      BY <1>5, <1>e, UnlockedOnNode DEF UnlockAccount
    <3>2. unlocked' \in [Index -> SUBSET Everyone] /\ \A m \in Index : unlocked'[m] \subseteq volume[m]
      BY <1>5, <1>a DEF UnlockAccount, TypeOK
    <3> QED
      BY <1>5, <1>a, <1>c, <3>2 DEF UnlockAccount, TypeOK
  <2>2. Stages'
    BY <1>5, <1>a, <1>c DEF UnlockAccount, Stages
  <2>3. Unlocking'
    <3> DEFINE n == UnlockedOn(a)
    <3>1. n \in Nodes /\ n \in Index
      BY <1>5, UnlockedOnNode DEF UnlockAccount
    <3>2. a \in unlocked'[n] /\ \A m \in Index : unlocked[m] \subseteq unlocked'[m]
      BY <1>5, <1>e, <3>1 DEF UnlockAccount
    <3> QED
      BY <1>5, <1>a, <1>c, <3>1, <3>2 DEF UnlockAccount, Stages, Unlocking
  <2>4. Wallets'
    BY <1>5, <1>a, WalletsKept DEF UnlockAccount
  <2>5. Names'
    BY <1>5, <1>c DEF UnlockAccount, Names
  <2>6. Network'
    BY <1>5, <1>a DEF UnlockAccount, Network, Connected
  <2>7. Undisturbed'
    BY <1>5, <1>a DEF UnlockAccount, Undisturbed, ChosenIsInstalled
  <2> QED
    BY <2>1, <2>2, <2>3, <2>4, <2>5, <2>6, <2>7 DEF IInv
<1>6. CASE StartAgain
  <2>1. TypeOK'
    BY <1>6, <1>a, <1>c DEF StartAgain, TypeOK
  <2>2. Stages'
    BY <1>6, <1>a, <1>c DEF StartAgain, Stages
  <2>3. Unlocking'
    BY <1>6, <1>a, <1>c DEF StartAgain, Unlocking
  <2>4. Wallets'
    BY <1>6, <1>a, WalletsKept DEF StartAgain
  <2>5. Names'
    BY <1>6, <1>a, <1>c DEF StartAgain, Stages, Names, Connected
  <2>6. Network'
    BY <1>6, <1>a DEF StartAgain, Network, Connected
  <2>7. Undisturbed'
    BY <1>6, <1>a DEF StartAgain, Undisturbed, ChosenIsInstalled
  <2> QED
    BY <2>1, <2>2, <2>3, <2>4, <2>5, <2>6, <2>7 DEF IInv
<1>7. CASE DeployFireFlyContract
  <2>1. TypeOK'
    <3>1. job' \in [Jobs -> JobType]
      BY <1>7, <1>e, ChaincodeAssumption DEF DeployFireFlyContract, BeginJob, Idle, JobType
    <3> QED
      BY <1>7, <1>a, <1>c, <3>1 DEF DeployFireFlyContract, BeginJob, TypeOK
  <2>2. Stages'
    BY <1>7, <1>a, <1>c DEF DeployFireFlyContract, Stages
  <2>3. Unlocking'
    BY <1>7, <1>a, <1>c DEF DeployFireFlyContract, Unlocking
  <2>4. Wallets'
    BY <1>7, <1>a, WalletsKept DEF DeployFireFlyContract
  <2>5. Names'
    BY <1>7, <1>a, <1>c DEF DeployFireFlyContract, Names, Connected
  <2>6. Network'
    <3>1. /\ job'["setup"].given = FireFlyPackage /\ job'["setup"].name = FireFlyName
          /\ job'["setup"].step = "install"
          /\ job'["deploy"] = job["deploy"]
      BY <1>7, <1>e, <1>g DEF DeployFireFlyContract, BeginJob
    <3> QED
      BY <1>7, <1>a, ChaincodeAssumption
         DEF DeployFireFlyContract, BeginJob, Network, Connected
  <2>7. Undisturbed'
    BY <1>7, <1>a DEF DeployFireFlyContract, BeginJob, Undisturbed, ChosenIsInstalled
  <2> QED
    BY <2>1, <2>2, <2>3, <2>4, <2>5, <2>6, <2>7 DEF IInv
<1>8. CASE StopForRestart
  <2>1. TypeOK'
    BY <1>8, <1>a, <1>c, <1>f DEF StopForRestart, TypeOK
  <2>2. Stages'
    BY <1>8, <1>a, <1>c DEF StopForRestart, Stages
  <2>3. Unlocking'
    BY <1>8, <1>a DEF StopForRestart, Stages, Unlocking
  <2>4. Wallets'
    BY <1>8, <1>a, WalletsKept DEF StopForRestart
  <2>5. Names'
    BY <1>8, <1>a, <1>c DEF StopForRestart, Names, Connected
  <2>6. Network'
    BY <1>8, <1>a DEF StopForRestart, Network, Connected
  <2>7. Undisturbed'
    BY <1>8, <1>a DEF StopForRestart, Undisturbed, ChosenIsInstalled
  <2> QED
    BY <2>1, <2>2, <2>3, <2>4, <2>5, <2>6, <2>7 DEF IInv
<1>9. CASE Restart
  <2>1. TypeOK'
    BY <1>9, <1>a, <1>c DEF Restart, TypeOK
  <2>2. Stages'
    BY <1>9, <1>a, <1>c DEF Restart, Stages
  <2>3. Unlocking'
    BY <1>9, <1>a, <1>c DEF Restart, Unlocking
  <2>4. Wallets'
    BY <1>9, <1>a, WalletsKept DEF Restart
  <2>5. Names'
    BY <1>9, <1>a, <1>c DEF Restart, Stages, Names, Connected
  <2>6. Network'
    BY <1>9, <1>a DEF Restart, Network, Connected
  <2>7. Undisturbed'
    BY <1>9, <1>a DEF Restart, Undisturbed, ChosenIsInstalled
  <2> QED
    BY <2>1, <2>2, <2>3, <2>4, <2>5, <2>6, <2>7 DEF IInv
<1>10. CASE FinishStart
  <2>1. TypeOK'
    <3>1. job["setup"].step = "committed" =>
            /\ job' \in [Jobs -> JobType]
            /\ contracts' \subseteq [name : ChaincodeNames, package : Packages]
      BY <1>10, <1>a, ChaincodeAssumption
         DEF FinishStart, ReportContract, Idle, JobType, TypeOK, Network
    <3> QED
      BY <1>10, <1>a, <1>c, <3>1 DEF FinishStart, ReportContract, TypeOK
  <2>2. Stages'
    BY <1>10, <1>a, <1>c DEF FinishStart, Stages
  <2>3. Unlocking'
    BY <1>10, <1>a, <1>c DEF FinishStart, Unlocking
  <2>4. Wallets'
    BY <1>10, <1>a, WalletsKept DEF FinishStart
  <2>5. Names'
    BY <1>10, <1>a, <1>c DEF FinishStart, Names, Connected
  <2>6. Network'
    <3>1. CASE job["setup"].step = "committed"
      <4>1. /\ job'["setup"].step = "idle" /\ job'["deploy"] = job["deploy"]
            /\ \E c \in contracts' : c.name = FireFlyName
            /\ contracts \subseteq contracts'
        <5> DEFINE c == [name |-> job["setup"].name, package |-> job["setup"].given]
        <5>1. contracts' = contracts \cup {c} /\ job' = [job EXCEPT !["setup"] = Idle]
          BY <1>10, <3>1 DEF FinishStart, ReportContract
        <5>2. c.name = FireFlyName
          BY <1>a, <3>1 DEF Network
        <5> QED
          BY <1>e, <1>g, <5>1, <5>2 DEF Idle
      <4> QED
        BY <1>10, <1>a, <1>g, <4>1 DEF FinishStart, ReportContract, Network, Connected
    <3>2. CASE job["setup"].step # "committed"
      <4>1. job["setup"].step = "idle" /\ UNCHANGED chaincodeVars
        BY <1>10, <1>a, <1>g, <3>2 DEF FinishStart, Network
      <4> QED
        BY <1>10, <1>a, <4>1 DEF FinishStart, Network, Connected
    <3> QED
      BY <3>1, <3>2
  <2>7. Undisturbed'
    BY <1>10, <1>a, <1>e, <1>g
       DEF FinishStart, ReportContract, Idle, Stages, Network, Undisturbed,
           ChosenIsInstalled
  <2> QED
    BY <2>1, <2>2, <2>3, <2>4, <2>5, <2>6, <2>7 DEF IInv
<1>11. CASE FailStart
  <2>0. /\ job' \in [Jobs -> JobType] /\ job'["setup"].step = "idle" /\ job'["deploy"] = job["deploy"]
        /\ step' = "none" /\ first' = "no" /\ pending' = {} /\ report' = "failed"
        /\ UNCHANGED <<kind, files, made, premade, tmFiles, overlapped>>
    BY <1>11, <1>e, <1>g, ChaincodeAssumption DEF FailStart, Idle, JobType
  <2>1. CASE first = "yes" /\ (TearDown \/ TearDownBreaksOff)
    BY <2>0, <2>1, UndoneInductive DEF Undone
  <2>2. CASE UNCHANGED <<setUp, up, finished, leftover, volume, copied, unlocked, tm, accounts,
                         nameVars, networkVars, contracts>>
    <3>1. TypeOK'
      BY <1>a, <2>0, <2>2 DEF TypeOK, Nodes, OnFabric
    <3>2. Stages'
      BY <1>11, <1>a, <1>c, <2>0, <2>2 DEF FailStart, Stages
    <3>3. Unlocking'
      BY <1>a, <1>c, <2>0, <2>2 DEF Unlocking
    <3>4. Wallets'
      BY <1>a, <2>0, <2>2, WalletsKept
    <3>5. Names'
      <4>1. OnFabric /\ finished = "yes" => pending = {}
        BY <1>a DEF Stages, Names, TypeOK
      <4>2. setUp' = "no" => FALSE
        BY <1>11, <1>a, <1>e, <2>2 DEF FailStart, Stages
      <4> QED
        BY <1>a, <1>c, <2>0, <2>2, <4>1, <4>2 DEF Names, Connected
    <3>6. Network'
      BY <1>a, <1>g, <2>0, <2>2 DEF Network, Connected
    <3>7. Undisturbed'
      BY <1>a, <1>g, <2>0, <2>2 DEF Undisturbed, ChosenIsInstalled
    <3> QED
      BY <3>1, <3>2, <3>3, <3>4, <3>5, <3>6, <3>7 DEF IInv
  <2> QED
    BY <1>11, <2>1, <2>2 DEF FailStart
<1>12. CASE StopStack
  <2>1. TypeOK'
    BY <1>12, <1>a, <1>c, <1>f DEF StopStack, TypeOK
  <2>2. Stages'
    BY <1>12, <1>a, <1>c DEF StopStack, Stages
  <2>3. Unlocking'
    BY <1>12 DEF StopStack, Unlocking
  <2>4. Wallets'
    BY <1>12, <1>a, WalletsKept DEF StopStack
  <2>5. Names'
    BY <1>12, <1>a, <1>c DEF StopStack, Names, Connected
  <2>6. Network'
    BY <1>12, <1>a DEF StopStack, Network, Connected
  <2>7. Undisturbed'
    BY <1>12, <1>a DEF StopStack, Undisturbed, ChosenIsInstalled
  <2> QED
    BY <2>1, <2>2, <2>3, <2>4, <2>5, <2>6, <2>7 DEF IInv
<1>13. CASE ResetStack \/ RemoveBreaksOff
  <2>1. /\ step = "none" /\ UNCHANGED <<kind, step, first, files, made, premade, tmFiles, pending,
                                        overlapped, job>>
        /\ job["deploy"].step = "idle" /\ report' = "none"
    BY <1>13 DEF ResetStack, RemoveBreaksOff, Deploying
  <2>2. first = "no" /\ pending = {} /\ job["setup"].step = "idle"
    BY <1>a, <1>e, <1>g, <2>1 DEF Stages, Network
  <2>3. Undone
    BY <1>13 DEF ResetStack, RemoveBreaksOff, Undone, TearDownBreaksOff
  <2> QED
    BY <1>e, <2>1, <2>2, <2>3, UndoneInductive
<1>14. ASSUME NEW n \in Nodes, CreateAccountTooEarly(n) PROVE IInv'
  <2>1. TypeOK'
    <3>1. n \in Index /\ New(made + 1) \in Everyone /\ made' \in 0 .. MaxAccounts
      BY <1>14, <1>a, IndexFacts, NewInEveryone DEF CreateAccountTooEarly, TypeOK
    <3>2. files' \in [Index -> SUBSET Everyone]
      BY <1>14, <1>e, <3>1 DEF CreateAccountTooEarly, WithWallet
    <3>3. tmFiles' \in [Index -> Everyone \cup {NoAccount}]
      BY <1>14, <1>a, <3>1 DEF CreateAccountTooEarly, TypeOK
    <3> QED
      BY <1>14, <1>a, <1>c, <3>1, <3>2 DEF CreateAccountTooEarly, TypeOK
  <2>2. Stages'
    BY <1>14, <1>a DEF CreateAccountTooEarly, Stages
  <2>3. Unlocking'
    BY <1>14, <1>a, <1>e DEF CreateAccountTooEarly, Stages, Unlocking
  <2>4. Wallets'
    <3>1. n \in Index /\ New(made + 1) \in Everyone
      BY <1>14, <1>a, IndexFacts, NewInEveryone DEF CreateAccountTooEarly, TypeOK
    <3>2. kind # "tezos" => \A m \in Index : files[m] \subseteq files'[m]
      BY <1>14 DEF CreateAccountTooEarly, WithWallet
    <3>3. kind = "tezos" => n = 0 /\ files'[0] = {New(made + 1)}
      BY <1>14, <1>e, <3>1 DEF CreateAccountTooEarly, WithWallet, Nodes
    <3>4. accounts' = {} /\ step' # "keys"
      BY <1>14, <1>a, <1>e DEF CreateAccountTooEarly, Stages
    <3>5. \A m : HasWallets(m)' = HasWallets(m)
      BY <1>14 DEF CreateAccountTooEarly, HasWallets
    <3>6. premade' = "yes" /\ UNCHANGED <<kind, copied>>
      BY <1>14 DEF CreateAccountTooEarly
    <3> QED
      BY <1>a, <1>c, <3>1, <3>2, <3>3, <3>4, <3>5, <3>6, IndexFacts DEF Wallets
  <2>5. Names'
    BY <1>14, <1>a DEF CreateAccountTooEarly, Stages, Names, Connected
  <2>6. Network'
    BY <1>14, <1>a DEF CreateAccountTooEarly, Network, Connected
  <2>7. Undisturbed'
    BY <1>14, <1>a DEF CreateAccountTooEarly, Undisturbed, ChosenIsInstalled
  <2> QED
    BY <2>1, <2>2, <2>3, <2>4, <2>5, <2>6, <2>7 DEF IInv
<1>15. ASSUME NEW n \in Nodes, CreateAccount(n) PROVE IInv'
  <2>1. TypeOK'
    <3> DEFINE a == New(made + 1)
    <3>1. n \in Index /\ a \in Everyone /\ made' \in 0 .. MaxAccounts
      BY <1>15, <1>a, IndexFacts, NewInEveryone DEF CreateAccount, TypeOK
    <3>2. volume' \in [Index -> SUBSET Everyone] /\ a \in volume'[n]
      BY <1>15, <1>e, <3>1 DEF CreateAccount, WithWallet
    <3>3. unlocked' \in [Index -> SUBSET Everyone]
      BY <1>15, <1>e, <3>1 DEF CreateAccount
    <3>4. \A m \in Index : unlocked'[m] \subseteq volume'[m]
      <4>1. CASE kind = "tezos"
        BY <1>15, <1>a, <1>f, <4>1 DEF CreateAccount, Unlocking, Unlocks
      <4>2. CASE kind # "tezos"
        <5>1. \A m \in Index : volume[m] \subseteq volume'[m]
          BY <1>15, <4>2 DEF CreateAccount, WithWallet
        <5>2. \A m \in Index : unlocked'[m] \subseteq unlocked[m] \cup (IF m = n THEN {a} ELSE {})
          BY <1>15, <1>e DEF CreateAccount
        <5> QED
          BY <1>a, <3>2, <5>1, <5>2 DEF TypeOK
      <4> QED
        BY <4>1, <4>2
    <3>5. accounts' \in {accounts, accounts \cup {a}}
      BY <1>15 DEF CreateAccount
    <3> QED
      BY <1>15, <1>a, <1>c, <3>1, <3>2, <3>4 DEF CreateAccount, TypeOK
  <2>2. Stages'
    BY <1>15, <1>a, <1>c DEF CreateAccount, Stages
  <2>3. Unlocking'
    <3>1. n \in Index
      BY IndexFacts
    <3>2. \A m \in Index : unlocked[m] \subseteq unlocked'[m]
      BY <1>15, <1>e DEF CreateAccount
    <3>3. Unlocks /\ accounts' # accounts =>
            /\ New(made + 1) \in unlocked'[n]
            /\ accounts' = accounts \cup {New(made + 1)}
      BY <1>15, <1>e, <3>1 DEF CreateAccount
    <3> QED
      BY <1>15, <1>a, <1>c, <3>2, <3>3, IndexFacts DEF CreateAccount, Unlocking
  <2>4. Wallets'
    <3>0. PICK a : a = New(made + 1)
      OBVIOUS
    <3>1. n \in Index /\ a \in Everyone
      BY <1>15, <1>a, <3>0, IndexFacts, NewInEveryone DEF CreateAccount, TypeOK
    <3>2. kind # "tezos" => \A m \in Index : volume[m] \subseteq volume'[m]
      BY <1>15 DEF CreateAccount, WithWallet
    <3>3. a \in volume'[n] /\ (kind = "tezos" => n = 0 /\ volume'[0] = {a})
      BY <1>15, <1>e, <3>0, <3>1 DEF CreateAccount, WithWallet, Nodes
    <3>4. \A b : UnlockedOn(b)' = UnlockedOn(b)
      BY <1>b DEF UnlockedOn
    <3>5. ASSUME kind \in {"geth", "ethsigner", "quorum"}, NEW b \in accounts, Held(b) PROVE Held(b)'
      <4>1. UnlockedOn(b) \in Index
        BY IndexFacts, UnlockedOnNode DEF UnlockedOn, Unlocks
      <4> QED
        BY <1>b, <1>c, <3>2, <3>4, <3>5, <4>1, IndexFacts DEF Held
    <3>6. ASSUME kind \in {"geth", "ethsigner", "quorum"} PROVE Held(a)'
      <4>1. a \notin OfMembers /\ New(a[2]) = a
        BY <3>0, NewIsNoMember DEF OfMembers, New
      <4>2. UnlockedOn(a) = 0
        BY <4>1 DEF UnlockedOn
      <4>3. n = 0 \/ kind \in {"quorum", "fabric", "remote-fabric"}
        BY DEF Nodes
      <4> QED
        BY <1>b, <1>c, <3>3, <3>4, <3>6, <4>1, <4>2, <4>3 DEF Held
    <3>7. accounts' \in {accounts, accounts \cup {a}} /\ step' # "keys" /\ UNCHANGED copied
      BY <1>15, <3>0 DEF CreateAccount
    <3>8. \A m \in Nodes : m \in copied => HasWallets(m)'
      <4>1. kind = "tezos" => \A m \in Nodes : m = 0
        BY DEF Nodes, OnFabric
      <4> QED
        BY <1>b, <1>a, <3>1, <3>2, <3>3, <4>1, IndexFacts DEF Wallets, HasWallets
    <3> QED
      BY <1>15, <1>a, <1>c, <3>1, <3>5, <3>6, <3>7, <3>8 DEF CreateAccount, Wallets
  <2>5. Names'
    <3>1. ~OnFabric
      BY <1>c DEF Nodes
    <3> QED
      BY <1>15, <1>c, <3>1 DEF CreateAccount, Names
  <2>6. Network'
    BY <1>15, <1>a DEF CreateAccount, Network, Connected
  <2>7. Undisturbed'
    BY <1>15, <1>a DEF CreateAccount, Undisturbed, ChosenIsInstalled
  <2> QED
    BY <2>1, <2>2, <2>3, <2>4, <2>5, <2>6, <2>7 DEF IInv
<1>16. CASE CreateIdentity
  <2>1. TypeOK'
    <3>1. New(made + 1) \in Everyone /\ made' \in 0 .. MaxAccounts
      BY <1>16, <1>a, NewInEveryone DEF CreateIdentity, TypeOK
    <3> QED
      BY <1>16, <1>a, <1>c, <3>1 DEF CreateIdentity, Register, RegisterOnly, TypeOK
  <2>2. Stages'
    BY <1>16, <1>a, <1>c DEF CreateIdentity, Stages
  <2>3. Unlocking'
    BY <1>16, <1>a, <1>c DEF CreateIdentity, Unlocking
  <2>4. Wallets'
    <3>1. Nodes = {} /\ kind \notin {"geth", "ethsigner", "quorum", "tezos"}
      BY <1>16, <1>c DEF CreateIdentity, Nodes
    <3> QED
      BY <1>16, <1>a, <1>c, <3>1 DEF CreateIdentity, Wallets, TypeOK
  <2>5. Names'
    BY <1>16, <1>a DEF CreateIdentity, Register, RegisterOnly, Stages, Names, Connected
  <2>6. Network'
    BY <1>16, <1>a DEF CreateIdentity, Network, Connected
  <2>7. Undisturbed'
    BY <1>16, <1>a DEF CreateIdentity, Undisturbed, ChosenIsInstalled
  <2> QED
    BY <2>1, <2>2, <2>3, <2>4, <2>5, <2>6, <2>7 DEF IInv
<1>17. ASSUME NEW package \in Packages \ {FireFlyPackage}, NEW name \in ChaincodeNames,
             DeployContract(package, name)
      PROVE  IInv'
  <2>1. TypeOK'
    <3>1. job' \in [Jobs -> JobType]
      BY <1>17, <1>e DEF DeployContract, BeginJob, Idle, JobType
    <3> QED
      BY <1>17, <1>a, <1>c, <3>1 DEF DeployContract, BeginJob, TypeOK
  <2>2. Stages'
    BY <1>17, <1>a, <1>c DEF DeployContract, Stages
  <2>3. Unlocking'
    BY <1>17, <1>a, <1>c DEF DeployContract, Unlocking
  <2>4. Wallets'
    BY <1>17, <1>a, WalletsKept DEF DeployContract
  <2>5. Names'
    BY <1>17, <1>a, <1>c DEF DeployContract, Names, Connected
  <2>6. Network'
    BY <1>17, <1>a DEF DeployContract, BeginJob, Network, Connected
  <2>7. Undisturbed'
    BY <1>17, <1>a DEF DeployContract, BeginJob, Undisturbed, ChosenIsInstalled
  <2> QED
    BY <2>1, <2>2, <2>3, <2>4, <2>5, <2>6, <2>7 DEF IInv
<1>18. ASSUME NEW j \in Jobs, RunJob(j) PROVE IInv'
  <2>1. TypeOK'
    <3>0. UNCHANGED <<kind, startVars, walletVars, nameVars, accounts, pending, overlapped>>
      BY <1>18 DEF RunJob
    <3>1. CASE InstallChaincode(j)
      BY <3>0, <3>1, <1>a, <1>c DEF InstallChaincode, TypeOK, JobType, Network
    <3>2. CASE QueryInstalled(j)
      <4>1. PICK p \in Packages : job' = [job EXCEPT ![j] = [@ EXCEPT !.step = "approve", !.chosen = p]]
        BY <1>a, <3>2 DEF QueryInstalled, Choices, TypeOK
      <4>2. job' \in [Jobs -> JobType]
        BY <1>e, <4>1 DEF JobType
      <4> QED
        BY <1>a, <1>c, <3>0, <3>2, <4>2 DEF QueryInstalled, TypeOK
    <3>3. CASE ApproveChaincode(j)
      BY <3>0, <3>3, <1>a, <1>c DEF ApproveChaincode, TypeOK, JobType
    <3>4. CASE CommitChaincode(j)
      BY <3>0, <3>4, <1>a, <1>c DEF CommitChaincode, TypeOK, JobType
    <3>5. CASE j = "deploy" /\ ReportContract(j)
      BY <3>0, <3>5, <1>a, <1>c, ChaincodeAssumption
         DEF ReportContract, Idle, TypeOK, JobType, Network
    <3>6. CASE j = "deploy" /\ JobFails(j)
      BY <3>0, <3>6, <1>a, <1>c, ChaincodeAssumption DEF JobFails, Idle, TypeOK, JobType
    <3> QED
      BY <1>18, <3>1, <3>2, <3>3, <3>4, <3>5, <3>6 DEF RunJob, ChaincodeStep
  <2>2. Stages'
    BY <1>18, <1>a, <1>c, <1>e DEF RunJob, JobFails, Stages
  <2>3. Unlocking'
    BY <1>18, <1>a, <1>c, <1>e DEF RunJob, Unlocking
  <2>4. Wallets'
    BY <1>18, <1>a, WalletsKept DEF RunJob
  <2>5. Names'
    BY <1>18, <1>a, <1>c, <1>e DEF RunJob, Names, Connected
  <2>6. Network'
    <3>0. UNCHANGED <<kind, startVars, walletVars, nameVars, accounts, pending, overlapped>>
      BY <1>18 DEF RunJob
    <3>1. CASE InstallChaincode(j)
      BY <3>0, <3>1, <1>a DEF InstallChaincode, Network, Connected
    <3>2. CASE QueryInstalled(j)
      BY <3>0, <3>2, <1>a DEF QueryInstalled, Network, Connected
    <3>3. CASE ApproveChaincode(j)
      BY <3>0, <3>3, <1>a DEF ApproveChaincode, Network
    <3>4. CASE CommitChaincode(j)
      BY <3>0, <3>4, <1>a DEF CommitChaincode, Network, Connected
    <3>5. CASE j = "deploy" /\ ReportContract(j)
      BY <3>0, <3>5, <1>a DEF ReportContract, Idle, Network, Connected
    <3>6. CASE j = "deploy" /\ JobFails(j)
      BY <3>0, <3>6, <1>a DEF JobFails, Idle, Network, Connected
    <3> QED
      BY <1>18, <3>1, <3>2, <3>3, <3>4, <3>5, <3>6 DEF RunJob, ChaincodeStep
  <2>7. Undisturbed'
    <3>0. UNCHANGED <<kind, startVars, walletVars, nameVars, accounts, pending, overlapped>>
      BY <1>18 DEF RunJob
    <3>1. CASE InstallChaincode(j)
      BY <3>0, <3>1, <1>a, <1>g
         DEF InstallChaincode, Network, Undisturbed, ChosenIsInstalled
    <3>2. CASE QueryInstalled(j)
      BY <3>0, <3>2, <1>a DEF QueryInstalled, Choices, Undisturbed, ChosenIsInstalled
    <3>3. CASE ApproveChaincode(j)
      <4> SUFFICES ASSUME overlapped = "no" PROVE Undisturbed'
        BY <3>0 DEF Undisturbed
      <4> DEFINE n == job[j].name
                 p == job[j].chosen
      <4>1. /\ n \in ChaincodeNames /\ p \in installed
            /\ j = "deploy" => n \in NamesOf[p]
        BY <1>a, <1>e, <3>3 DEF ApproveChaincode, Undisturbed, ChosenIsInstalled, JobType
      <4>2. approved' = [approved EXCEPT ![n] = p] /\ approved \in [ChaincodeNames -> Packages \cup {NoPackage}]
        BY <1>a, <3>3 DEF ApproveChaincode, TypeOK
      <4>3. \A i \in Jobs \ {j} : job[i].step = "idle"
        BY <1>a, <1>g, <3>3 DEF ApproveChaincode, Network, Undisturbed
      <4>4. j = "setup" => contracts = {}
        BY <1>a, <3>3 DEF ApproveChaincode, Network, Undisturbed
      <4>5. job'[j].step = "commit" /\ job'[j].name = n /\ job'[j].chosen = p
        BY <1>e, <3>3 DEF ApproveChaincode
      <4>6. \A i \in Jobs \ {j} : job'[i] = job[i]
        BY <3>3 DEF ApproveChaincode
      <4>7. \A i \in Jobs : /\ ChosenIsInstalled(i)'
                           /\ job'[i].step \in {"commit", "committed"} => approved'[job'[i].name] = job'[i].chosen
                           /\ job'[i].step # "committed"
        BY <4>1, <4>2, <4>3, <4>5, <4>6
      <4>8. ASSUME NEW c \in contracts
            PROVE  \/ approved'[c.name] = c.package
                   \/ \E q \in installed \ {c.package} : c.name \in NamesOf[q]
        <5>1. j = "deploy"
          BY <1>g, <4>4
        <5>2. CASE c.name = n
          BY <4>1, <4>2, <5>1, <5>2
        <5>3. CASE c.name # n
          BY <1>a, <4>2, <5>3 DEF Undisturbed
        <5> QED
          BY <5>2, <5>3
      <4>9. first = "yes" \/ setUp = "no" => job'["deploy"].step = "idle" /\ contracts = {}
        <5>1. first = "yes" \/ setUp = "no" => j = "setup"
          BY <1>a, <1>g, <3>3 DEF ApproveChaincode, Undisturbed
        <5> QED
          BY <1>g, <4>3, <4>4, <4>6, <5>1
      <4> QED
        BY <1>a, <3>0, <3>3, <4>7, <4>8 DEF ApproveChaincode, Undisturbed, ChosenIsInstalled
    <3>4. CASE CommitChaincode(j)
      BY <3>0, <3>4, <1>a DEF CommitChaincode, Undisturbed, ChosenIsInstalled
    <3>5. CASE j = "deploy" /\ ReportContract(j)
      BY <3>0, <3>5, <1>a DEF ReportContract, Idle, Undisturbed, ChosenIsInstalled
    <3>6. CASE j = "deploy" /\ JobFails(j)
      BY <3>0, <3>6, <1>a DEF JobFails, Idle, Undisturbed, ChosenIsInstalled
    <3> QED
      BY <1>18, <3>1, <3>2, <3>3, <3>4, <3>5, <3>6 DEF RunJob, ChaincodeStep
  <2> QED
    BY <2>1, <2>2, <2>3, <2>4, <2>5, <2>6, <2>7 DEF IInv
<1>19. CASE UNCHANGED vars
  <2>1. TypeOK'
    BY <1>19, <1>a, <1>c DEF TypeOK
  <2>2. Stages'
    BY <1>19, <1>a, <1>c DEF Stages
  <2>3. Unlocking'
    BY <1>19, <1>a, <1>c DEF Unlocking
  <2>4. Wallets'
    BY <1>19, <1>a, WalletsKept
  <2>5. Names'
    BY <1>19, <1>a, <1>c DEF Names, Connected
  <2>6. Network'
    BY <1>19, <1>a DEF Network, Connected
  <2>7. Undisturbed'
    BY <1>19, <1>a DEF Undisturbed, ChosenIsInstalled
  <2> QED
    BY <2>1, <2>2, <2>3, <2>4, <2>5, <2>6, <2>7 DEF IInv
<1> QED
  BY <1>1, <1>1a, <1>1b, <1>1c, <1>2, <1>3, <1>4, <1>5, <1>6, <1>7, <1>8, <1>9, <1>10,
     <1>11, <1>12, <1>13, <1>14, <1>15, <1>16, <1>17, <1>18, <1>19
     DEF Next

(* The inductive invariant holds in every state of the providers: of the   *)
(* first start, of the later ones, of the accounts and of the contracts.   *)
THEOREM Invariant == Spec => []IInv
  BY InitInductive, StepInductive, PTL DEF Spec

-----------------------------------------------------------------------------

(* Every variable of a provider keeps its type.                            *)
THEOREM TypeCorrect == Spec => []TypeOK
  BY Invariant, PTL DEF IInv

(* Whoever the state of a finished stack names can sign: by Wallets for    *)
(* the nodes and signers with a wallet, by Names for Fabric.               *)
THEOREM RecordedSign == Spec => []RecordedCanSign
<1>1. ASSUME IInv, finished = "yes" PROVE RecordedCanSign
  <2>1. copied = Nodes /\ first = "no"
    BY <1>1 DEF IInv, TypeOK, Stages
  <2>2. OnFabric => accounts \subseteq enrolled
    BY <1>1, <2>1 DEF IInv, Names
  <2>3. ASSUME kind \in {"geth", "ethsigner", "quorum"}, NEW a \in accounts
        PROVE  \E n \in Nodes : a \in volume[n]
    <3>1. Held(a)
      BY <1>1, <2>1, <2>3 DEF IInv, Wallets
    <3>2. kind # "quorum" => UnlockedOn(a) = 0 /\ 0 \in Nodes
      BY <2>3, IndexFacts DEF UnlockedOn
    <3>3. kind = "quorum" => UnlockedOn(a) \in Nodes
      BY UnlockedOnNode DEF Unlocks
    <3> QED
      BY <3>1, <3>2, <3>3 DEF Held
  <2>4. kind = "tezos" => Cardinality(volume[0]) = 1
    <3>1. kind = "tezos" => \E a \in Everyone : volume[0] = {a}
      BY <1>1, <2>1, IndexFacts DEF IInv, Wallets, HasWallets
    <3> QED
      BY <3>1, FS_Singleton
  <2>5. kind = "quorum" /\ premade = "no" => \A i \in Index : tm[i] = Member(i)
    BY <1>1, <2>1, IndexFacts DEF IInv, Wallets
  <2> QED
    BY <2>2, <2>3, <2>4, <2>5 DEF RecordedCanSign
<1>2. IInv => RecordedCanSign
  BY <1>1 DEF RecordedCanSign
<1> QED
  BY <1>2, Invariant, PTL

(* From a start that succeeded to the next stop every account of the state *)
(* is unlocked, also where the setup was cut short: then no start succeeds *)
(* whose state names an account that is in no volume.                      *)
THEOREM StartedUnlocked == Spec => []StartedIsUnlocked
<1>1. IInv => StartedIsUnlocked
  BY DEF IInv, Stages, Unlocking, StartedIsUnlocked
<1> QED
  BY <1>1, Invariant, PTL

(* Once the setup has filled the volume of every node, and as long as none *)
(* is removed, no start is asked to unlock an account its node cannot      *)
(* have; and no registration is repeated after a complete tear-down.       *)
THEOREM StartNotDoomed == Spec => []StartIsNotDoomed
<1>1. ASSUME IInv, step \in {"accounts", "restarted"} PROVE StartIsNotDoomed
  <2>1. ASSUME Unlocks, copied = Nodes, NEW a \in pending
        PROVE  \/ a \in volume[UnlockedOn(a)]
               \/ kind = "quorum" /\ \E n \in Nodes \ {0} : New(a[2]) = a /\ a \in volume[n]
    BY <1>1, <2>1 DEF IInv, TypeOK, Wallets, Held, Unlocks
  <2>2. kind = "fabric" /\ leftover = "no" => pending \cap created = {}
    BY <1>1 DEF IInv, Names
  <2> QED
    BY <2>1, <2>2 DEF StartIsNotDoomed
<1>2. IInv => StartIsNotDoomed
  BY <1>1 DEF StartIsNotDoomed
<1> QED
  BY <1>2, Invariant, PTL

(* A chaincode whose deployment was reported runs the package that was     *)
(* given, if no other installed package goes by the name and none was      *)
(* deployed during the setup.                                              *)
THEOREM ContractsRun == Spec => []ContractsRunTheirPackage
<1>1. IInv => ContractsRunTheirPackage
  <2> SUFFICES ASSUME IInv, NEW c \in contracts, overlapped # "yes"
               PROVE  \/ c.name \in committed /\ approved[c.name] = c.package
                      \/ \E p \in installed \ {c.package} : c.name \in NamesOf[p]
    BY DEF ContractsRunTheirPackage
  <2>1. overlapped = "no"
    BY DEF IInv, TypeOK
  <2> QED
    BY <2>1 DEF IInv, Undisturbed
<1> QED
  BY <1>1, Invariant, PTL

(* A finished first start on a Fabric network of the stack's own has       *)
(* joined the channel, enrolled the members and committed FireFly's        *)
(* chaincode, until the network is torn down.                              *)
THEOREM FinishedSetupUsable == Spec => []FinishedSetupIsUsable
<1>1. ASSUME IInv, finished = "yes", kind = "fabric" PROVE OfMembers \subseteq enrolled
  <2>1. first = "no" /\ OfMembers \subseteq accounts
    BY <1>1 DEF IInv, TypeOK, Stages
  <2> QED
    BY <1>1, <2>1 DEF IInv, Names, OnFabric
<1>2. IInv => FinishedSetupIsUsable
  BY <1>1 DEF IInv, Network, FinishedSetupIsUsable
<1> QED
  BY <1>2, Invariant, PTL

=============================================================================
