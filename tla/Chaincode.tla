------------------------------- MODULE Chaincode -------------------------------
(***************************************************************************)
(* The life cycle of a chaincode on the Fabric network of a stack          *)
(* (internal/blockchain/fabric/fabric_provider.go:142-199 and 330-581):    *)
(* the channel is created and joined, a package is installed on the peer,  *)
(* the installed packages are listed, one of them is approved under a name *)
(* and the definition is committed, always with sequence 1.  Each of these *)
(* is a command run in a container of its own.                             *)
(*                                                                         *)
(* Two jobs do it: the first start, for FireFly's own chaincode, and       *)
(* `ff deploy fabric`, for a package of the user's.                        *)
(***************************************************************************)
EXTENDS Naturals

CONSTANTS
  Packages,        \* the packages there are, FireFly's included
  FireFlyPackage,
  ChaincodeNames,  \* the names a definition can have, FireFly's included
  FireFlyName,
  NamesOf,         \* the names a package's label goes by
  NoPackage

ASSUME ChaincodeAssumption ==
  /\ FireFlyPackage \in Packages
  /\ FireFlyName \in ChaincodeNames
  /\ NamesOf \in [Packages -> SUBSET ChaincodeNames]
  /\ NoPackage \notin Packages

VARIABLES
  channel,    \* "none", "created", "joined", or "stale": the peer's, without an orderer's
  installed,  \* the packages on the peer
  approved,   \* the package the organization has approved under each name
  committed,  \* the names that have a definition on the channel
  contracts,  \* the deployments that were reported
  job         \* where each of the two jobs is

chaincodeVars == <<channel, installed, approved, committed, contracts, job>>
networkVars == <<channel, installed, approved, committed>>

Jobs == {"setup", "deploy"}

Idle == [step |-> "idle", given |-> NoPackage, name |-> FireFlyName, chosen |-> NoPackage]

ChaincodeInit ==
  /\ channel = "none"
  /\ installed = {}
  /\ approved = [n \in ChaincodeNames |-> NoPackage]
  /\ committed = {}
  /\ contracts = {}
  /\ job = [j \in Jobs |-> Idle]

-----------------------------------------------------------------------------
(* osnadmin channel join, and peer channel join.                           *)
CreateChannel ==
  /\ channel = "none"
  /\ channel' = "created"
  /\ UNCHANGED <<installed, approved, committed, contracts, job>>

JoinChannel ==
  /\ channel = "created"
  /\ channel' = "joined"
  /\ UNCHANGED <<installed, approved, committed, contracts, job>>

(* The volume of the peer is removed, or of the orderer, or both.          *)
NoLedger ==
  /\ channel' = "none" /\ committed' = {}
  /\ approved' = [n \in ChaincodeNames |-> NoPackage]

LosePeer ==
  /\ channel # "stale"
  /\ channel' = IF channel = "joined" THEN "created" ELSE channel
  /\ installed' = {}
  /\ UNCHANGED <<approved, committed>>

LoseOrderer ==
  /\ \/ channel \in {"joined", "stale"} /\ channel' = "stale" /\ UNCHANGED <<approved, committed>>
     \/ channel = "created" /\ NoLedger
  /\ UNCHANGED installed

LoseNetwork == NoLedger /\ installed' = {}

(* The job is given a package and a name.                                  *)
BeginJob(j, package, name) ==
  /\ job[j].step = "idle"
  /\ job' = [job EXCEPT ![j] = [Idle EXCEPT !.step = "install", !.given = package, !.name = name]]
  /\ UNCHANGED <<networkVars, contracts>>

(* The peer refuses a package that it has, which only the command of the   *)
(* user's takes for a success.                                             *)
InstallChaincode(j) ==
  /\ job[j].step = "install"
  /\ job[j].given \in installed => j = "deploy"
  /\ installed' = installed \cup {job[j].given}
  /\ job' = [job EXCEPT ![j].step = "query"]
  /\ UNCHANGED <<channel, approved, committed, contracts>>

\* MUTANT: the command takes the first package of the list as well.
ChoicesWhatever(j) == installed

(* The setup takes the first package of the list, and the command the last *)
(* one whose label goes by the name; the order of the list is the peer's.  *)
Choices(j) ==
  IF j = "setup" THEN installed ELSE {p \in installed : job[j].name \in NamesOf[p]}

QueryInstalled(j) ==
  /\ job[j].step = "query"
  /\ \E p \in Choices(j) :
       job' = [job EXCEPT ![j] = [@ EXCEPT !.step = "approve", !.chosen = p]]
  /\ UNCHANGED <<networkVars, contracts>>

ApproveChaincode(j) ==
  /\ job[j].step = "approve"
  /\ channel = "joined"
  /\ approved' = [approved EXCEPT ![job[j].name] = job[j].chosen]
  /\ job' = [job EXCEPT ![j].step = "commit"]
  /\ UNCHANGED <<channel, installed, committed, contracts>>

(* A second definition of a name would need sequence 2.                    *)
CommitChaincode(j) ==
  /\ job[j].step = "commit"
  /\ approved[job[j].name] # NoPackage
  /\ job[j].name \notin committed
  /\ committed' = committed \cup {job[j].name}
  /\ job' = [job EXCEPT ![j].step = "committed"]
  /\ UNCHANGED <<channel, installed, approved, contracts>>

(* The location is returned, and the caller reports it.                    *)
ReportContract(j) ==
  /\ job[j].step = "committed"
  /\ contracts' = contracts \cup {[name |-> job[j].name, package |-> job[j].given]}
  /\ job' = [job EXCEPT ![j] = Idle]
  /\ UNCHANGED networkVars

(* Any of the containers fails, or nothing on the list goes by the name:   *)
(* what the steps before have done stays done.                             *)
JobFails(j) ==
  /\ job[j].step # "idle"
  /\ job' = [job EXCEPT ![j] = Idle]
  /\ UNCHANGED <<networkVars, contracts>>

(* The steps that need the network.                                        *)
ChaincodeStep(j) ==
  \/ InstallChaincode(j)
  \/ QueryInstalled(j)
  \/ ApproveChaincode(j)
  \/ CommitChaincode(j)

=============================================================================
