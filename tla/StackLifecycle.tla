---------------------------- MODULE StackLifecycle ----------------------------
(***************************************************************************)
(* The life of one FireFly stack under the ff commands init, start, stop,  *)
(* reset and remove (cmd/*.go, internal/stacks/stack_manager.go).          *)
(*                                                                         *)
(* A command is a process of several steps on the stack directory and on   *)
(* docker.  Every step may fail, with part of its effect done, and the     *)
(* process may be killed between any two steps; the next command finds     *)
(* whatever was left.  One command runs at a time (StackState has the      *)
(* interleavings of several).                                              *)
(***************************************************************************)
EXTENDS Naturals

CONSTANTS
  Members,               \* members of the stack
  External,              \* those whose core runs outside docker
  Tokens,                \* contracts the token providers deploy
  FireFly,               \* the FireFly multiparty contract
  Options                \* what init may be asked for

(* Stack.MultipartyEnabled, Stack.ContractAddress (a contract deployed     *)
(* beforehand) and Stack.BlockchainConnector.  The chain is a local one:   *)
(* getBlockchainProvider then enables the token factories in any case.     *)
AllOptions ==
  [multiparty: {"yes", "no"}, contract: {"none", "given"},
   connector: {"evmconnect", "ethconnect"}]

ASSUME LifecycleAssumption ==
  /\ External \subseteq Members
  /\ FireFly \notin Tokens
  /\ Options \subseteq AllOptions

Internal  == Members \ External
Contracts == Tokens \cup {FireFly}

(* Docker volumes, by kind: a kind is there when one of its volumes is.    *)
Volumes == {"blockchain", "connector_config", "dataexchange", "core_data",
            "external_core_data"}

Files    == {"stack.json", "init", "runtime"}
Commands == {"init", "start", "start_no_rollback", "stop", "reset", "remove"}
StartCommands == {"start", "start_no_rollback"}
Results  == {"ok", "failed", "rolled_back", "killed"}

(* The steps of a first-time setup that follow the creation of runtime/.   *)
SetupSteps ==
  {"disable_cores", "setup_volumes", "start_dependencies", "deploy_tokens",
   "deploy_firefly", "patch_configs", "enable_cores", "stop_for_restart",
   "restart", "wait_for_cores", "register", "init_tokens", "record_state"}

Steps ==
  SetupSteps
    \cup {"idle", "init_files", "init_config", "init_cleanup",
          "copy_init", "resume", "final_wait",
          "stop", "down", "remove_runtime", "remove_volumes", "remove_dir"}

VARIABLES
  options,     \* what init was asked for, in stack.json once that exists
  (* the stack directory *)
  files,       \* which of Files exist
  compose,     \* docker-compose.yml: none, cores disabled, cores enabled
  patched,     \* members whose core config in runtime/ has its namespace
  saved,       \* DeployedContracts of runtime/stackState.json
  (* docker *)
  volumes,     \* volumes that exist
  chain,       \* contracts on the chain the blockchain volume holds
  deps,        \* the containers the cores depend on: up or down
  cores,       \* internal members whose core is up
  registered,  \* members whose org and node are registered on the chain
  (* the running process *)
  cmd,         \* its command, "none" between two commands
  pc,          \* its next step
  mem,         \* Stack.State.DeployedContracts
  asked,       \* members registerFireflyIdentities is through with
  (* history *)
  ended,       \* the command of the process that ended last
  result,      \* what became of it
  setup,       \* finished: a setup that ran to its end made the runtime/ there is
  removal      \* unfinished: a removal began to delete and did not end

diskVars    == <<files, compose, patched, saved>>
dockerVars  == <<volumes, chain, deps, cores, registered>>
processVars == <<cmd, pc, mem, asked, ended, result>>
ghostVars   == <<setup, removal>>
vars        == <<options, diskVars, dockerVars, processVars, ghostVars>>

Multiparty           == options.multiparty = "yes"
ContractAddressGiven == options.contract = "given"

FireFlyToDeploy == IF Multiparty /\ ~ContractAddressGiven THEN {FireFly} ELSE {}

(* The volumes the compose file declares, which `up` creates and           *)
(* removeVolumes removes.  The data volume of an external core is created  *)
(* by the setup but declared only for the cores that run in docker, and    *)
(* only ethconnect names its config volume in its service definition.      *)
Listed ==
  {"blockchain", "dataexchange"}
    \cup (IF Internal # {} THEN {"core_data"} ELSE {})
    \cup (IF options.connector = "ethconnect" THEN {"connector_config"} ELSE {})

CoreDataVolumes ==
  (IF Internal # {} THEN {"core_data"} ELSE {})
    \cup (IF External # {} THEN {"external_core_data"} ELSE {})

TypeOK ==
  /\ options \in AllOptions
  /\ files \subseteq Files
  /\ compose \in {"none", "disabled", "enabled"}
  /\ patched \subseteq Members
  /\ saved \subseteq Contracts
  /\ volumes \subseteq Volumes
  /\ chain \subseteq Contracts
  /\ deps \in {"up", "down"}
  /\ cores \subseteq Internal
  /\ registered \subseteq Members
  /\ cmd \in Commands \cup {"none"}
  /\ pc \in Steps
  /\ mem \subseteq Contracts
  /\ asked \subseteq Members
  /\ ended \in Commands \cup {"none"}
  /\ result \in Results
  /\ setup \in {"unfinished", "finished"}
  /\ removal \in {"none", "unfinished"}

Init ==
  /\ options \in Options
  /\ files = {} /\ compose = "none" /\ patched = {} /\ saved = {}
  /\ volumes = {} /\ chain = {} /\ deps = "down" /\ cores = {}
  /\ registered = {}
  /\ cmd = "none" /\ pc = "idle"
  /\ mem = {} /\ asked = {}
  /\ ended = "none" /\ result = "ok"
  /\ setup = "unfinished" /\ removal = "none"

(* A set that a step has changed in part only.                            *)
Between(set, low, high) == set \in SUBSET high /\ low \subseteq set

-----------------------------------------------------------------------------
(* How a process moves on, ends, or gives up a first-time setup.           *)

Begin(c, step) ==
  /\ cmd = "none"
  /\ cmd' = c
  /\ pc' = step
  /\ UNCHANGED <<mem, asked, ended, result, diskVars, dockerVars, ghostVars>>

Goto(step) ==
  /\ pc' = step
  /\ UNCHANGED <<options, cmd, mem, asked, ended, result>>

Exit(r) ==
  /\ ended' = cmd
  /\ result' = r
  /\ cmd' = "none"
  /\ pc' = "idle"
  /\ mem' = {}
  /\ asked' = {}
  /\ UNCHANGED options

(* StartStack: an error of runFirstTimeSetup is rolled back with ResetStack *)
(* unless --no-rollback was given.                                         *)
FailSetup == IF cmd = "start_no_rollback" THEN Exit("failed") ELSE Goto("down")

-----------------------------------------------------------------------------
(* docker compose up / stop / down.  Each acts on the compose file as it   *)
(* is; each may fail with some of its containers done.                     *)

\* MUTANT: the compose model also holds the cores of external members.
RunnableCoresOfAll == IF compose = "enabled" THEN Members ELSE {}

(* A core whose entrypoint is disabled exits at once.                      *)
RunnableCores == IF compose = "enabled" THEN Internal ELSE {}

UpSucceeds ==
  /\ compose # "none"
  /\ deps' = "up"
  /\ cores' = RunnableCores
  /\ volumes' = volumes \cup Listed
  /\ UNCHANGED <<chain, registered, diskVars, ghostVars>>

UpFails ==
  /\ deps' \in {deps} \cup (IF compose = "none" THEN {} ELSE {"up", "down"})
  /\ Between(cores', cores, cores \cup RunnableCores)
  /\ Between(volumes', volumes, volumes \cup (IF compose = "none" THEN {} ELSE Listed))
  /\ UNCHANGED <<chain, registered, diskVars, ghostVars>>

HaltSucceeds ==
  /\ deps' = "down"
  /\ cores' = {}
  /\ UNCHANGED <<volumes, chain, registered, diskVars, ghostVars>>

HaltFails ==
  /\ deps' \in {deps, "down"}
  /\ cores' \in SUBSET cores
  /\ UNCHANGED <<volumes, chain, registered, diskVars, ghostVars>>

(* runDockerComposeCommand errs when there is no compose file.             *)
ComposeHalt(next) ==
  \/ compose # "none" /\ HaltSucceeds /\ next
  \/ compose # "none" /\ HaltFails /\ Exit("failed")
  \/ compose = "none" /\ Exit("failed")
       /\ UNCHANGED <<dockerVars, diskVars, ghostVars>>

-----------------------------------------------------------------------------
(* ff init: validateStackName refuses the name of a stack that exists.     *)

InitCommand ==
  /\ "stack.json" \notin files
  /\ options' \in Options
  /\ Begin("init", "init_files")

\* MUTANT: docker-compose.yml is left to writeConfig's last line.
InitFilesWithoutCompose ==
  /\ pc = "init_files"
  /\ files' = files \cup {"init"}
  /\ Goto("init_config")
  /\ UNCHANGED <<compose, patched, saved, dockerVars, ghostVars>>

(* InitStack up to docker-compose.yml: wallets, init/ and the compose file. *)
InitFiles ==
  /\ pc = "init_files"
  /\ \/ /\ files' = files \cup {"init"}
        /\ compose' = "enabled"
        /\ removal' = IF "runtime" \in files THEN removal ELSE "none"
        /\ Goto("init_config")
     \/ /\ Between(files', files, files \cup {"init"})
        /\ Goto("init_cleanup")
        /\ UNCHANGED <<compose, removal>>
  /\ UNCHANGED <<patched, saved, dockerVars, setup>>

(* writeConfig: stack.json is not the last of the files it writes.         *)
InitConfig ==
  /\ pc = "init_config"
  /\ \/ files' = files \cup {"stack.json"} /\ Exit("ok")
     \/ /\ Between(files', files, files \cup {"stack.json"})
        /\ Goto("init_cleanup")
  /\ UNCHANGED <<compose, patched, saved, dockerVars, ghostVars>>

(* The cleanup of a failed init is RemoveStack, which starts with `down`.  *)
InitCleanup ==
  /\ pc = "init_cleanup"
  /\ ComposeHalt(Goto("remove_volumes"))

-----------------------------------------------------------------------------
(* ff start.                                                               *)

\* MUTANT: a start that finds the cores disabled goes on with the setup.
StartCommandContinuingSetup ==
  /\ {"stack.json", "init"} \subseteq files
  /\ deps = "down" /\ cores = {}
  /\ \E c \in StartCommands :
       Begin(c, IF "runtime" \notin files THEN "copy_init"
                      ELSE IF compose = "disabled" THEN "setup_volumes"
                      ELSE "resume")
  /\ UNCHANGED options

(* LoadStack, checkPortsAvailable and HasRunBefore.  A stack whose init/   *)
(* is gone would be taken for one of the old layout: not followed here.    *)
StartCommand ==
  /\ {"stack.json", "init"} \subseteq files
  /\ \/ /\ deps = "down" /\ cores = {}
        /\ \E c \in StartCommands :
             Begin(c, IF "runtime" \in files THEN "resume" ELSE "copy_init")
     \/ /\ cmd = "none"
        /\ ended' = "start" /\ result' = "failed"
        /\ UNCHANGED <<cmd, pc, mem, asked, diskVars, dockerVars, ghostVars>>
  /\ UNCHANGED options

CopyInit ==
  /\ pc = "copy_init"
  /\ saved' = {}
  /\ patched' = {}
  /\ \/ files' = files \cup {"runtime"} /\ Goto("disable_cores")
     \/ /\ Between(files', files, files \cup {"runtime"})
        /\ FailSetup
  /\ UNCHANGED <<compose, dockerVars, ghostVars>>

DisableCores ==
  /\ pc = "disable_cores"
  /\ \/ compose' = "disabled" /\ Goto("setup_volumes")
     \/ UNCHANGED compose /\ FailSetup
  /\ UNCHANGED <<files, patched, saved, dockerVars, ghostVars>>

(* blockchainProvider.FirstTimeSetup and copyDataExchangeConfigToVolumes.  *)
SetupVolumes ==
  /\ pc = "setup_volumes"
  /\ LET made == {"blockchain", "connector_config", "dataexchange"} IN
     \/ volumes' = volumes \cup made /\ Goto("start_dependencies")
     \/ Between(volumes', volumes, volumes \cup made) /\ FailSetup
  /\ UNCHANGED <<chain, deps, cores, registered, diskVars, ghostVars>>

(* PullStack, then runStartupSequence(true).                               *)
StartDependencies ==
  /\ pc = "start_dependencies"
  /\ \/ UpSucceeds /\ Goto("deploy_tokens")
     \/ UpFails /\ FailSetup

\* MUTANT: the state is updated although the deployment was not confirmed.
DeployUnconfirmed(contracts, step) ==
  /\ Between(chain', chain, chain \cup contracts)
  /\ mem' = mem \cup contracts
  /\ pc' = step
  /\ UNCHANGED <<options, cmd, asked, ended, result, volumes, deps, cores,
                 registered, diskVars, ghostVars>>

(* tp.DeploySmartContracts and DeployFireFlyContract: what fails may have  *)
(* reached the chain, and is then in no state.                             *)
Deploy(contracts, step) ==
  /\ \/ /\ chain' = chain \cup contracts
        /\ mem' = mem \cup contracts
        /\ pc' = step
        /\ UNCHANGED <<options, cmd, asked, ended, result>>
     \/ /\ contracts # {}
        /\ Between(chain', chain, chain \cup contracts)
        /\ FailSetup
  /\ UNCHANGED <<volumes, deps, cores, registered, diskVars, ghostVars>>

DeployTokens  == pc = "deploy_tokens" /\ Deploy(Tokens, "deploy_firefly")
DeployFireFly == pc = "deploy_firefly" /\ Deploy(FireFlyToDeploy, "patch_configs")

(* patchFireFlyCoreConfigs, CreateVolume and MkdirInVolume, per member.    *)
PatchConfigs ==
  /\ pc = "patch_configs"
  /\ \/ /\ patched' = Members
        /\ volumes' = volumes \cup CoreDataVolumes
        /\ Goto("enable_cores")
     \/ /\ Between(patched', patched, patched \cup Members)
        /\ Between(volumes', volumes, volumes \cup CoreDataVolumes)
        /\ FailSetup
  /\ UNCHANGED <<files, compose, saved, chain, deps, cores, registered, ghostVars>>

\* MUTANT: the compose file is not written again after the deployment.
EnableCoresForgotten ==
  /\ pc = "enable_cores"
  /\ Goto("stop_for_restart")
  /\ UNCHANGED <<diskVars, dockerVars, ghostVars>>

EnableCores ==
  /\ pc = "enable_cores"
  /\ \/ compose' = "enabled" /\ Goto("stop_for_restart")
     \/ UNCHANGED compose /\ FailSetup
  /\ UNCHANGED <<files, patched, saved, dockerVars, ghostVars>>

StopForRestart ==
  /\ pc = "stop_for_restart"
  /\ \/ HaltSucceeds /\ Goto("restart")
     \/ HaltFails /\ FailSetup

\* MUTANT: only the dependencies are started again.
RestartDependencies ==
  /\ pc = "restart"
  /\ deps' = "up"
  /\ Goto("wait_for_cores")
  /\ UNCHANGED <<volumes, chain, cores, registered, diskVars, ghostVars>>

Restart ==
  /\ pc = "restart"
  /\ \/ UpSucceeds /\ Goto("wait_for_cores")
     \/ UpFails /\ FailSetup

(* ensureFireflyNodesUp; a stack with a given contract address returns     *)
(* from the setup right after it.                                          *)
WaitForCores ==
  /\ pc = "wait_for_cores"
  /\ \/ /\ Multiparty /\ ContractAddressGiven
        /\ setup' = "finished"
        /\ Goto("final_wait")
     \/ /\ ~(Multiparty /\ ContractAddressGiven)
        /\ Goto(IF Multiparty THEN "register" ELSE "init_tokens")
        /\ UNCHANGED setup
     \/ /\ External # {} /\ FailSetup /\ UNCHANGED setup
  /\ UNCHANGED <<diskVars, dockerVars, removal>>

(* registerFireflyIdentities, one member: when the org is not registered   *)
(* the setup fails, when the node is not the remaining members are skipped *)
(* and the setup goes on.                                                  *)
Register(m) ==
  /\ pc = "register"
  /\ m \notin asked
  /\ \/ /\ registered' = registered \cup {m}
        /\ asked' = asked \cup {m}
        /\ pc' = IF asked' = Members THEN "init_tokens" ELSE "register"
        /\ UNCHANGED <<options, cmd, mem, ended, result>>
     \/ /\ Between(registered', registered, registered \cup {m})
        /\ FailSetup \/ Goto("init_tokens")
  /\ UNCHANGED <<volumes, chain, deps, cores, diskVars, ghostVars>>

InitTokens ==
  /\ pc = "init_tokens"
  /\ \/ Goto("record_state")
     \/ Tokens # {} /\ FailSetup
  /\ UNCHANGED <<diskVars, dockerVars, ghostVars>>

RecordState ==
  /\ pc = "record_state"
  /\ \/ saved' = mem /\ setup' = "finished" /\ Goto("final_wait")
     \/ UNCHANGED <<saved, setup>> /\ FailSetup
  /\ UNCHANGED <<files, compose, patched, dockerVars, removal>>

(* The stack has run before: runStartupSequence(false) and nothing else.   *)
Resume ==
  /\ pc = "resume"
  /\ \/ UpSucceeds /\ Goto("final_wait")
     \/ UpFails /\ Exit("failed")

(* The last line of StartStack; its error is not rolled back.              *)
FinalWait ==
  /\ pc = "final_wait"
  /\ \/ Exit("ok")
     \/ External # {} /\ Exit("failed")
  /\ UNCHANGED <<diskVars, dockerVars, ghostVars>>

-----------------------------------------------------------------------------
(* ff stop, reset, remove, and the rollback of a setup.                    *)

OnExisting(c, parts) ==
  parts \subseteq files /\ Begin(c, "stop") /\ UNCHANGED options

StopCommand   == OnExisting("stop", {"stack.json"})
RemoveCommand == OnExisting("remove", {"stack.json"})
ResetCommand  == OnExisting("reset", {"stack.json", "init"})

StopStack ==
  /\ pc = "stop"
  /\ ComposeHalt(IF cmd = "stop" THEN Exit("ok") ELSE Goto("down"))

\* MUTANT: a reset keeps the runtime directory.
DownKeepingRuntime == pc = "down" /\ ComposeHalt(Goto("remove_volumes"))

Down ==
  /\ pc = "down"
  /\ ComposeHalt(Goto(IF cmd = "remove" THEN "remove_volumes" ELSE "remove_runtime"))

(* os.RemoveAll(RuntimeDir): cut short, it leaves a gutted runtime/.       *)
RemoveRuntime ==
  /\ pc = "remove_runtime"
  /\ setup' = "unfinished"
  /\ \/ /\ files' = files \ {"runtime"}
        /\ saved' = {} /\ patched' = {}
        /\ removal' = "none"
        /\ Goto("remove_volumes")
     \/ /\ saved' = saved \/ saved' = {}
        /\ patched' \in SUBSET patched
        /\ Exit("failed")
        /\ UNCHANGED <<files, removal>>
  /\ UNCHANGED <<compose, dockerVars>>

(* removeVolumes removes what the service definitions and the compose      *)
(* model list; it stops at the first volume docker refuses to remove.      *)
RemoveVolumes ==
  /\ pc = "remove_volumes"
  /\ setup' = "unfinished"
  /\ removal' = IF cmd \in {"remove", "init"} THEN "unfinished" ELSE removal
  /\ \/ /\ volumes' = volumes \ Listed
        /\ IF cmd \in {"remove", "init"} THEN Goto("remove_dir")
           ELSE Exit(IF cmd \in StartCommands THEN "rolled_back" ELSE "ok")
     \/ /\ Between(volumes', volumes \ Listed, volumes)
        /\ Exit("failed")
  /\ IF "blockchain" \in volumes' THEN UNCHANGED <<chain, registered>>
     ELSE chain' = {} /\ registered' = {}
  /\ UNCHANGED <<deps, cores, diskVars>>

(* os.RemoveAll(StackDir): cut short, it leaves any of its entries.        *)
RemoveDir ==
  /\ pc = "remove_dir"
  /\ \/ /\ files' = {} /\ compose' = "none" /\ saved' = {} /\ patched' = {}
        /\ removal' = "none"
        /\ Exit(IF cmd = "init" THEN "failed" ELSE "ok")
     \/ /\ files' \in SUBSET files
        /\ compose' \in {compose, "none"}
        /\ saved' = IF "runtime" \in files' THEN saved ELSE {}
        /\ patched' = IF "runtime" \in files' THEN patched ELSE {}
        /\ Exit("failed")
        /\ UNCHANGED removal
  /\ UNCHANGED <<dockerVars, setup>>

-----------------------------------------------------------------------------
(* The process is killed between two steps.  (Killed inside one, it leaves *)
(* what the step's failure leaves.)                                        *)
Kill ==
  /\ cmd # "none"
  /\ Exit("killed")
  /\ UNCHANGED <<diskVars, dockerVars, ghostVars>>

UserCommand ==
  InitCommand \/ StartCommand \/ StopCommand \/ ResetCommand \/ RemoveCommand

Step ==
  \/ InitFiles \/ InitConfig \/ InitCleanup
  \/ CopyInit \/ DisableCores \/ SetupVolumes \/ StartDependencies
  \/ DeployTokens \/ DeployFireFly \/ PatchConfigs \/ EnableCores
  \/ StopForRestart \/ Restart \/ WaitForCores
  \/ \E m \in Members : Register(m)
  \/ InitTokens \/ RecordState \/ Resume \/ FinalWait
  \/ StopStack \/ Down \/ RemoveRuntime \/ RemoveVolumes \/ RemoveDir

Next == UserCommand \/ Step \/ Kill

Spec == Init /\ [][Next]_vars

-----------------------------------------------------------------------------
(* Properties.                                                             *)

AtRest(c, r) == cmd = "none" /\ ended = c /\ result = r
Started == \E c \in StartCommands : AtRest(c, "ok")

Deployed == Tokens \cup FireFlyToDeploy

SetupReturnsEarly == Multiparty /\ ContractAddressGiven

(* A first-time setup that ran to its end is complete, and stays so until  *)
(* a reset or a removal begins: the cores are enabled in the compose file, *)
(* every core config is patched, the volumes are there, the contracts are  *)
(* on the chain, and stackState.json names exactly what the setup deployed *)
(* (nothing, when it returned early for a given contract address).         *)
FinishedSetupIsComplete ==
  setup = "finished" =>
    /\ files = Files /\ compose = "enabled" /\ patched = Members
    /\ Listed \subseteq volumes
    /\ Deployed \subseteq chain
    /\ saved = IF SetupReturnsEarly THEN {} ELSE Deployed

(* A reset that reports success, and a start that reports "all changes     *)
(* rolled back", leave a stack that can be started as a new one: no        *)
(* runtime directory, none of the declared volumes, no contract of the     *)
(* old chain and nothing running.                                          *)
TornDownIsNew ==
  AtRest("reset", "ok") \/ AtRest("start", "rolled_back") =>
    /\ {"stack.json", "init"} \subseteq files /\ compose # "none"
    /\ "runtime" \notin files
    /\ volumes \cap Listed = {} /\ chain = {}
    /\ deps = "down" /\ cores = {}

(* stackState.json never names a contract that is not on the chain, except *)
(* in what an unfinished removal left.  (ResetStack deletes the record     *)
(* before the chain, RemoveStack the chain before the record.)             *)
NoDanglingRecord == saved \subseteq chain \/ removal = "unfinished"

(* A stack that exists can be stopped and removed: its compose file is     *)
(* there, except in what an unfinished removal left.                       *)
ExistingIsRemovable ==
  "stack.json" \in files => compose # "none" \/ removal = "unfinished"

(* A start that reports success on a stack whose setup was once finished   *)
(* leaves the dependencies and every core that docker runs up.             *)
StartedIsRunning ==
  Started /\ setup = "finished" => deps = "up" /\ cores = Internal

(* The commands keep what StackContract promises: above all, an abandoned  *)
(* setup is never taken up again nor completed by a later command.         *)
Status ==
  CASE "stack.json" \notin files -> "absent"
    [] "stack.json" \in files /\ setup = "finished" -> "ready"
    [] "stack.json" \in files /\ setup # "finished" /\ "runtime" \in files -> "torn"
    [] OTHER -> "new"

Contract == INSTANCE StackContract WITH status <- Status,
                                        busy <- pc \in SetupSteps

ImplementsContract == Contract!Spec

(* What the documentation says and the code does not do. *)

(* cmd/start.go: start "will start a stack and run it in the background".  *)
StartRunsTheStack == Started => deps = "up" /\ cores = Internal

(* README.md: remove "will completely delete a stack, including all of its *)
(* data and configuration".                                                *)
RemoveDeletesAllData == AtRest("remove", "ok") => volumes = {}

(* stack_manager.go: the setup ends by updating the stack state "with any  *)
(* new state that was created as a part of the setup process".             *)
SetupStateIsRecorded == setup = "finished" => Deployed \subseteq saved
=============================================================================
