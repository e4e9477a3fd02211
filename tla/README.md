# FireFly CLI: TLA+ models and proofs

`ff` creates, starts, stops, resets, upgrades and removes local FireFly stacks.
A stack is a directory `~/.firefly/stacks/<name>` and a set of docker
containers, volumes and networks. Nothing locks a stack: each command is a
process that reads the directory, runs `docker` and `docker compose` many times,
and writes the directory back. What the next command finds is whatever the last
one left, however it ended.

This directory holds TLA+ models of that system, the TLC runs that check them on
small instances and TLAPS proofs that hold for all instances. Paths below are
relative to the repository.

## The system

| component | state | operations | interacts with |
|---|---|---|---|
| **Stack lifecycle** `internal/stacks/stack_manager.go`, `pkg/types/stack.go`, `cmd/{init*,start,stop,reset,remove}.go` | `stack.json`, `init/`, `runtime/`, `docker-compose.yml`; per process: `Stack`, `Stack.State` | `InitStack`, `LoadStack`, `StartStack` (`runFirstTimeSetup` or `runStartupSequence`, `ensureFireflyNodesUp`), `StopStack`, `ResetStack`, `RemoveStack` | docker, providers, connectors |
| **Stack state** `stackState.json` in `runtime/` | contracts deployed and accounts created so far | read by `LoadStack`; rewritten as a whole by the setup, `deploy` and `accounts create` | every command |
| **Docker command runner** `internal/docker/docker.go` | two pipes, two goroutines, three channels | `runCommand`, `pipeCommand`, `readPipe`, `RunDockerCommandRetry` | every docker step |
| **Compose model and volumes** `internal/docker/docker_config.go`, the providers' service definitions | none; computed from the stack | `CreateDockerCompose`, `removeVolumes` | lifecycle, docker |
| **Providers and connectors** `internal/blockchain/**` | volumes of node and connector, accounts | `WriteConfig`, `FirstTimeSetup`, `PreStart`, `PostStart`, `DeployContract`, `CreateAccount`, `Reset` | lifecycle, HTTP, docker |
| **HTTP with retry** `internal/core/http.go` | retries left | `RequestWithRetry` | connectors, FireFly core, token services |
| **Identities** `internal/stacks/firefly_identity.go` | members registered | `registerFireflyIdentities` | lifecycle, FireFly core |
| **Token providers** `internal/tokens/**` | addresses of factories | `DeploySmartContracts`, `FirstTimeSetup` | lifecycle, connectors |
| **Upgrade, manifests** `stack_manager.go:655-717,1096-1182`, `internal/core/manifest.go` | image versions in `stack.json` and `docker-compose.yml` | `UpgradeStack`, `ValidateVersionUpgrade`, `replaceVersions`, `PullStack` | lifecycle, docker, registry |
| **Ports** `stack_manager.go:564-864` | ports in `stack.json` | `createMember`, `checkPortsAvailable` | lifecycle, compose model |
| **Configuration** `internal/core/config.go`, the connectors' `config.go`, `network_config.go`, `prometheus_config.go` | none; files in `init/config` | `NewFireflyConfig`, `GenerateConfig`, `WriteNetworkConfig` | ports, compose model |
| **Fabric** `internal/blockchain/fabric` | channel, chaincodes and identities on the network | `PostStart`, `DeployFireFlyContract`, `DeployContract`, `CreateAccount` | docker, fabconnect |
| **Tezos** `internal/blockchain/tezos` | the signer's secret | as the other providers | docker |
| **Command line** | none | prompts, logs | user |

What is hard here:

* *Crashes and partial failure.* A first-time setup is fourteen steps over
  minutes; any may fail or be cut off, and its rollback (`ResetStack`) is a
  sequence that may fail as well. The only memory of progress is which files
  exist: `HasRunBefore` asks whether `runtime/` does.
* *Order of steps.* The compose file is written three times in a setup (cores
  enabled by `init`, disabled for the deployment, enabled again); `reset` deletes
  the record before the chain and `remove` the chain before the record.
* *Concurrent commands.* `stackState.json` is read at the start of a command and
  rewritten at its end without a lock, by truncating it first.
* *Lost answers.* A request that got no answer is sent again, a POST as well.
* *Generated files that have to agree.* Eighteen services, their ports, volumes,
  dependencies and the addresses they are given come out of a dozen functions in
  as many packages; nothing checks them against each other but docker.
* *State outside of the stack directory.* Which accounts a node has unlocked, what a
  CA has registered and which chaincode is committed is known to containers only,
  and a stop, a reset or a failure forgets some of it.
* *Two streams.* A command's output is captured by a select that ends when one
  of the streams ends.

What makes each component correct: a finished setup is complete and a torn-down
stack is like new (lifecycle); the state loses nothing it was given and names
only what exists (state); the error text of a failed command reaches the caller
and every command returns (runner); a returned address is a deployed contract
(deployment); two services never get the same port, and each configured address
reaches its service (ports, configuration); services start in an order that ends
(compose); after an upgrade both files name the same versions (upgrade); whoever the
state names can sign (providers); a deployed chaincode is the package that was given
(Fabric). `PROJECT.json` lists the hazards line by line.

## Modules

| module | models | proofs |
|---|---|---|
| `StackContract` | what the commands promise about a stack: absent, new, torn, ready | `StackLifecycleProofs` |
| `StackLifecycle` | the commands step by step, with failure and kill | `StackLifecycleProofs` |
| `MCStackLifecycle` | the options TLC checks `StackLifecycle` with | |
| `StackState` | several commands at once on `stackState.json` | `StackStateProofs` |
| `CommandRunner` | one external command and the capture of its output | `CommandRunnerProofs` |
| `ContractDeploy` | submission and polling of one deployment | `ContractDeployProofs` |
| `Ports` | the host ports of a stack, and which are probed | `ServicesProofs` |
| `Services` (extends `Ports`) | the services of `docker-compose.yml`, for every provider and option | `ServicesProofs` |
| `Endpoints` (extends `Services`) | the addresses in the generated configuration files | `ServicesProofs` |
| `Compose` (extends `Endpoints`) | docker bringing the services up, with ports taken by others | `ComposeProofs` |
| `MCCompose` | the stacks TLC checks `Compose` with | |
| `Upgrade` | `ff upgrade` and `ff pull` | `UpgradeProofs` |
| `MCUpgrade` | the releases and manifests TLC checks `Upgrade` with | |
| `Chaincode` | the life cycle of a chaincode on a Fabric network | `ProviderProofs` |
| `Provider` (extends `Chaincode`) | accounts, keys, identities and chaincodes from init to reset | `ProviderProofs` |
| `MCProvider` | the packages TLC checks `Provider` with | |

Definitions marked `MUTANT` are plausible mistakes; the model does not use them.
Each stands before the definition it would replace, and breaks one property.

### StackLifecycle

One command runs at a time. `options` is what `ff init` was asked for: multiparty
mode or not, a contract to deploy or given, and the connector. Each `InitCommand`
chooses anew, so that what an old stack left behind meets the options of a new
one. `MCStackLifecycle` has the choices TLC checks; the proofs hold for all.

State, by where it lives:

* disk: `files` (which of `stack.json`, `init/`, `runtime/` exist), `compose`
  (absent, cores disabled, cores enabled), `patched` (members whose core config
  in `runtime/` has its namespace), `saved` (contracts `stackState.json` names);
* docker: `volumes` by kind, `chain` (contracts in the blockchain volume),
  `deps` and `cores` (what is running), `registered` (identities on the chain);
* process: `cmd`, `pc`, `mem` (`Stack.State.DeployedContracts`), `asked`;
* history: `ended` and `result` of the last command, `setup` (a setup that ran to
  its end made the present `runtime/`), `removal` (a removal began and did not end).

Each action is one step of the code between two external effects, in the code's
order. `InitCommand`/`InitFiles`/`InitConfig`/`InitCleanup` are `ff init` with the
`RemoveStack` of its error path. `StartCommand` decides with `HasRunBefore`;
`CopyInit` ... `RecordState` are `runFirstTimeSetup` from top to bottom, `Resume`
is the other branch, `FinalWait` the last line of `StartStack`. `StopStack`,
`Down`, `RemoveRuntime`, `RemoveVolumes`, `RemoveDir` are shared by stop, reset,
remove, the rollback of a failed setup (`FailSetup`) and the cleanup of a failed
init, as the functions are in the code. A step succeeds, or fails with any part
of its effect done (`Between`). `Kill` ends the process between two steps.

The compose volumes are abstracted to kinds. What matters is which code creates
them and which lists them: `Listed` is what `removeVolumes` finds,
`CoreDataVolumes` what the setup creates by name.

### StackContract and the refinement

The abstract specification has a stack that is *absent*, *new*, *torn* (a setup
has begun and did not end, or a tear-down was cut short) or *ready*, and the only
way to *ready* is a setup that started on a *new* stack and was not interrupted.
`Status` in `StackLifecycle` maps a state to it; `ImplementsContract` is checked
by TLC and proved (`ContractImplemented`). In other words: no later command ever
completes an abandoned setup. The other side of that coin is the finding
`start_runs_the_stack`: `ff start` on such a stack reports success all the same.

### StackState

Each process runs one of start, create (`accounts create`), deploy, reset. It
loads the state (`Load`), does its work on docker, and writes the state back in
two steps, `Truncate` and `Write`: `os.WriteFile` truncates, and a reader in
between or a kill finds no JSON. `mem` is what the process read plus what it made;
an item carries the name of the process that made it. `given` says whether the stack
has a contract address of its own, in which case the setup returns before it writes
the state (`ReturnsEarly`), with its token contracts deployed and in no state. A
rollback or a reset may break off within `os.RemoveAll` and among the volumes. `met`
remembers, for each process, which others were at work while it was, and `history`
whether a write or a tear-down broke off and whether volumes were removed. So
`OnlyOverlapLoses` can speak of one command that nobody met and let all later ones
overlap as they like; the setup that returns early is its one exception, and the
finding `setup_state_is_recorded`.

### CommandRunner

The child writes lines to two pipes of bounded capacity; one `readPipe` per pipe
hands them to `runCommand` over an unbuffered channel. `mode` is *follow* under
`-v` or for log commands, where the end of either stream ends the capture, and
*quiet* otherwise, where a closed stdout is received again and again as an empty
line (`ReceiveEnd` leaves it out of the state) and only the end of stderr ends it.
The order of `cmd.Wait` and the reads is the code's: `Wait` closes the pipes.

### ContractDeploy

The client's `retries` belong to the current `RequestWithRetry`; polling starts a
new one. `Submit` is the connector seeing a POST: each one it sees is a new
transaction. A request (`Drop`) or an answer (`lost`) may be lost; both look the
same to the client. ethconnect answers 404 while the outcome is unknown, and a 404
uses up an attempt; evmconnect answers with a status.

### Ports, Services, Endpoints, Compose

These four are layers: numbers, services that publish them, addresses that name
them, and docker that starts the services. A stack is a record of what `ff init` was
asked for (members, external ones, blockchain node, connector, transaction manager,
database, sandbox, Prometheus, number of token providers).

`Ports` is the arithmetic of `createMember`, with the three ports that lie at *twice*
the service base because `nextPort` already holds it (`stack_manager.go:581-587`),
and the list `checkPortsAvailable` probes. It leaves out Fabric's fixed ports, the
Tezos signer's 9583 and all Quorum nodes but the first, as the code does.

`Services` has one definition per service of `CreateDockerCompose` and of every
provider, connector and token provider: published and other ports, volumes mounted,
volumes its command cannot do without, volumes listed, health check, dependencies.
`BuildDockerCompose` adds the dependency of every core on every extra service.

`Endpoints` has who names which address in a generated file, and which listener the
author was after. `Reached` is docker's part: which listener answers there.

`Compose` is the only one with variables. `Init` is any stack `init` accepts
(`Validated`), so the three properties about files are checked of them all; those
of `StartedOptions` are started too. A start probes (`CheckPorts`); the first one makes
the runtime directory (`StartStack`) and fills the volumes one after the other (`Fill`);
then `docker compose up` starts any service whose dependencies are satisfied. Other
processes take and release ports at any time (`Occupy`, `Release`). A first start that
fails is rolled back, or not (`Fail`: `--no-rollback`), and the rollback is the tear-down
of a reset: services stop one by one in the order of their dependencies (`StopService`),
`runtime/` goes (`RemoveRuntime`), then each volume (`RemoveVolumes`); a removal has no
`RemoveRuntime` and ends with the directory of the stack. `BreakOff` is a command that
fails or is killed at whatever step it is at: between `runtime/` and the fills, among
the fills, in the rollback before `runtime/` is gone, or among the volumes. `unfinished`
remembers the two ways in which a runtime directory can claim volumes that are not
filled, a setup that broke off among the fills and a removal that broke off among the
volumes, until a reset has removed it: there, `NeededVolumesAreFilled` is false of the
code, as the finding `start_runs_the_stack` says from the other side.
`UpIsNeverStuck` is the part of `UpEnds` that needs no fairness: there is always a
service to start or a health check to wait for.

`Roomy` in `Ports` is no code but what the code takes for granted: that the blocks of
a stack's ports do not overlap (the cores', the members', the doubled ones, Tessera's,
Prometheus's, the fixed ones) and that no member has more than 89 token services.
`init` checks neither. With the default bases it holds of up to 19 members on a local
Fabric network, whose first port is 7050, of up to 39 with Prometheus on 9090, and of
up to 51 otherwise.

`AddressesReachTheirService` leaves out two things the code gets wrong or leaves to
the user: the sandbox and Prometheus ask docker for an *external* core by a service
name that does not exist (`docker_config.go:190`, `prometheus_config.go:61`), and a
second Quorum node's port can be that of a token service of the first member
(`quorum_provider.go:292`). `ProbedPortsAreLost` leaves out those ports (`QuorumPorts`)
for the same reason: one of the started stacks fails there every time.

### Upgrade

`pc` is how far an upgrade is: *validate*, *replace* (the compose file), *record*
(`stack.json`), *pull upgraded*. Every step may fail, and `Kill` comes between any two.
A write may also break off: `os.WriteFile` truncates first, so `docker-compose.yml`
keeps the images of some services only (`WritePart`; `cut` remembers it), and
`stack.json` may be cut short, after which no command loads the stack
(`LoadStackFails`). `Panics` is the nil entry of a manifest. `broken` is the set of
releases an upgrade to which broke off between the two files, by a failure or by a
kill; an upgrade to the same release that gets past `stack.json` makes it good, and a
first start writes the compose file anew. `FilesAgree` says that a service whose image
is not that of `stack.json` has the one of such a release, `UpgradedIsTheRelease` that
an upgrade is complete when none is left. That it is not complete otherwise is the
finding `upgrade_reports_its_release`.

A version is a sequence of parts and a part a sequence of digits, so that
`StringGreater` is Go's comparison: `NoDowngrade` holds for parts of the same length
only, as 1.3.10 to 1.3.9 is accepted and 1.3.9 to 1.3.10 is refused (`manifest.go:141`).
Nothing keeps the images of a manifest file given to `init`: `UpgradedIsTheRelease`
holds for them too, although the help text of the command (`cmd/upgrade.go:37`) says
that an upgrade has no effect on pinned containers.

### Chaincode and Provider

`Provider` follows one stack of any provider through starts, stops, resets and
`accounts create`. Wallets are in `init/` (`files`), in a node's or signer's volume
(`volume`), or unlocked in a running node (`unlocked`); `accounts` is what the state
names: empty without a runtime directory, and the members' from the moment `init/` has
been copied (`CopyInit`), since the state that `init` wrote names them. A first start
goes through *copy*, *volumes* (node after node; with Quorum each wallet and then its
Tessera's key), with Fabric *channel* and *join*, *accounts* (unlock, or register and
enroll), *contract*, *stopped* and *restarted*. `FailStart` is any step failing or a
kill: rolled back, rolled back in part (`TearDownBreaksOff`), or left as it is, with
`runtime/` and its state. A later start then unlocks what that state names. Where the
wallets had not reached the volumes (`copied` says which have) it fails, and so does
every start after it, until a reset: `StartIsNotDoomed` excepts exactly these stacks,
and those which a removal cut short has robbed of volumes. `leftover` marks a stack
whose tear-down removed `runtime/` and not every volume, so that the next first start
meets a CA, a ledger or wallets of before.

What the properties except is what the code does: the doomed start above; an account
made for another Quorum node than the first is later unlocked on the first, and every
start fails from then on (`StartIsNotDoomed`); an account made before the first start
overwrites the Tessera key of its member, and each Tezos account the one before
(`RecordedCanSign`); a remote CA knows the members from before a reset.

`Chaincode` has the five commands of a deployment as separate steps of two jobs, the
setup's and `ff deploy fabric`. A deployment finds its package by label after
installing it, so two packages of one label prefix can be mixed up; a setup takes
the first of the peer's list (`ContractsRunTheirPackage` says when neither happens).

## Runs

| run | shows | bounds |
|---|---|---|
| `lifecycle` | completeness of a finished setup, `TornDownIsNew`, no dangling record, removability, `StartedIsRunning`, refinement of `StackContract` | two members, one external; one token; the four options of `MCOptions`; any number of commands |
| `start_runs_the_stack` | finding: start after an abandoned setup | as `lifecycle` |
| `remove_deletes_all_data` | finding: volumes survive a remove | two internal members, either connector |
| `setup_state_is_recorded` | finding: early return skips the state | two internal members, contract given |
| `state` | what was made without an overlap is never lost, unreadable only after an overlap or cut, names only what exists | three processes of any kinds, contract given or not |
| `runner` | no line of stderr lost in quiet mode, one stream always complete, every command returns | up to three lines a stream, pipes of two |
| `deploy` | a returned address is real, copies bounded by losses and by attempts, the deployment returns | both connectors, three retries |
| `deploy_evmconnect_reverted` | finding: endless wait | three retries |
| `compose` | the compose file loads, every address reaches its service, services start in order on filled volumes, `up` never gets stuck, ends, and fails over a probed port only if it was taken meanwhile | files: all accepted options with up to three members and two token providers; starts and tear-downs: the eleven stacks of `MCStarted`, broken off anywhere on the eight of `MCCut`; one other process with one of three ports (`Contested`) at a time |
| `upgrade` | where the two files agree and why they do not, an upgraded stack is on its release, no downgrade, every command ends | three releases, four initial manifests, four components of which two are used, one retry |
| `upgrade_reports_its_release` | finding: success reported with services on another release | as `upgrade` |
| `provider` | the accounts of the state can sign and are unlocked, a start is not bound to fail unless its setup was cut short among the wallets, chaincodes are the packages given, a finished Fabric setup is usable | six providers, two members, two more accounts, two packages of one label besides FireFly's |

Why the bounds are enough. The lifecycle has no counters: its state space is
finite for any members and the run covers command sequences of every length. Two
members give the two kinds (docker and external) and an order between them; the
proofs cover the rest. Three processes suffice for the state: a load, a write
that it misses, and a third command that acts on the result. Three lines over
pipes of two fill a pipe and leave a line behind. Three retries stand for 30: the
number matters only as a bound on copies, which is proved for every number. Three
members of a stack are one external, one internal and one more to be confused with;
ports differ between members by a constant, so a third adds no new kind of meeting.
A stack that commands break off on (`CutOptions`) is one of each way to fill volumes:
the larger stacks would multiply subsets of volumes that the smaller ones show already.
The three ports of `Contested` are a core's, the blockchain's, and one that a token
service and a second Quorum node share; the proofs have all ports.
The releases are a pair of patch versions and one of another minor version, of which
two share the connector, so that a service may be replaced or not; the manifests have a
missing entry on either side of the test for nil. Two
members and two accounts give Quorum a node that is not the first and a wallet that
is no member's.

Deadlock is checked in the lifecycle, the upgrade and the provider, where a new
command is always possible. The other systems end (`CHECK_DEADLOCK FALSE`):
processes are done, a command has returned, a stack that is not started stays.

## Fairness

* `CommandRunner!FairSpec`: the child, each reader and the caller keep running.
  They are goroutines and a process the kernel schedules. `EveryCommandReturns`
  excepts a child that closes one stream before it exits (`ClosedEarly`), as
  docker does not: it may block on the other, full pipe while `runCommand` is
  already in `Wait`.
* `ContractDeploy!FairSpec`: the client runs, every request ends in an answer or
  an error, and the chain mines. `http.Client` sets no timeout, so the connector
  or the kernel has to end a request. Mining matters for evmconnect only: with
  ethconnect the polling gives up by itself.
* `Compose!Spec`: docker goes on while `up` runs: some service starts, becomes
  healthy, is given up, or `up` ends. That a service ever becomes healthy is not
  assumed.
* `Upgrade!Spec`: the command goes on unless it is killed. A pull that succeeds is
  left out of the fairness, since the registry may be gone: `EveryCommandEnds` then
  rests on the counting of the retries.
* Nothing else is assumed to be fair; a user may stop issuing commands.

## Proofs

All modules `*Proofs` are checked by TLAPS for every value of the constants that
satisfies the named assumption (`LifecycleAssumption`, `StateAssumption`,
`RunnerAssumption`, `DeployAssumption`, `UpgradeAssumption`, `ProviderAssumption`,
`ChaincodeAssumption`, `PortsAssumption`, `ComposeAssumption`), and for `Upgrade` also
`DistinctImages`: no two components have the same image, in whatever manifests. Two theorems
of `ComposeProofs`, `PortsLost` and `AddressesReach`, have a hypothesis besides:
that every stack `init` accepts is `Roomy`. `MCRoomy` in `MCCompose` has TLC check it
of the stacks of the run.

*StackLifecycle.* `FinishedSetupIsComplete` is not inductive: it speaks of the end
of a setup, and each step adds one part. `IInv` adds `StepOfCommand` (which steps a
command can be at), `DirectoryOfStep` (what the directory holds at each step) and
`ProgressOfSetup` (what the setup has achieved when it is at a given step, as a
chain of implications from later steps to earlier results). From these follow the
five safety properties and, with the step simulation `StepOfContract`, the
refinement.

*StackState.* `OverlapIsSeen` ties the processes at work to `met`, `FilesFit` the file
to the step of its writer, `MemIsMade` what a process holds to what exists.
`MemIsCurrent` carries `OnlyOverlapLoses`: what an undisturbed command made is `Kept`,
that is in the file, or the file is unreadable, and in the memory of every process that
will write it; so that such a write, however late, keeps it. `AloneIsRecorded` gets the
command itself that far.

*CommandRunner.* `LinesConserved`: a line written is in the pipe, with the reader
or in the output. `DoneIsDrained`: a reader that saw the end of its stream left
nothing behind. With `CaptureEnded`, which says which reader ended the capture,
the output is complete.

*ContractDeploy.* `LossesCounted`: every transaction but the one the client knows
is one lost answer. `AttemptsCounted`: transactions and remaining retries add up
to at most the attempts.

*Upgrade.* `Files` says what docker-compose.yml runs at each point of an upgrade: the
images of `stack.json` until they are replaced, those of the new manifest after, each
but for what `Explained` allows, the release of an upgrade that broke off or a write
that did. `ReplaceGivesNew` is the step between the two: an image of the old manifest
becomes that of the new one and any other stays or becomes it. It needs that each
component has a repository of its own, in whatever manifest (`DistinctImages`), and that
the manifest names an image for every service, which `Panics` preserves. `Pulled`
follows the images to the host, and `Checked` carries the comparison of the versions to
the step that writes `stack.json`; `OlderIsSmaller` relates the order of strings to that
of numbers for parts of one length.

*Provider.* The properties speak of a stack whose first start is over; `IInv` says
how one gets there. `Stages`: what is up, pending and finished at each step of a
start, and what the state names from the copy of `init/` on. `Unlocking`: in a start, every account that is no longer pending is unlocked
on some node. `Wallets`: where the keys are, from the files of `init` over the volumes
to the node that is asked to unlock them (`Held`), node by node as the setup fills
them (`HasWallets`, `copied`), with the accounts of other Quorum nodes as the exception.
`Names`: who is registered with the CA and enrolled. `UndoneInductive` is about every
way in which a tear-down ends or breaks off at once; the rollback, the reset and the
removal are instances of it.
`Network`: how far channel and FireFly's chaincode are. `Undisturbed`: as long as no
deployment overlapped the setup's, what each of the two jobs has chosen is installed,
approved under its name and stays so, unless another package goes by that name.

*ServicesProofs and Compose.* The files of a stack never change, so most of the work
is about data. `FileServices` spells out which services a file has, and the lemmas
after it go through them: a name belongs to one service (`NamesAreDistinct`), what is
needed is filled by the setup, what is mounted is listed, what is waited for is there
(`DependsCanBeMet`) and of a lower rank (`WaitsForLowerRanks`), a core waits for all
its configuration names. For the ports, `Gives` assigns each number of a block to one
listener; `PublishedPorts` shows that services publish only what is theirs and
`OneListener` that nobody shares. `ConfigurationReaches` follows from both, line by
line of the configuration files. What moves is kept by three small invariants in
`ComposeProofs`: `Order` (a service that runs has what it depends on),
`VolumesAreFull` (the volumes behind a runtime directory are full unless `unfinished`
says otherwise) and `Probes`. `NeverStuck` takes, of the services that do not run,
one of the lowest rank.

The type invariant of each of these modules is proved with it (`TypeCorrect`).

Only model-checked: the liveness properties `EveryCommandReturns`,
`DeploymentReturns`, `UpEnds` and `EveryCommandEnds` (fairness is out of the prover's
reach), and the findings, which are counterexamples. That the default ports are
`Roomy`, TLC evaluates.

## Findings

1. A start that finds `runtime/` of an abandoned setup runs the dependencies
   without the cores and reports success (`stack_manager.go:623`).
2. `remove` leaves volumes that no service definition and no compose model lists:
   evmconnect's configuration and the core data of external members.
3. A stack with a given contract address never records what its setup deployed
   (`stack_manager.go:1036`).
4. An upgrade that follows one which broke off between the two files, and which goes to
   another release, reports success while services run images of the release that broke
   off (`stack_manager.go:1119-1126`, `cmd/upgrade.go:74`).
5. evmconnect's wait for a transaction does not end if the transaction fails.

Without a run of their own, but visible in an action or in what a property excepts:

* A setup cut short between `runtime/stackState.json` and the wallets
  (`stack_manager.go:876-886`) leaves a geth or quorum stack whose every later start fails
  to unlock the members, until it is reset (the exception of `StartIsNotDoomed`).
* A node that cannot be registered silently ends the registration of all later
  members, and the setup succeeds (`firefly_identity.go:42`, `Register` in
  `StackLifecycle`).
* An upgrade replaces images that were pinned by a manifest file at `init`, which the
  help text denies (`cmd/upgrade.go:37-39`; `UpgradedIsTheRelease` covers those images,
  and `MCUpgrade` has a connector of the user's own that an upgrade with `--force` takes
  away).
* Two commands at once drop each other's contracts and accounts: `OnlyOverlapLoses`
  bounds the loss to what was made in an overlap.
* The exceptions of `AddressesReachTheirService`, `NoDowngrade`, `RecordedCanSign`,
  `StartIsNotDoomed` and `ContractsRunTheirPackage` above.

## Not modelled, and why

* Stacks of the old layout (no `init/`): `StartCommand` and `ResetCommand` require
  `init/`. Their migration copies files between two layouts; planned.
* Stacks on a remote chain (remote RPC, Tezos, a remote Fabric network) in
  `StackLifecycle`; `Services`, `Compose` and `Provider` have them. They have
  no blockchain volume, deploy no token factories, and a reset cannot undo what
  they put on the chain. `AllOptions` has the local chains only.
* Damage inside `init/` after a removal that was cut short; `init/` is there or not,
  and only `StackLifecycle` follows what is left of the directory of the stack.
* Which of the files of one volume a copy that broke off has put there: in `Compose` a
  volume is filled or not, in `Provider` a node has its wallets or not, and its Tessera
  the key.
* A container that dies by itself once it was started: in `Compose` a service runs until
  a command stops it.
* Image pulls inside the setup: a failed pull is a failure of `StartDependencies`.
* Postgres, IPFS and Prometheus volumes in `StackLifecycle`: listed and created as
  *dataexchange* is; `Compose` has them by name.
* Images that contain one another's name: `Upgrade` replaces whole images, since the
  names that are used carry a digest or differ before their end.
* The certificates and the genesis block of Fabric: part of the volume they are in.
* The creation of a token pool, and how a contract is read out of a file.
* Two compose projects on one host: the other stack is a process that takes a port.
* A last output line without a newline, which `readPipe` drops.
* evmconnect's answers always carry a receipt; without one `DeployContract`
  returns neither a result nor an error and its callers would panic, which acts
  like `Kill`.
* Prompts, logging, generated YAML: input, output and wording.

## Plan

1. `Compose`'s volumes by name as a refinement of the kinds of `StackLifecycle`.
2. `ContractDeploy` under `StackLifecycle`, so that `Deploy`'s partial effect is
   shown to be an abstraction of lost answers.
3. `Layout`: `LoadStack` and the migration from the old directory layout.
4. For which numbers of members, token services and options the ports of the Quorum
   nodes, ten apart, meet no other.
