------------------------------- MODULE Compose -------------------------------
(***************************************************************************)
(* What docker makes of the files of a stack: `ff start` probes the ports, *)
(* makes the runtime directory and fills the volumes the first time, and   *)
(* hands docker-compose.yml to `docker compose up -d`, which starts every  *)
(* service as soon as what it depends on is as it asks.  `ff stop`, `ff    *)
(* reset` and `ff remove` take this back step by step, a failed setup is   *)
(* rolled back or not, and any command can break off anywhere.  Other      *)
(* processes of the host take and release ports meanwhile.  What the       *)
(* commands do around this (the contracts, the state files) is in          *)
(* StackLifecycle.                                                         *)
(***************************************************************************)
EXTENDS Endpoints

CONSTANTS
  Options,        \* the stacks asked of `ff init`
  StartedOptions, \* bound: those of them that are started as well
  CutOptions,     \* bound: those of these whose commands break off
  Contested       \* bound: the host ports that other processes listen on

(* What can be asked for: a number of members or of token providers, and a *)
(* word or a yes for everything else.                                      *)
InitOptions ==
  [members : Nat, external : Nat,
   node : {"geth", "besu", "quorum", "remote-rpc", "tezos", "fabric", "remote-fabric"},
   connector : {"ethconnect", "evmconnect", "tezosconnect", "fabconnect"},
   ptm : {"none", "tessera"}, postgres : BOOLEAN, sandbox : BOOLEAN,
   prometheus : BOOLEAN, tokens : Nat]

ASSUME ComposeAssumption == Options \subseteq InitOptions

VARIABLES
  stack,      \* stack.json
  file,       \* docker-compose.yml: a set of services
  phase,      \* what the command under way does next; idle between commands
  command,    \* that command: a first start is "first"
  setUp,      \* "yes" while there is a runtime directory (HasRunBefore)
  running,    \* the names of the services that run
  healthy,    \* those whose health check has passed
  filled,     \* the volumes the first-time setup has put something in
  unfinished, \* "yes" while the runtime directory is there and a setup has
              \* not filled all volumes, or a removal has come to them
  taken,      \* the host ports other processes listen on
  late,       \* those taken since the ports were probed
  refused     \* the ports docker could not publish in the last start

files   == <<stack, file>>
volumes == <<setUp, filled, unfinished>>
ports   == <<taken, late, refused>>
vars    == <<files, phase, command, volumes, running, healthy, ports>>

Names == {d.name : d \in file}
HostPorts(d) == {p.host : p \in d.ports}
Bound == UNION {HostPorts(d) : d \in {e \in file : e.name \in running}}
Volumes == UNION {d.listed : d \in file}

-----------------------------------------------------------------------------
(* The validations of initCommon and of the sub-commands of init: the      *)
(* connector goes with the blockchain, the private transaction manager     *)
(* with Quorum and ethconnect, and the tokens neither with Fabric nor with *)
(* Tezos.  One core at least stays in docker.                              *)
Validated(s) ==
  /\ s.members > 0
  /\ s.external < s.members
  /\ CASE s.node \in {"geth", "besu", "quorum", "remote-rpc"} ->
            s.connector \in {"ethconnect", "evmconnect"}
       [] s.node = "tezos" -> s.connector = "tezosconnect" /\ s.tokens = 0
       [] s.node \in {"fabric", "remote-fabric"} ->
            s.connector = "fabconnect" /\ s.tokens = 0
  /\ s.ptm # "none" => s.node = "quorum" /\ s.connector = "ethconnect"

(* The stack was initialised, and never started.                           *)
InitStack ==
  /\ stack \in {s \in Options : Validated(s)}
  /\ file = BuildDockerCompose(stack)

Init ==
  /\ InitStack
  /\ phase = "idle" /\ command = "none"
  /\ setUp = "no"
  /\ running = {}
  /\ healthy = {}
  /\ filled = {} /\ unfinished = "no"
  /\ taken = {}
  /\ late = {}
  /\ refused = {}

-----------------------------------------------------------------------------
(* What the first-time setup puts into the volumes.                        *)

SignerSetup == {<<"ethsigner">>, <<"ethsigner_config">>}

(* FirstTimeSetup of the connectors, and the copy of their configuration.  *)
ConnectorSetup(s) ==
  CASE s.connector = "ethconnect" ->
         UNION {{<<"ethconnect_data", i>>, <<"ethconnect_config", i>>} : i \in Index(s)}
    [] s.connector = "evmconnect" ->
         UNION {{<<"evmconnect_data", i>>, <<"evmconnect_config", i>>} : i \in Index(s)}
    [] s.connector = "tezosconnect" -> {<<"tezosconnect_config", i>> : i \in Index(s)}
    [] s.connector = "fabconnect" -> {}

QuorumSetup(s) ==
  {<<"quorum", i>> : i \in Index(s)}
  \cup (IF s.ptm = "tessera" THEN {<<"tessera", i>> : i \in Index(s)} ELSE {})

FirstTimeSetup(s) ==
  ConnectorSetup(s) \cup
  CASE s.node = "geth"   -> {<<"geth">>}
    [] s.node = "besu"   -> {<<"besu">>} \cup SignerSetup
    [] s.node = "quorum" -> QuorumSetup(s)
    [] s.node = "remote-rpc" -> SignerSetup
    [] s.node = "tezos"  -> {<<"tezossigner">>, <<"tezossigner_config">>}
    [] s.node = "fabric" -> {<<"firefly_fabric">>}
    [] s.node = "remote-fabric" -> {}

(* runFirstTimeSetup, up to the start of the services.                     *)
SetupFills(s) ==
  FirstTimeSetup(s)
  \cup (IF s.prometheus THEN {<<"prometheus_config">>} ELSE {})
  \cup {<<"dataexchange", i>> : i \in Index(s)}

-----------------------------------------------------------------------------
(* ff start.                                                               *)

(* checkPortsAvailable: nobody answers at the ports asked for.  A start of *)
(* a stack that runs finds its own services there.                         *)
CheckPorts ==
  /\ phase = "idle"
  /\ stack \in StartedOptions
  /\ Probed(stack) \cap (taken \cup Bound) = {}
  /\ phase' = "probed"
  /\ late' = {}
  /\ refused' = {}
  /\ UNCHANGED <<files, command, volumes, running, healthy, taken>>

(* A stack with a runtime directory has its services started; any other is *)
(* set up, which begins with that directory (copy.Copy).                   *)
StartStack ==
  /\ phase = "probed"
  /\ IF setUp = "yes"
     THEN phase' = "up" /\ command' = "start" /\ UNCHANGED volumes
     ELSE /\ phase' = "fill" /\ command' = "first"
          /\ setUp' = "yes" /\ unfinished' = "yes"
          /\ UNCHANGED filled
  /\ UNCHANGED <<files, running, healthy, ports>>

(* One volume after the other; in which order does not matter here.        *)
Fill ==
  /\ phase = "fill"
  /\ LET empty == SetupFills(stack) \ filled IN
     IF empty # {}
     THEN /\ filled' = filled \cup {CHOOSE v \in empty : TRUE}
          /\ UNCHANGED <<phase, unfinished>>
     ELSE phase' = "up" /\ unfinished' = "no" /\ UNCHANGED filled
  /\ UNCHANGED <<files, command, setUp, running, healthy, ports>>

End == phase' = "idle" /\ command' = "none"

RollBack == command = "first" /\ phase' = "halt" /\ command' = "reset"

(* A failed first start is rolled back, which is a ResetStack, unless      *)
(* --no-rollback was given; another start leaves what runs running.        *)
Fail == End \/ RollBack

(* With --no-rollback it breaks off (below).                               *)
SetupFails ==
  /\ phase = "fill"
  /\ RollBack
  /\ UNCHANGED <<files, volumes, running, healthy, ports>>

-----------------------------------------------------------------------------
(* docker compose up -d.                                                   *)

Satisfied(d) ==
  \A x \in d.depends : /\ x.on \in running
                       /\ x.condition = "service_healthy" => x.on \in healthy

Startable(d) == phase = "up" /\ d.name \notin running /\ Satisfied(d)

Unavailable(d) == HostPorts(d) \cap (taken \cup Bound)

StartService(d) ==
  /\ Startable(d)
  /\ Unavailable(d) = {}
  /\ running' = running \cup {d.name}
  /\ UNCHANGED <<files, phase, command, volumes, healthy, ports>>

PortRefused(d) ==
  /\ Startable(d)
  /\ Unavailable(d) # {}
  /\ refused' = Unavailable(d)
  /\ Fail
  /\ UNCHANGED <<files, volumes, running, healthy, taken, late>>

(* The health check is known before anyone is waiting for it, or after.    *)
BecomeHealthy(d) ==
  /\ phase = "up"
  /\ d.healthcheck
  /\ d.name \in running \ healthy
  /\ healthy' = healthy \cup {d.name}
  /\ UNCHANGED <<files, phase, command, volumes, running, ports>>

(* A service someone waits for never gets there: up fails.                 *)
NeverHealthy(d) ==
  /\ phase = "up"
  /\ d.name \in running \ healthy
  /\ \E e \in file : e.name \notin running /\ Healthy(d.name) \in e.depends
  /\ Fail
  /\ UNCHANGED <<files, volumes, running, healthy, ports>>

Finish ==
  /\ phase = "up"
  /\ running = Names
  /\ End
  /\ late' = {}
  /\ UNCHANGED <<files, volumes, running, healthy, taken, refused>>

-----------------------------------------------------------------------------
(* ff stop, ff reset and ff remove.                                        *)

Begin(word) ==
  /\ phase = "idle"
  /\ stack \in StartedOptions
  /\ phase' = "halt" /\ command' = word
  /\ UNCHANGED <<files, volumes, running, healthy, ports>>

(* docker compose stops a service after those that depend on it.           *)
Stoppable(d) ==
  /\ d.name \in running
  /\ \A e \in file : e.name \in running => \A x \in e.depends : x.on # d.name

\* MUTANT: what was healthy before the stop passes for healthy after it.
StopServiceKeepingHealth(d) ==
  /\ phase = "halt"
  /\ Stoppable(d)
  /\ running' = running \ {d.name}
  /\ UNCHANGED <<files, phase, command, volumes, healthy, ports>>

StopService(d) ==
  /\ phase = "halt"
  /\ Stoppable(d)
  /\ running' = running \ {d.name}
  /\ healthy' = healthy \ {d.name}
  /\ UNCHANGED <<files, phase, command, volumes, ports>>

(* A reset goes on with the runtime directory, a removal with the volumes. *)
Halted ==
  /\ phase = "halt"
  /\ running = {}
  /\ \/ command = "stop" /\ End /\ UNCHANGED unfinished
     \/ /\ command = "reset" /\ phase' = "runtime"
        /\ UNCHANGED <<command, unfinished>>
     \/ /\ command = "remove" /\ phase' = "volumes"
        /\ unfinished' = setUp
        /\ UNCHANGED command
  /\ UNCHANGED <<files, setUp, filled, running, healthy, ports>>

\* MUTANT: the runtime directory stays, and with it HasRunBefore.
RemoveRuntimeInVain ==
  /\ phase = "runtime"
  /\ phase' = "volumes"
  /\ unfinished' = "no"
  /\ UNCHANGED <<files, command, setUp, filled, running, healthy, ports>>

RemoveRuntime ==
  /\ phase = "runtime"
  /\ phase' = "volumes"
  /\ setUp' = "no" /\ unfinished' = "no"
  /\ UNCHANGED <<files, command, filled, running, healthy, ports>>

(* removeVolumes: the listed ones, one after the other; then a reset has   *)
(* ended, and a removal has the directory of the stack left.               *)
RemoveVolumes ==
  /\ phase = "volumes"
  /\ LET left == filled \cap Volumes IN
     IF left # {}
     THEN filled' = filled \ {CHOOSE v \in left : TRUE} /\ UNCHANGED <<phase, command>>
     ELSE /\ IF command = "reset" THEN End
             ELSE phase' = "directory" /\ UNCHANGED command
          /\ UNCHANGED filled
  /\ UNCHANGED <<files, setUp, unfinished, running, healthy, ports>>

(* The stack is no more.                                                   *)
RemoveDirectory ==
  /\ phase = "directory"
  /\ phase' = "removed"
  /\ UNCHANGED <<files, command, volumes, running, healthy, ports>>

(* The command fails at its next step, or is killed.                       *)
BreakOff ==
  /\ phase \notin {"idle", "removed"}
  /\ stack \in CutOptions
  /\ End
  /\ UNCHANGED <<files, volumes, running, healthy, ports>>

-----------------------------------------------------------------------------
(* The other processes of the host.                                        *)

(* Another process listens on a port of the stack's: one at a time, and in *)
(* a start at most one (both are bounds, and so are the phases).  It keeps *)
(* it until the command has ended (a bound as well).                       *)
Occupy(port) ==
  /\ stack \in StartedOptions
  /\ port \in Contested
  /\ phase \in {"idle", "probed", "up"}
  /\ phase = "idle" => running = {}
  /\ taken = {} /\ late = {}
  /\ port \notin Bound
  /\ taken' = {port}
  /\ late' = IF phase = "idle" THEN late ELSE late \cup {port}
  /\ UNCHANGED <<files, phase, command, volumes, running, healthy, refused>>

Release ==
  /\ phase = "idle"
  /\ taken # {}
  /\ taken' = {}
  /\ UNCHANGED <<files, phase, command, volumes, running, healthy, late, refused>>

ComposeStep ==
  \/ \E d \in file : StartService(d)
  \/ \E d \in file : PortRefused(d)
  \/ \E d \in file : BecomeHealthy(d)
  \/ \E d \in file : NeverHealthy(d)
  \/ Finish

Next ==
  \/ CheckPorts
  \/ StartStack
  \/ Fill
  \/ SetupFails
  \/ ComposeStep
  \/ \E word \in {"stop", "reset", "remove"} : Begin(word)
  \/ \E d \in file : StopService(d)
  \/ Halted
  \/ RemoveRuntime
  \/ RemoveVolumes
  \/ RemoveDirectory
  \/ BreakOff
  \/ \E port \in UNION {HostPorts(d) : d \in file} : Occupy(port)
  \/ Release

(* docker goes on until up has ended.                                      *)
Fairness == WF_vars(ComposeStep)

Spec == Init /\ [][Next]_vars /\ Fairness

-----------------------------------------------------------------------------
TypeOK ==
  /\ stack \in Options
  /\ phase \in {"idle", "probed", "fill", "up", "halt", "runtime", "volumes",
               "directory", "removed"}
  /\ command \in {"none", "start", "first", "stop", "reset", "remove"}
  /\ setUp \in {"yes", "no"}
  /\ unfinished \in {"yes", "no"}
  /\ healthy \subseteq running
  /\ running \subseteq Names
  /\ filled \subseteq SetupFills(stack)
  /\ Cardinality(taken) <= 1
  /\ late \subseteq UNION {HostPorts(d) : d \in file}
  /\ refused \subseteq UNION {HostPorts(d) : d \in file}

(* docker accepts the file: no two services have one name, a volume that   *)
(* is mounted is declared, what a service depends on is in the file, and   *)
(* what must be healthy has a health check (docker_config.go, and the      *)
(* definitions of the providers that buildDockerCompose puts together).    *)
FileIsLoadable ==
  /\ \A d, e \in file : d.name = e.name => d = e
  /\ \A d \in file :
       /\ d.mounts \subseteq Volumes
       /\ \A x \in d.depends :
            \E e \in file : /\ e.name = x.on
                            /\ x.condition = "service_healthy" => e.healthcheck

(* Every address that a configuration file of the stack names is answered  *)
(* by the service its author meant and by no other, and the port left to   *)
(* an external core by nobody (core/config.go:160-190, GenerateConfig).    *)
(* Left out are the addresses that the sandbox and Prometheus have of an   *)
(* external core, which docker knows nothing of, and the host ports that   *)
(* are a Quorum node's as well.                                            *)
AddressesReachTheirService ==
  \A e \in WriteConfig(stack) :
    \/ OfAnExternalCore(stack, e)
    \/ OnAQuorumPort(stack, e)
    \/ Reached(file, e.at) = {e.means} \ {Outside}

(* A core never runs before the services its configuration names, and not  *)
(* before those that have a health check passed it (buildDockerCompose     *)
(* makes every core depend on every extra service).                        *)
CoreStartsAfterItsServices ==
  \A e \in WriteConfig(stack) :
    e.by \in running /\ e.by[1] = "firefly_core" =>
      \A d \in file :
        d.name = e.means[1] => /\ d.name \in running
                               /\ d.healthcheck => d.name \in healthy

(* No service runs on a volume that its command cannot do without and that *)
(* the first-time setup has not filled, whatever was stopped, reset and    *)
(* rolled back before, to the end or not: only a setup that broke off      *)
(* before it had filled them all, and was not rolled back, and a removal   *)
(* that broke off, leave a runtime directory that says otherwise, until a  *)
(* reset has removed it (runFirstTimeSetup, ResetStack and RemoveStack).   *)
NeededVolumesAreFilled ==
  unfinished = "no" => \A d \in file : d.name \in running => d.needs \subseteq filled

(* A port that docker could not publish although it was probed was taken   *)
(* by another process since the probe: no two services of a stack publish  *)
(* one port, but for a Quorum node after the first and another service     *)
(* (createMember, checkPortsAvailable, quorum_provider.go:292).            *)
ProbedPortsAreLost ==
  refused \cap Probed(stack) \subseteq late \cup QuorumPorts(stack)

(* Until everything runs, some service can be started, or one that is      *)
(* waited for has a health check to pass: no two wait for each other, over *)
(* however many others (buildDockerCompose and the providers' depends_on). *)
UpIsNeverStuck ==
  phase = "up" /\ running # Names =>
    \/ \E d \in file : Startable(d)
    \/ \E d, e \in file :
         /\ d.healthcheck /\ d.name \in running \ healthy
         /\ e.name \notin running
         /\ \E x \in e.depends : x.on = d.name /\ x.condition = "service_healthy"

(* A start ends: docker finds the next step until there is none.           *)
UpEnds == phase = "up" ~> phase # "up"

=============================================================================
