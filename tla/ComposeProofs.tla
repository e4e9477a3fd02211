---------------------------- MODULE ComposeProofs -----------------------------
(***************************************************************************)
(* What holds of a stack whatever docker starts, in whatever order,        *)
(* whatever fails and whoever else listens on the host: the invariants of  *)
(* Compose, for every set of stacks and every choice of base ports.        *)
(*                                                                         *)
(* The files never change, so what is in them comes from ServicesProofs.   *)
(* What moves is kept by three conjuncts: a service that runs has what it  *)
(* depends on (Order), the volumes behind a runtime directory are full     *)
(* unless a setup or a removal is or was at work on them (VolumesAreFull), *)
(* and what was taken since the probe is known (Probes).                   *)
(***************************************************************************)
EXTENDS ServicesProofs, FiniteSetTheorems

Files == WellFormed(stack) /\ file = BuildDockerCompose(stack)

(* docker started it when what it depends on was as it asks, and stops it  *)
(* before that.                                                            *)
Order == \A d \in file : d.name \in running => Satisfied(d)

(* The runtime directory says that the volumes are full, and nothing runs  *)
(* without it.                                                             *)
VolumesAreFull ==
  /\ setUp = "yes" /\ unfinished = "no" => filled = SetupFills(stack)
  /\ running # {} \/ phase \in {"fill", "up"} => setUp = "yes"
  /\ phase \in {"runtime", "volumes", "directory"} => running = {}
  /\ phase \in {"volumes", "directory"} => setUp = "no" \/ unfinished = "yes"

Inv == TypeOK /\ Files /\ Order /\ VolumesAreFull

-----------------------------------------------------------------------------

(* The initial states satisfy the invariant.                               *)
LEMMA InitInv == Init => Inv
<1> SUFFICES ASSUME Init PROVE Inv
  OBVIOUS
<1> USE DEF Init, InitStack
<1>1. Files
  BY ComposeAssumption DEF Files, WellFormed
<1>2. TypeOK
  <2>1. Cardinality(taken) <= 1
    BY FS_EmptySet
  <2> QED
    BY <2>1 DEF TypeOK
<1>3. Order
  BY DEF Order
<1>4. VolumesAreFull
  BY DEF VolumesAreFull
<1> QED
  BY <1>1, <1>2, <1>3, <1>4 DEF Inv

(* What a failed start, and one that is rolled back, do to the invariant.  *)
LEMMA FailInv ==
  ASSUME Inv, Fail, UNCHANGED <<files, volumes, running, healthy, taken, late>>,
         refused' \subseteq UNION {HostPorts(d) : d \in file}
  PROVE  Inv'
<1> USE DEF Inv, Fail, End, RollBack, files, volumes
<1>1. TypeOK'
  BY DEF TypeOK, Names, HostPorts
<1>2. Files'
  BY DEF Files, WellFormed
<1>3. Order' /\ VolumesAreFull'
  BY DEF Order, Satisfied, VolumesAreFull
<1> QED
  BY <1>1, <1>2, <1>3

(* Every step keeps the invariant.                                         *)
LEMMA NextInv == Inv /\ [Next]_vars => Inv'
<1> SUFFICES ASSUME Inv, [Next]_vars PROVE Inv'
  OBVIOUS
<1> USE DEF Inv, files, volumes, ports
<1>1. CASE CheckPorts
  <2>1. TypeOK'
    BY <1>1 DEF TypeOK, CheckPorts, Names, HostPorts
  <2> QED
    BY <1>1, <2>1 DEF CheckPorts, Files, WellFormed, Order, Satisfied, VolumesAreFull
<1>2. CASE StartStack
  <2>1. TypeOK'
    BY <1>2 DEF TypeOK, StartStack, Names, HostPorts
  <2> QED
    BY <1>2, <2>1 DEF StartStack, Files, WellFormed, Order, Satisfied, VolumesAreFull
<1>3. CASE Fill
  <2> DEFINE empty == SetupFills(stack) \ filled
  <2>1. CASE empty # {}
    <3>1. PICK v \in empty : filled' = filled \cup {v}
      BY <1>3, <2>1 DEF Fill
    <3>2. phase' = phase /\ unfinished' = unfinished
      BY <1>3, <2>1 DEF Fill
    <3>3. TypeOK'
      BY <1>3, <3>1, <3>2 DEF TypeOK, Fill, Names, HostPorts
    <3>4. VolumesAreFull'
      BY <1>3, <3>1, <3>2 DEF TypeOK, Fill, VolumesAreFull
    <3> QED
      BY <1>3, <3>2, <3>3, <3>4 DEF Fill, Files, WellFormed, Order, Satisfied
  <2>2. CASE empty = {}
    <3>1. filled' = SetupFills(stack) /\ phase' = "up" /\ unfinished' = "no"
      BY <1>3, <2>2 DEF Fill, TypeOK
    <3>2. TypeOK'
      BY <1>3, <3>1 DEF TypeOK, Fill, Names, HostPorts
    <3> QED
      BY <1>3, <3>1, <3>2 DEF Fill, Files, WellFormed, Order, Satisfied, VolumesAreFull
  <2> QED
    BY <2>1, <2>2
<1>4. CASE SetupFails
  <2>1. refused' \subseteq UNION {HostPorts(d) : d \in file}
    BY <1>4 DEF SetupFails, TypeOK
  <2> QED
    BY <1>4, <2>1, FailInv DEF SetupFails, Fail
<1>5. ASSUME NEW d \in file, StartService(d) PROVE Inv'
  <2> USE <1>5 DEF StartService, Startable
  <2>1. TypeOK'
    BY DEF TypeOK, Names, HostPorts
  <2>2. Files'
    BY DEF Files, WellFormed
  <2>3. ASSUME NEW e \in file, e.name \in running' PROVE Satisfied(e)'
    <3>1. Satisfied(e)
      BY <2>3, NamesAreDistinct DEF Files, Order
    <3> QED
      BY <3>1 DEF Satisfied
  <2>4. Order'
    BY <2>3 DEF Order
  <2>5. VolumesAreFull'
    BY DEF VolumesAreFull
  <2> QED
    BY <2>1, <2>2, <2>4, <2>5
<1>6. ASSUME NEW d \in file, PortRefused(d) PROVE Inv'
  <2>1. refused' \subseteq UNION {HostPorts(e) : e \in file}
    BY <1>6 DEF PortRefused, Unavailable
  <2> QED
    BY <1>6, <2>1, FailInv DEF PortRefused
<1>7. ASSUME NEW d \in file, BecomeHealthy(d) PROVE Inv'
  <2> USE <1>7 DEF BecomeHealthy
  <2>1. TypeOK'
    BY DEF TypeOK, Names, HostPorts
  <2> QED
    BY <2>1 DEF Files, WellFormed, Order, Satisfied, VolumesAreFull
<1>8. ASSUME NEW d \in file, NeverHealthy(d) PROVE Inv'
  <2>1. refused' \subseteq UNION {HostPorts(e) : e \in file}
    BY <1>8 DEF NeverHealthy, TypeOK
  <2> QED
    BY <1>8, <2>1, FailInv DEF NeverHealthy
<1>9. CASE Finish
  <2>1. TypeOK'
    BY <1>9 DEF TypeOK, Finish, End, Names, HostPorts
  <2> QED
    BY <1>9, <2>1 DEF Finish, End, Files, WellFormed, Order, Satisfied, VolumesAreFull
<1>10. ASSUME NEW word \in {"stop", "reset", "remove"}, Begin(word) PROVE Inv'
  <2>1. TypeOK'
    BY <1>10 DEF TypeOK, Begin, Names, HostPorts
  <2> QED
    BY <1>10, <2>1 DEF Begin, Files, WellFormed, Order, Satisfied, VolumesAreFull
<1>11. ASSUME NEW d \in file, StopService(d) PROVE Inv'
  <2> USE <1>11 DEF StopService, Stoppable
  <2>1. TypeOK'
    BY DEF TypeOK, Names, HostPorts
  <2>2. Files'
    BY DEF Files, WellFormed
  <2>3. ASSUME NEW e \in file, e.name \in running' PROVE Satisfied(e)'
    <3>1. Satisfied(e) /\ \A x \in e.depends : x.on # d.name
      BY <2>3 DEF Order
    <3> QED
      BY <3>1 DEF Satisfied
  <2>4. Order'
    BY <2>3 DEF Order
  <2>5. VolumesAreFull'
    BY DEF VolumesAreFull
  <2> QED
    BY <2>1, <2>2, <2>4, <2>5
<1>12. CASE Halted
  <2>1. TypeOK'
    BY <1>12 DEF TypeOK, Halted, End, Names, HostPorts
  <2> QED
    BY <1>12, <2>1 DEF Halted, End, TypeOK, Files, WellFormed, Order, VolumesAreFull
<1>13. CASE RemoveRuntime
  <2>1. TypeOK'
    BY <1>13 DEF TypeOK, RemoveRuntime, Names, HostPorts
  <2> QED
    BY <1>13, <2>1 DEF RemoveRuntime, Files, WellFormed, Order, VolumesAreFull
<1>14. CASE RemoveVolumes
  <2>1. /\ filled' \subseteq filled
        /\ \/ UNCHANGED <<phase, command>>
           \/ End
           \/ phase' = "directory" /\ command' = command
    BY <1>14 DEF RemoveVolumes
  <2>2. TypeOK'
    BY <1>14, <2>1 DEF TypeOK, RemoveVolumes, End, Names, HostPorts
  <2> QED
    BY <1>14, <2>1, <2>2
       DEF RemoveVolumes, End, TypeOK, Files, WellFormed, Order, VolumesAreFull
<1>15. CASE RemoveDirectory
  <2>1. TypeOK'
    BY <1>15 DEF TypeOK, RemoveDirectory, Names, HostPorts
  <2> QED
    BY <1>15, <2>1 DEF RemoveDirectory, Files, WellFormed, Order, VolumesAreFull
<1>16. CASE BreakOff
  <2>1. TypeOK'
    BY <1>16 DEF TypeOK, BreakOff, End, Names, HostPorts
  <2> QED
    BY <1>16, <2>1 DEF BreakOff, End, Files, WellFormed, Order, Satisfied, VolumesAreFull
<1>17. ASSUME NEW port \in UNION {HostPorts(d) : d \in file}, Occupy(port) PROVE Inv'
  <2> USE <1>17 DEF Occupy
  <2>1. Cardinality({port}) = 1
    BY FS_Singleton
  <2>2. TypeOK'
    BY <2>1 DEF TypeOK, Names, HostPorts
  <2> QED
    BY <2>2 DEF Files, WellFormed, Order, Satisfied, VolumesAreFull
<1>18. CASE Release
  <2>1. Cardinality({}) = 0
    BY FS_EmptySet
  <2>2. TypeOK'
    BY <1>18, <2>1 DEF TypeOK, Release, Names, HostPorts
  <2> QED
    BY <1>18, <2>2 DEF Release, Files, WellFormed, Order, Satisfied, VolumesAreFull
<1>19. CASE UNCHANGED vars
  <2>1. TypeOK'
    BY <1>19 DEF TypeOK, vars, Names, HostPorts
  <2> QED
    BY <1>19, <2>1 DEF vars, Files, WellFormed, Order, Satisfied, VolumesAreFull
<1> QED
  BY <1>1, <1>2, <1>3, <1>4, <1>5, <1>6, <1>7, <1>8, <1>9, <1>10, <1>11, <1>12, <1>13,
     <1>14, <1>15, <1>16, <1>17, <1>18, <1>19 DEF Next, ComposeStep

(* The inductive invariant holds in every behaviour.                       *)
THEOREM Invariant == Spec => []Inv
<1> QED
  BY InitInv, NextInv, PTL DEF Spec

-----------------------------------------------------------------------------

(* Every variable keeps its type: nothing runs or is healthy that is not   *)
(* in docker-compose.yml, and no volume holds what the setup did not put   *)
(* there (runFirstTimeSetup, StopStack, ResetStack).                       *)
THEOREM TypeCorrect == Spec => []TypeOK
<1>1. Inv => TypeOK
  BY DEF Inv
<1> QED
  BY <1>1, Invariant, PTL

(* docker accepts the docker-compose.yml of every stack that `ff init`     *)
(* takes: one service to a name, the mounted volumes listed, what a        *)
(* service depends on there and with a health check where one is asked     *)
(* for (CreateDockerCompose, buildDockerCompose and the providers).        *)
THEOREM FileLoads == Spec => []FileIsLoadable
<1>1. Inv => FileIsLoadable
  <2> SUFFICES ASSUME Inv PROVE FileIsLoadable
    OBVIOUS
  <2>1. WellFormed(stack) /\ file = BuildDockerCompose(stack)
    BY DEF Inv, Files
  <2>2. \A d, e \in file : d.name = e.name => d = e
    BY <2>1, NamesAreDistinct
  <2>3. \A d \in file : d.mounts \subseteq Volumes
    BY <2>1, MountsAreListed DEF Volumes
  <2>4. \A d \in file : \A x \in d.depends : CanBeMet(stack, x)
    BY <2>1, DependsCanBeMet
  <2> QED
    BY <2>1, <2>2, <2>3, <2>4 DEF FileIsLoadable, CanBeMet
<1> QED
  BY <1>1, Invariant, PTL

(* A core runs only while every service its configuration names runs, and  *)
(* is healthy where it has a health check: its own member's and, because   *)
(* every core waits for every extra service, the tokens and connectors     *)
(* too (buildDockerCompose).                                               *)
THEOREM CoreStartsLast == Spec => []CoreStartsAfterItsServices
<1>1. Inv => CoreStartsAfterItsServices
  <2> SUFFICES ASSUME Inv,
                      NEW e \in WriteConfig(stack), e.by \in running, e.by[1] = "firefly_core",
                      NEW d \in file, d.name = e.means[1]
               PROVE  /\ d.name \in running
                      /\ d.healthcheck => d.name \in healthy
    BY DEF CoreStartsAfterItsServices
  <2>1. WellFormed(stack) /\ file = BuildDockerCompose(stack)
    BY DEF Inv, Files
  <2>2. PICK c \in file : c.name = e.by
    BY DEF Inv, TypeOK, Names
  <2>3. Condition(d) \in c.depends
    BY <2>1, <2>2, CoreWaitsForItsServices
  <2>4. Satisfied(c)
    BY <2>2 DEF Inv, Order
  <2> QED
    BY <2>3, <2>4 DEF Satisfied, Condition, Healthy, Started
<1> QED
  BY <1>1, Invariant, PTL

(* No service runs on a volume it needs that the first-time setup has not  *)
(* filled, whatever was stopped, reset and rolled back before, to the end  *)
(* or not, while no setup or removal that broke off left its runtime       *)
(* directory behind.                                                       *)
THEOREM VolumesFilled == Spec => []NeededVolumesAreFilled
<1>1. Inv => NeededVolumesAreFilled
  BY NeedsAreSetUp DEF Inv, Files, VolumesAreFull, NeededVolumesAreFilled
<1> QED
  BY <1>1, Invariant, PTL

(* docker never gets stuck in a start: of the services that do not run one *)
(* of the lowest rank waits for services that run, so either it can be     *)
(* started or one of them has a health check to pass.                      *)
THEOREM NeverStuck == Spec => []UpIsNeverStuck
<1>1. Inv => UpIsNeverStuck
  <2> SUFFICES ASSUME Inv, phase = "up", running # Names
               PROVE  \/ \E d \in file : Startable(d)
                      \/ \E d, e \in file :
                           /\ d.healthcheck /\ d.name \in running \ healthy
                           /\ e.name \notin running
                           /\ \E x \in e.depends :
                                x.on = d.name /\ x.condition = "service_healthy"
    BY DEF UpIsNeverStuck
  <2> DEFINE Waiting(r) == {e \in file : e.name \notin running /\ Rank(e.name) = r}
  <2>1. WellFormed(stack) /\ file = BuildDockerCompose(stack)
    BY DEF Inv, Files
  <2>2. PICK e \in file : e.name \notin running
    BY DEF Inv, TypeOK, Names
  <2>3. PICK r \in 0 .. 4 : Waiting(r) # {} /\ \A q \in 0 .. 4 : q < r => Waiting(q) = {}
    <3>1. Rank(e.name) \in 0 .. 4
      BY DEF Rank
    <3>2. \E q \in 0 .. 4 : Waiting(q) # {}
      BY <2>2, <3>1
    <3> HIDE DEF Waiting
    <3> QED
      BY <3>2
  <2>4. PICK d \in file : d.name \notin running /\ Rank(d.name) = r
    BY <2>3
  <2>5. ASSUME NEW x \in d.depends PROVE x.on \in running
    <3>1. Rank(x.on) \in 0 .. 4 /\ Rank(x.on) < r
      BY <2>1, <2>4, WaitsForLowerRanks
    <3>2. PICK c \in file : c.name = x.on
      BY <2>1, <2>4, DependsCanBeMet DEF CanBeMet
    <3> QED
      BY <2>3, <3>1, <3>2
  <2>6. CASE Satisfied(d)
    BY <2>4, <2>6 DEF Startable
  <2>7. CASE ~Satisfied(d)
    <3>1. PICK x \in d.depends : x.condition = "service_healthy" /\ x.on \notin healthy
      BY <2>5, <2>7 DEF Satisfied
    <3>2. PICK c \in file : c.name = x.on /\ c.healthcheck
      BY <2>1, <2>4, <3>1, DependsCanBeMet DEF CanBeMet
    <3> QED
      BY <2>4, <2>5, <3>1, <3>2
  <2> QED
    BY <2>6, <2>7
<1> QED
  BY <1>1, Invariant, PTL

-----------------------------------------------------------------------------
(* The rest needs the room that Roomy gives: the code does not check it.   *)

(* While a start is under way nothing was refused yet, and what others     *)
(* took of the ports they took since the probe.                            *)
Probes ==
  /\ phase \in {"probed", "fill", "up"} =>
       refused = {} /\ taken \cap Probed(stack) \subseteq late
  /\ ProbedPortsAreLost

ProbedInv == Inv /\ Probes

(* Two services of a stack publish no port in common, but for those of the *)
(* Quorum nodes.                                                           *)
LEMMA PortsAreDistinct ==
  ASSUME Files, Roomy(stack), NEW c \in file, NEW d \in file, c.name # d.name
  PROVE  HostPorts(c) \cap HostPorts(d) \subseteq QuorumPorts(stack)
<1> SUFFICES ASSUME NEW p \in c.ports, NEW q \in d.ports, p.host = q.host,
                    p.host \notin QuorumPorts(stack)
             PROVE  FALSE
  BY DEF HostPorts
<1>1. \E b : Gives(stack, b, p.host, <<c.name, p.container>>)
  BY PublishedPorts DEF Files
<1>2. \E b : Gives(stack, b, q.host, <<d.name, q.container>>)
  BY PublishedPorts DEF Files
<1>3. <<c.name, p.container>> = <<d.name, q.container>>
  BY <1>1, <1>2, OneListener DEF Files
<1> QED
  BY <1>3

(* No port was probed or refused yet.                                      *)
LEMMA InitProbes == Init => Probes
BY DEF Init, Probes, ProbedPortsAreLost

(* Every step keeps the probes, for a stack whose blocks of ports do not   *)
(* overlap.                                                                *)
LEMMA NextProbes ==
  ASSUME Inv, Probes, Roomy(stack), [Next]_vars
  PROVE  Probes'
<1> USE DEF Probes, ProbedPortsAreLost, files, volumes, ports
<1>1. ASSUME NEW d \in file, PortRefused(d) PROVE Probes'
  <2> USE <1>1 DEF PortRefused, Startable
  <2>1. phase' \notin {"probed", "fill", "up"}
    BY DEF Fail, End, RollBack
  <2>2. refused' \subseteq taken \cup QuorumPorts(stack)
    <3>1. ASSUME NEW c \in file, c.name \in running
          PROVE  HostPorts(c) \cap HostPorts(d) \subseteq QuorumPorts(stack)
      BY <3>1, PortsAreDistinct DEF Inv
    <3>2. HostPorts(d) \cap Bound \subseteq QuorumPorts(stack)
      BY <3>1 DEF Bound
    <3> QED
      BY <3>2 DEF Unavailable
  <2> QED
    BY <2>1, <2>2
<1>2. CASE CheckPorts
  BY <1>2 DEF CheckPorts
<1>3. CASE StartStack
  BY <1>3 DEF StartStack
<1>4. CASE Fill
  <2>1. phase = "fill" /\ UNCHANGED <<stack, taken, late, refused>>
    BY <1>4 DEF Fill
  <2> QED
    BY <2>1
<1>5. CASE SetupFails
  BY <1>5 DEF SetupFails, RollBack
<1>6. ASSUME NEW d \in file, StartService(d) PROVE Probes'
  BY <1>6 DEF StartService, Startable
<1>7. ASSUME NEW d \in file, BecomeHealthy(d) PROVE Probes'
  BY <1>7 DEF BecomeHealthy
<1>8. ASSUME NEW d \in file, NeverHealthy(d) PROVE Probes'
  BY <1>8 DEF NeverHealthy, Fail, End, RollBack
<1>9. CASE Finish
  BY <1>9 DEF Finish, End
<1>10. ASSUME NEW word \in {"stop", "reset", "remove"}, Begin(word) PROVE Probes'
  BY <1>10 DEF Begin
<1>11. ASSUME NEW d \in file, StopService(d) PROVE Probes'
  BY <1>11 DEF StopService
<1>12. CASE Halted
  BY <1>12 DEF Halted, End
<1>13. CASE RemoveRuntime
  BY <1>13 DEF RemoveRuntime
<1>14. CASE RemoveVolumes
  BY <1>14 DEF RemoveVolumes, End
<1>15. CASE RemoveDirectory
  BY <1>15 DEF RemoveDirectory
<1>16. CASE BreakOff
  BY <1>16 DEF BreakOff, End
<1>17. ASSUME NEW port \in UNION {HostPorts(d) : d \in file}, Occupy(port) PROVE Probes'
  BY <1>17 DEF Occupy
<1>18. CASE Release
  BY <1>18 DEF Release
<1>19. CASE UNCHANGED vars
  BY <1>19 DEF vars
<1> QED
  BY <1>1, <1>2, <1>3, <1>4, <1>5, <1>6, <1>7, <1>8, <1>9, <1>10, <1>11, <1>12, <1>13,
     <1>14, <1>15, <1>16, <1>17, <1>18, <1>19 DEF Next, ComposeStep

(* The stack that is started is one of those the assumption is about.      *)
LEMMA RoomOfTheStack ==
  ASSUME \A s \in Options : Validated(s) => Roomy(s), Inv
  PROVE  Roomy(stack)
BY DEF Inv, TypeOK, Files, WellFormed

(* When the blocks of ports of the stacks do not overlap, a port that      *)
(* docker could not publish although it was probed was taken by another    *)
(* process since the probe, or is that of a Quorum node after the first    *)
(* (createMember, checkPortsAvailable).                                    *)
THEOREM PortsLost ==
  ASSUME \A s \in Options : Validated(s) => Roomy(s)
  PROVE  Spec => []ProbedPortsAreLost
<1>1. Init => ProbedInv
  BY InitInv, InitProbes DEF ProbedInv
<1>2. ProbedInv /\ [Next]_vars => ProbedInv'
  BY NextInv, NextProbes, RoomOfTheStack DEF ProbedInv
<1>3. ProbedInv => ProbedPortsAreLost
  BY DEF ProbedInv, Probes
<1> QED
  BY <1>1, <1>2, <1>3, PTL DEF Spec

(* When the blocks of ports of the stacks do not overlap, every address in *)
(* a configuration file is answered by the service its author meant and by *)
(* no other (core/config.go, GenerateConfig, the definitions of the        *)
(* providers).                                                             *)
THEOREM AddressesReach ==
  ASSUME \A s \in Options : Validated(s) => Roomy(s)
  PROVE  Spec => []AddressesReachTheirService
<1>1. Inv => AddressesReachTheirService
  <2> SUFFICES ASSUME Inv, NEW e \in WriteConfig(stack) PROVE Reaches(stack, e)
    BY DEF AddressesReachTheirService, Reaches, Inv, Files
  <2> QED
    BY ConfigurationReaches, RoomOfTheStack DEF Inv, Files
<1> QED
  BY <1>1, Invariant, PTL
=============================================================================
