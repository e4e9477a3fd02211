------------------------ MODULE StackLifecycleProofs ------------------------
(***************************************************************************)
(* Proofs about StackLifecycle, for every set of members, every choice of  *)
(* contracts and every combination of the stack's options.                 *)
(***************************************************************************)
EXTENDS StackLifecycle, TLAPS

StartSteps    == SetupSteps \cup {"copy_init", "resume", "final_wait"}
RunningSteps  == {"wait_for_cores", "register", "init_tokens", "record_state"}
EnabledSteps  == RunningSteps \cup {"stop_for_restart", "restart"}
PatchedSteps  == EnabledSteps \cup {"enable_cores"}
FireFlySteps  == PatchedSteps \cup {"patch_configs"}
TokenSteps    == FireFlySteps \cup {"deploy_firefly"}
UpSteps       == TokenSteps \cup {"deploy_tokens"}

(* Which command a step belongs to. *)
StepOfCommand ==
  /\ cmd = "none" <=> pc = "idle"
  /\ pc \in StartSteps => cmd \in StartCommands
  /\ pc \in {"init_files", "init_config", "init_cleanup"} => cmd = "init"
  /\ pc = "stop" => cmd \in {"stop", "reset", "remove"}
  /\ pc = "down" => cmd \in StartCommands \cup {"reset", "remove"}
  /\ pc = "remove_runtime" => cmd \in StartCommands \cup {"reset"}
  /\ pc = "remove_volumes" => cmd \in StartCommands \cup {"reset", "remove", "init"}
  /\ pc = "remove_dir" => cmd \in {"remove", "init"}

(* What of the directory a step can rely on. *)
DirectoryOfStep ==
  /\ "runtime" \notin files => saved = {}
  /\ cmd \in StartCommands \cup {"reset"} => {"stack.json", "init"} \subseteq files
  /\ pc = "copy_init" => "runtime" \notin files
  /\ pc \in SetupSteps => "runtime" \in files
  /\ pc \in {"init_files", "init_config"} => "stack.json" \notin files
  /\ pc = "init_config" => "init" \in files
  /\ pc \in {"init_config", "remove_runtime"} => compose # "none"
  /\ pc \in {"remove_runtime", "remove_volumes"} => deps = "down" /\ cores = {}
  /\ pc = "remove_volumes" /\ cmd \in StartCommands \cup {"reset"} =>
       "runtime" \notin files /\ compose # "none"
  /\ pc = "remove_dir" => removal = "unfinished"

(* How far a first-time setup has got. *)
ProgressOfSetup ==
  /\ pc \in SetupSteps => mem = (IF pc \in TokenSteps THEN Tokens ELSE {})
                             \cup (IF pc \in FireFlySteps THEN FireFlyToDeploy ELSE {})
  /\ pc \in SetupSteps => mem \subseteq chain
  /\ pc \in SetupSteps => saved = {}
  /\ pc \in {"register", "init_tokens", "record_state"} => ~SetupReturnsEarly
  /\ pc = "copy_init" => mem = {}
  /\ pc = "idle" => mem = {}
  /\ pc \in UpSteps => Listed \subseteq volumes
  /\ pc \in PatchedSteps => patched = Members
  /\ pc \in EnabledSteps => compose = "enabled"
  /\ pc \in RunningSteps => deps = "up" /\ cores = Internal
  /\ pc = "final_wait" /\ setup = "finished" => deps = "up" /\ cores = Internal
  /\ setup = "finished" => pc \notin SetupSteps \cup {"copy_init", "remove_dir"}

(* The inductive invariant. *)
IInv ==
  /\ TypeOK
  /\ StepOfCommand
  /\ DirectoryOfStep
  /\ ProgressOfSetup
  /\ FinishedSetupIsComplete
  /\ TornDownIsNew
  /\ NoDanglingRecord
  /\ ExistingIsRemovable
  /\ StartedIsRunning

-----------------------------------------------------------------------------
(* Type correctness.                                                       *)

(* Upping the containers changes the types of nothing.                     *)
LEMMA UpTyped ==
  ASSUME TypeOK, UpSucceeds \/ UpFails
  PROVE  /\ deps' \in {"up", "down"} /\ cores' \subseteq Internal
         /\ volumes' \subseteq Volumes
<1>1. deps' \in {"up", "down"}
  BY DEF TypeOK, UpSucceeds, UpFails
<1>2. cores' \subseteq Internal
  BY DEF TypeOK, UpSucceeds, UpFails, Between, RunnableCores
<1>3. volumes' \subseteq Volumes
  BY DEF TypeOK, UpSucceeds, UpFails, Between, Listed, Volumes
<1> QED
  BY <1>1, <1>2, <1>3

(* Every step keeps the types.                                             *)
LEMMA StepTyped == ASSUME TypeOK, [Next]_vars PROVE TypeOK'
<1>1. CASE UserCommand
  BY <1>1, LifecycleAssumption
     DEF TypeOK, UserCommand, InitCommand, StartCommand, StopCommand,
         ResetCommand, RemoveCommand, OnExisting, Begin, StartCommands, Commands, Results,
         Steps, SetupSteps, diskVars, dockerVars, ghostVars
<1>2. CASE Step
  <2>1. CASE InitFiles
    BY <2>1 DEF TypeOK, InitFiles, Between, Files, Goto, Steps, dockerVars
  <2>2. CASE InitConfig
    <3>1. files' \subseteq Files
      BY <2>2 DEF TypeOK, InitConfig, Between, Files
    <3> QED
      BY <2>2, <3>1 DEF TypeOK, InitConfig, Goto, Exit, Commands, Results, Steps,
                     SetupSteps, dockerVars, ghostVars
  <2>3. CASE InitCleanup
    BY <2>3 DEF TypeOK, InitCleanup, ComposeHalt, HaltSucceeds, HaltFails,
         Goto, Exit, Commands, Results, Steps, SetupSteps, diskVars,
         dockerVars, ghostVars
  <2>4. CASE CopyInit
    <3>1. files' \subseteq Files
      BY <2>4 DEF TypeOK, CopyInit, Between, Files
    <3> QED
      BY <2>4, <3>1 DEF TypeOK, CopyInit, FailSetup, Goto, Exit, Commands,
                     Results, Steps, SetupSteps, dockerVars, ghostVars
  <2>5. CASE DisableCores
    BY <2>5 DEF TypeOK, DisableCores, FailSetup, Goto, Exit, Commands,
         Results, Steps, SetupSteps, dockerVars, ghostVars
  <2>6. CASE SetupVolumes
    <3>1. volumes' \subseteq Volumes
      BY <2>6 DEF TypeOK, SetupVolumes, Between, Volumes
    <3> QED
      BY <2>6, <3>1 DEF TypeOK, SetupVolumes, FailSetup, Goto, Exit, Commands,
                     Results, Steps, SetupSteps, diskVars, ghostVars
  <2>7. CASE StartDependencies
    BY <2>7, UpTyped DEF TypeOK, UpSucceeds, UpFails, StartDependencies,
         FailSetup, Goto, Exit, Commands, Results, Steps, SetupSteps,
         diskVars, ghostVars
  <2>8. CASE DeployTokens
    BY <2>8 DEF TypeOK, DeployTokens, Contracts, Deploy,
         Between, FailSetup, Goto, Exit, Commands, Results, Steps,
         SetupSteps, diskVars, ghostVars
  <2>9. CASE DeployFireFly
    BY <2>9 DEF TypeOK, DeployFireFly, FireFlyToDeploy, Contracts, Deploy,
         Between, FailSetup, Goto, Exit, Commands, Results, Steps,
         SetupSteps, diskVars, ghostVars
  <2>10. CASE PatchConfigs
    <3>1. volumes' \subseteq Volumes
      BY <2>10 DEF TypeOK, PatchConfigs, CoreDataVolumes, Between, Volumes
    <3>2. patched' \subseteq Members
      BY <2>10 DEF TypeOK, PatchConfigs, Between
    <3> QED
      BY <2>10, <3>1, <3>2
         DEF TypeOK, PatchConfigs, FailSetup, Goto, Exit, Commands, Results,
             Steps, SetupSteps, diskVars, ghostVars
  <2>11. CASE EnableCores
    BY <2>11 DEF TypeOK, EnableCores, FailSetup, Goto, Exit, Commands,
         Results, Steps, SetupSteps, dockerVars, ghostVars
  <2>12. CASE StopForRestart
    BY <2>12 DEF TypeOK, StopForRestart, HaltSucceeds, HaltFails,
         FailSetup, Goto, Exit, Commands, Results, Steps, SetupSteps,
         diskVars, ghostVars
  <2>13. CASE Restart
    BY <2>13, UpTyped DEF TypeOK, UpSucceeds, UpFails, Restart, FailSetup,
         Goto, Exit, Commands, Results, Steps, SetupSteps, diskVars,
         ghostVars
  <2>14. CASE WaitForCores
    BY <2>14 DEF TypeOK, WaitForCores, FailSetup, Goto, Exit, Commands,
         Results, Steps, SetupSteps, diskVars, dockerVars
  <2>15. CASE InitTokens
    BY <2>15 DEF TypeOK, InitTokens, FailSetup, Goto, Exit, Commands,
         Results, Steps, SetupSteps, diskVars, dockerVars, ghostVars
  <2>16. CASE RecordState
    BY <2>16 DEF TypeOK, RecordState, FailSetup, Goto, Exit, Commands,
         Results, Steps, SetupSteps, dockerVars
  <2>17. CASE Resume
    BY <2>17, UpTyped DEF TypeOK, UpSucceeds, UpFails, Resume, Goto, Exit,
         Commands, Results, Steps, SetupSteps, diskVars, ghostVars
  <2>18. CASE FinalWait
    BY <2>18 DEF TypeOK, FinalWait, Goto, Exit, Commands, Results, Steps,
         SetupSteps, diskVars, dockerVars, ghostVars
  <2>19. CASE StopStack
    BY <2>19 DEF TypeOK, StopStack, ComposeHalt, HaltSucceeds, HaltFails,
         Goto, Exit, Commands, Results, Steps, SetupSteps, diskVars,
         dockerVars, ghostVars
  <2>20. CASE Down
    BY <2>20 DEF TypeOK, Down, ComposeHalt, HaltSucceeds, HaltFails, Goto,
         Exit, Commands, Results, Steps, SetupSteps, diskVars, dockerVars,
         ghostVars
  <2>21. CASE RemoveRuntime
    BY <2>21 DEF TypeOK, RemoveRuntime, Goto, Exit, Commands, Results,
         Steps, SetupSteps, dockerVars
  <2>22. CASE RemoveVolumes
    BY <2>22 DEF TypeOK, RemoveVolumes, Between, Goto, Exit, Commands,
         Results, Steps, SetupSteps, StartCommands, diskVars
  <2>23. CASE RemoveDir
    BY <2>23 DEF TypeOK, RemoveDir, Goto, Exit, Commands, Results, Steps,
         SetupSteps, dockerVars
  <2>24. ASSUME NEW m \in Members, Register(m) PROVE TypeOK'
    BY <2>24 DEF TypeOK, Register, Between, FailSetup, Goto, Exit, Commands,
         Results, Steps, SetupSteps, diskVars, ghostVars
  <2> QED
    BY <1>2, <2>1, <2>2, <2>3, <2>4, <2>5, <2>6, <2>7, <2>8, <2>9, <2>10,
       <2>11, <2>12, <2>13, <2>14, <2>15, <2>16, <2>17, <2>18, <2>19, <2>20,
       <2>21, <2>22, <2>23, <2>24 DEF Step
<1>3. CASE Kill
  BY <1>3 DEF TypeOK, Kill, Exit, Commands, Results, Steps, diskVars,
         dockerVars, ghostVars
<1>4. CASE UNCHANGED vars
  BY <1>4 DEF TypeOK, vars, diskVars, dockerVars, processVars, ghostVars
<1> QED
  BY <1>1, <1>2, <1>3, <1>4 DEF Next

(* Every variable keeps its type, whatever the constants.                  *)
THEOREM TypeCorrect == Spec => []TypeOK
<1>1. Init => TypeOK
  BY LifecycleAssumption DEF Init, TypeOK, Files, Volumes, Contracts, Steps, SetupSteps,
         Commands, Results, Internal
<1> QED
  BY <1>1, StepTyped, PTL DEF Spec

-----------------------------------------------------------------------------
(* The inductive invariant.                                                *)

(* The initial states satisfy the inductive invariant.                     *)
LEMMA InitInductive == Init => IInv
BY LifecycleAssumption
DEF Init, IInv, TypeOK, StepOfCommand, DirectoryOfStep, ProgressOfSetup,
    FinishedSetupIsComplete, TornDownIsNew, NoDanglingRecord,
    ExistingIsRemovable, StartedIsRunning, Started, AtRest, StartCommands,
    Steps, SetupSteps, Commands, Results, StartSteps, RunningSteps,
    EnabledSteps, PatchedSteps, FireFlySteps, TokenSteps, UpSteps

(* What is computed from the options changes with them only.               *)
LEMMA OptionsKept ==
  ASSUME UNCHANGED options
  PROVE  UNCHANGED <<Multiparty, ContractAddressGiven, SetupReturnsEarly,
                     FireFlyToDeploy, Deployed, Listed>>
BY DEF Multiparty, ContractAddressGiven, SetupReturnsEarly, FireFlyToDeploy,
       Deployed, Listed

(* The types need their own argument (TypeCorrect); with them at hand, one  *)
(* step per action shows that the rest of the invariant is kept.           *)
LEMMA StepInductive == ASSUME IInv, [Next]_vars PROVE IInv'
<1> USE LifecycleAssumption
    DEF IInv, TypeOK, StepOfCommand, DirectoryOfStep, ProgressOfSetup,
        FinishedSetupIsComplete, TornDownIsNew, NoDanglingRecord,
        ExistingIsRemovable, StartedIsRunning, Started, AtRest,
        StartCommands, SetupSteps, StartSteps, RunningSteps, EnabledSteps,
        PatchedSteps, FireFlySteps, TokenSteps, UpSteps, SetupReturnsEarly,
        Deployed, Files, Commands, diskVars, dockerVars, ghostVars
<1>0. TypeOK'
  BY StepTyped DEF IInv
<1>1. CASE InitCommand
  BY <1>0, <1>1, OptionsKept DEF InitCommand, Begin
<1>2. CASE StartCommand
  BY <1>0, <1>2, OptionsKept DEF StartCommand, Begin
<1>3. CASE StopCommand
  BY <1>0, <1>3, OptionsKept DEF StopCommand, OnExisting, Begin
<1>4. CASE ResetCommand
  BY <1>0, <1>4, OptionsKept DEF ResetCommand, OnExisting, Begin
<1>5. CASE RemoveCommand
  BY <1>0, <1>5, OptionsKept DEF RemoveCommand, OnExisting, Begin
<1>6. CASE InitFiles
  BY <1>0, <1>6, OptionsKept DEF InitFiles, Between, Goto
<1>7. CASE InitConfig
  BY <1>0, <1>7, OptionsKept DEF InitConfig, Between, Goto, Exit
<1>8. CASE InitCleanup
  BY <1>0, <1>8, OptionsKept DEF InitCleanup, ComposeHalt, HaltSucceeds, HaltFails, Goto, Exit
<1>9. CASE CopyInit
  BY <1>0, <1>9, OptionsKept DEF CopyInit, Between, FailSetup, Goto, Exit
<1>10. CASE DisableCores
  BY <1>0, <1>10, OptionsKept DEF DisableCores, FailSetup, Goto, Exit
<1>11. CASE SetupVolumes
  BY <1>0, <1>11, OptionsKept DEF SetupVolumes, Between, FailSetup, Goto, Exit
<1>12. CASE StartDependencies
  BY <1>0, <1>12, OptionsKept DEF StartDependencies, UpSucceeds, UpFails, Between,
         RunnableCores, FailSetup, Goto, Exit
<1>13. CASE DeployTokens
  BY <1>0, <1>13, OptionsKept DEF DeployTokens, Deploy, Between, FailSetup, Goto, Exit
<1>14. CASE DeployFireFly
  BY <1>0, <1>14, OptionsKept DEF DeployFireFly, Deploy, Between, FailSetup, Goto, Exit
<1>15. CASE PatchConfigs
  BY <1>0, <1>15, OptionsKept DEF PatchConfigs, Between, FailSetup, Goto, Exit
<1>16. CASE EnableCores
  BY <1>0, <1>16, OptionsKept DEF EnableCores, FailSetup, Goto, Exit
<1>17. CASE StopForRestart
  BY <1>0, <1>17, OptionsKept DEF StopForRestart, HaltSucceeds, HaltFails, FailSetup, Goto,
         Exit
<1>18. CASE Restart
  BY <1>0, <1>18, OptionsKept DEF Restart, UpSucceeds, UpFails, Between, RunnableCores,
         FailSetup, Goto, Exit
<1>19. CASE WaitForCores
  <2>1. files = Files
    BY <1>19 DEF WaitForCores
  <2>2. Deployed \subseteq chain
    BY <1>19 DEF WaitForCores
  <2>3. FinishedSetupIsComplete'
    BY <1>0, <1>19, OptionsKept, <2>1, <2>2 DEF WaitForCores, FailSetup, Goto, Exit
  <2> QED
    BY <1>0, <1>19, OptionsKept, <2>3 DEF WaitForCores, FailSetup, Goto, Exit
<1>20. ASSUME NEW m \in Members, Register(m) PROVE IInv'
  BY <1>0, <1>20, OptionsKept DEF Register, Between, FailSetup, Goto, Exit
<1>21. CASE InitTokens
  BY <1>0, <1>21, OptionsKept DEF InitTokens, FailSetup, Goto, Exit
<1>22. CASE RecordState
  <2>1. files = Files
    BY <1>22 DEF RecordState
  <2>2. mem = Deployed /\ mem \subseteq chain
    BY <1>22 DEF RecordState
  <2>3. FinishedSetupIsComplete'
    BY <1>0, <1>22, OptionsKept, <2>1, <2>2 DEF RecordState, FailSetup, Goto, Exit
  <2> QED
    BY <1>0, <1>22, OptionsKept, <2>1, <2>2, <2>3 DEF RecordState, FailSetup, Goto, Exit
<1>23. CASE Resume
  BY <1>0, <1>23, OptionsKept DEF Resume, UpSucceeds, UpFails, Between, RunnableCores, Goto,
         Exit
<1>24. CASE FinalWait
  BY <1>0, <1>24, OptionsKept DEF FinalWait, Goto, Exit
<1>25. CASE StopStack
  BY <1>0, <1>25, OptionsKept DEF StopStack, ComposeHalt, HaltSucceeds, HaltFails, Goto, Exit
<1>26. CASE Down
  BY <1>0, <1>26, OptionsKept DEF Down, ComposeHalt, HaltSucceeds, HaltFails, Goto, Exit
<1>27. CASE RemoveRuntime
  BY <1>0, <1>27, OptionsKept DEF RemoveRuntime, Goto, Exit
<1>28. CASE RemoveVolumes
  <2>1. TornDownIsNew'
    <3>1. CASE AtRest("reset", "ok")' \/ AtRest("start", "rolled_back")'
      <4>1. volumes' = volumes \ Listed /\ cmd \in StartCommands \cup {"reset"}
        BY <1>28, <3>1 DEF RemoveVolumes, Goto, Exit
      <4>2. "blockchain" \notin volumes'
        BY <4>1 DEF Listed
      <4>3. chain' = {}
        BY <1>28, <4>2 DEF RemoveVolumes
      <4> QED
        BY <1>28, <4>1, <4>3, OptionsKept DEF RemoveVolumes, Exit
    <3> QED
      BY <3>1
  <2> QED
    BY <1>0, <1>28, OptionsKept, <2>1 DEF RemoveVolumes, Between, Goto, Exit
<1>29. CASE RemoveDir
  BY <1>0, <1>29, OptionsKept DEF RemoveDir, Goto, Exit
<1>30. CASE Kill
  BY <1>0, <1>30, OptionsKept DEF Kill, Exit
<1>31. CASE UNCHANGED vars
  BY <1>31, OptionsKept DEF vars, processVars
<1> QED
  BY <1>1, <1>2, <1>3, <1>4, <1>5, <1>6, <1>7, <1>8, <1>9, <1>10, <1>11,
     <1>12, <1>13, <1>14, <1>15, <1>16, <1>17, <1>18, <1>19, <1>20, <1>21,
     <1>22, <1>23, <1>24, <1>25, <1>26, <1>27, <1>28, <1>29, <1>30, <1>31 DEF Next,
     UserCommand, Step

(* The inductive invariant holds in every state of the commands on a       *)
(* stack.                                                                  *)
THEOREM Invariant == Spec => []IInv
  BY InitInductive, StepInductive, PTL DEF Spec

(* A first-time setup that ran to its end is complete, and stays so until  *)
(* a reset or a removal begins.                                            *)
THEOREM FinishedSetupComplete == Spec => []FinishedSetupIsComplete
  BY Invariant, PTL DEF IInv

(* What a successful reset or a rollback leaves can be started as new.     *)
THEOREM TornDownNew == Spec => []TornDownIsNew
  BY Invariant, PTL DEF IInv

(* stackState.json names no contract that is not on the chain, unless an   *)
(* unfinished removal left it.                                             *)
THEOREM NoRecordDangles == Spec => []NoDanglingRecord
  BY Invariant, PTL DEF IInv

(* A stack that exists has its compose file, unless an unfinished removal  *)
(* left it.                                                                *)
THEOREM ExistingRemovable == Spec => []ExistingIsRemovable
  BY Invariant, PTL DEF IInv

(* A successful start of a stack whose setup was finished runs all of it.  *)
THEOREM StartedRunning == Spec => []StartedIsRunning
  BY Invariant, PTL DEF IInv

-----------------------------------------------------------------------------
(* The commands implement StackContract.                                   *)

(* Every step of a command is a step of StackContract or leaves its        *)
(* variables alone.                                                        *)
LEMMA StepOfContract ==
  ASSUME IInv, [Next]_vars
  PROVE  [Contract!Next]_(Contract!vars)
<1> USE DEF IInv, TypeOK, StepOfCommand, DirectoryOfStep, ProgressOfSetup,
            StartCommands, SetupSteps, StartSteps, Files, Commands,
            diskVars, dockerVars, ghostVars, Status,
            Contract!Next, Contract!vars, Contract!Create,
            Contract!BeginSetup, Contract!Commit, Contract!Abandon,
            Contract!TearDown
<1>0. TypeOK'
  BY StepTyped
<1>1. CASE InitCommand
  BY <1>0, <1>1 DEF InitCommand, Begin
<1>2. CASE StartCommand
  BY <1>0, <1>2 DEF StartCommand, Begin
<1>3. CASE StopCommand
  BY <1>0, <1>3 DEF StopCommand, OnExisting, Begin
<1>4. CASE ResetCommand
  BY <1>0, <1>4 DEF ResetCommand, OnExisting, Begin
<1>5. CASE RemoveCommand
  BY <1>0, <1>5 DEF RemoveCommand, OnExisting, Begin
<1>6. CASE InitFiles
  BY <1>0, <1>6 DEF InitFiles, Between, Goto
<1>7. CASE InitConfig
  <2>1. setup # "finished"
    BY <1>7 DEF InitConfig, FinishedSetupIsComplete
  <2> QED
    BY <1>0, <1>7, <2>1 DEF InitConfig, Between, Goto, Exit
<1>8. CASE InitCleanup
  BY <1>0, <1>8 DEF InitCleanup, ComposeHalt, HaltSucceeds, HaltFails, Goto,
         Exit
<1>9. CASE CopyInit
  BY <1>0, <1>9 DEF CopyInit, Between, FailSetup, Goto, Exit
<1>10. CASE DisableCores
  BY <1>0, <1>10 DEF DisableCores, FailSetup, Goto, Exit
<1>11. CASE SetupVolumes
  BY <1>0, <1>11 DEF SetupVolumes, Between, FailSetup, Goto, Exit
<1>12. CASE StartDependencies
  BY <1>0, <1>12 DEF StartDependencies, UpSucceeds, UpFails, Between,
         RunnableCores, FailSetup, Goto, Exit
<1>13. CASE DeployTokens
  BY <1>0, <1>13 DEF DeployTokens, Deploy, Between, FailSetup, Goto, Exit
<1>14. CASE DeployFireFly
  BY <1>0, <1>14 DEF DeployFireFly, Deploy, Between, FailSetup, Goto, Exit
<1>15. CASE PatchConfigs
  BY <1>0, <1>15 DEF PatchConfigs, Between, FailSetup, Goto, Exit
<1>16. CASE EnableCores
  BY <1>0, <1>16 DEF EnableCores, FailSetup, Goto, Exit
<1>17. CASE StopForRestart
  BY <1>0, <1>17 DEF StopForRestart, HaltSucceeds, HaltFails, FailSetup,
         Goto, Exit
<1>18. CASE Restart
  BY <1>0, <1>18 DEF Restart, UpSucceeds, UpFails, Between, RunnableCores,
         FailSetup, Goto, Exit
<1>19. CASE WaitForCores
  BY <1>0, <1>19 DEF WaitForCores, FailSetup, Goto, Exit
<1>20. ASSUME NEW m \in Members, Register(m) PROVE [Contract!Next]_(Contract!vars)
  BY <1>0, <1>20 DEF Register, Between, FailSetup, Goto, Exit
<1>21. CASE InitTokens
  BY <1>0, <1>21 DEF InitTokens, FailSetup, Goto, Exit
<1>22. CASE RecordState
  BY <1>0, <1>22 DEF RecordState, FailSetup, Goto, Exit
<1>23. CASE Resume
  BY <1>0, <1>23 DEF Resume, UpSucceeds, UpFails, Between, RunnableCores,
         Goto, Exit
<1>24. CASE FinalWait
  BY <1>0, <1>24 DEF FinalWait, Goto, Exit
<1>25. CASE StopStack
  BY <1>0, <1>25 DEF StopStack, ComposeHalt, HaltSucceeds, HaltFails, Goto,
         Exit
<1>26. CASE Down
  BY <1>0, <1>26 DEF Down, ComposeHalt, HaltSucceeds, HaltFails, Goto, Exit
<1>27. CASE RemoveRuntime
  BY <1>0, <1>27 DEF RemoveRuntime, Goto, Exit
<1>28. CASE RemoveVolumes
  BY <1>0, <1>28 DEF RemoveVolumes, Between, Goto, Exit
<1>29. CASE RemoveDir
  BY <1>0, <1>29 DEF RemoveDir, Goto, Exit
<1>30. CASE Kill
  BY <1>0, <1>30 DEF Kill, Exit
<1>31. CASE UNCHANGED vars
  BY <1>31 DEF vars, processVars
<1> QED
  BY <1>1, <1>2, <1>3, <1>4, <1>5, <1>6, <1>7, <1>8, <1>9, <1>10, <1>11,
     <1>12, <1>13, <1>14, <1>15, <1>16, <1>17, <1>18, <1>19, <1>20, <1>21,
     <1>22, <1>23, <1>24, <1>25, <1>26, <1>27, <1>28, <1>29, <1>30, <1>31
     DEF Next, UserCommand, Step

(* An abandoned setup is never taken up again nor completed by a later     *)
(* command, and a stack is ready only after a setup that found it new.     *)
THEOREM ContractImplemented == Spec => ImplementsContract
<1>1. Init => Contract!Init
  BY DEF Init, Contract!Init, Status, SetupSteps
<1> QED
  BY <1>1, StepOfContract, Invariant, PTL DEF Spec, ImplementsContract, Contract!Spec
=============================================================================
