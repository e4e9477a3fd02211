------------------------------ MODULE StackState ------------------------------
(***************************************************************************)
(* stackState.json under several ff commands at once                       *)
(* (internal/stacks/stack_manager.go).  Every command is an OS process;    *)
(* nothing locks the stack directory.  A command reads the whole state     *)
(* when it loads the stack, makes its account or contract, and writes the  *)
(* whole state back with os.WriteFile, which truncates the file first.     *)
(*                                                                         *)
(* Each process runs one command; what it makes, and so what it adds to    *)
(* the state, goes by the name of the process.                             *)
(***************************************************************************)
CONSTANTS
  Procs,  \* the processes: one command each
  Kinds   \* the commands they run

AllKinds == {"start", "create", "deploy", "reset"}

ASSUME StateAssumption == Kinds \subseteq AllKinds

VARIABLES
  runtime,   \* the runtime directory: absent or present
  file,      \* runtime/stackState.json: missing, unreadable or readable
  recorded,  \* what it names, when it is readable
  node,      \* the blockchain node: down or up
  chain,     \* contracts on the chain
  keys,      \* accounts whose wallet the node has
  initKeys,  \* accounts whose wallet is in init/
  kind,      \* the command of each process
  given,     \* the stack was made with a contract address of its own: yes or no
  pc,        \* its next step
  mem,       \* its Stack.State
  detached,  \* processes that write to a stackState.json since deleted
  met,       \* the processes that were at work while this one was
  history    \* cut: a write or a tear-down broke off;  teardown: volumes were
             \* removed

disk   == <<runtime, file, recorded>>
chains == <<node, chain, keys, initKeys>>
past   == <<met, history>>
vars   == <<disk, chains, given, kind, pc, mem, detached, past>>

Working == {"copy_init", "first_up", "up", "make", "truncate", "write",
            "down", "remove_runtime", "remove_volumes"}
Ended   == {"ok", "failed", "killed"}

TypeOK ==
  /\ runtime \in {"absent", "present"}
  /\ file \in {"missing", "unreadable", "readable"}
  /\ recorded \subseteq Procs
  /\ node \in {"down", "up"}
  /\ chain \subseteq Procs
  /\ keys \subseteq Procs
  /\ initKeys \subseteq Procs
  /\ kind \in [Procs -> Kinds]
  /\ pc \in [Procs -> {"ready"} \cup Working \cup Ended]
  /\ mem \in [Procs -> SUBSET Procs]
  /\ detached \subseteq Procs
  /\ given \in {"yes", "no"}
  /\ met \in [Procs -> SUBSET Procs]
  /\ history \subseteq {"cut", "teardown"}

Init ==
  /\ runtime = "absent" /\ file = "missing" /\ recorded = {}
  /\ node = "down" /\ chain = {} /\ keys = {} /\ initKeys = {}
  /\ kind \in [Procs -> Kinds]
  /\ pc = [p \in Procs |-> "ready"]
  /\ mem = [p \in Procs |-> {}]
  /\ given \in {"yes", "no"}
  /\ detached = {} /\ history = {}
  /\ met = [p \in Procs |-> {}]

Goto(p, step) == pc' = [pc EXCEPT ![p] = step] /\ UNCHANGED <<kind, given>>

(* StartStack rolls a failed first-time setup back unless it was told not  *)
(* to; the other commands just fail.                                       *)
Fail(p) ==
  \/ Goto(p, "failed")
  \/ kind[p] = "start" /\ Goto(p, "down")

-----------------------------------------------------------------------------
(* LoadStack: a missing state file is an empty state, one that is no JSON  *)
(* fails every command.  Then HasRunBefore decides how a start goes on.    *)

FirstStep(p) ==
  CASE kind[p] = "start" -> IF runtime = "present" THEN "up" ELSE "copy_init"
    [] kind[p] = "reset" -> "down"
    [] OTHER -> "make"

(* Who is at work meets the process that loads the state now.              *)
Meet(p) ==
  LET others == {q \in Procs : pc[q] \in Working}
  IN  met' = [q \in Procs |-> IF q = p THEN others
                             ELSE IF q \in others THEN met[q] \cup {p}
                             ELSE met[q]]

\* MUTANT: the command starts from an empty state.
LoadEmpty(p) ==
  /\ pc[p] = "ready"
  /\ Goto(p, FirstStep(p))
  /\ Meet(p)
  /\ UNCHANGED <<disk, chains, mem, detached, history>>

Load(p) ==
  /\ pc[p] = "ready"
  /\ \/ /\ file # "unreadable"
        /\ mem' = [mem EXCEPT ![p] = recorded]
        /\ Goto(p, FirstStep(p))
     \/ /\ file = "unreadable"
        /\ Goto(p, "failed")
        /\ UNCHANGED mem
  /\ Meet(p)
  /\ UNCHANGED <<disk, chains, detached, history>>

-----------------------------------------------------------------------------
(* ff start.                                                               *)

(* copy.Copy(InitDir, RuntimeDir): init/ has a state of its own, which     *)
(* goes over one that another command has put there in the meantime, and   *)
(* the wallets that the setup then copies to the node.                     *)
CopyInit(p) ==
  /\ pc[p] = "copy_init"
  /\ runtime' = "present" /\ file' = "readable" /\ recorded' = {}
  /\ keys' = keys \cup initKeys
  /\ Goto(p, "first_up")
  /\ UNCHANGED <<node, chain, initKeys, mem, detached, past>>

FirstUp(p) ==
  /\ pc[p] = "first_up"
  /\ \/ node' = "up" /\ Goto(p, "make")
     \/ UNCHANGED node /\ Fail(p)
  /\ UNCHANGED <<disk, chain, keys, initKeys, mem, detached, past>>

(* The stack has run before; the state is left alone.                      *)
Up(p) ==
  /\ pc[p] = "up"
  /\ \/ node' = "up" /\ Goto(p, "ok")
     \/ UNCHANGED node /\ Goto(p, "failed")
  /\ UNCHANGED <<disk, chain, keys, initKeys, mem, detached, past>>

-----------------------------------------------------------------------------
(* What a command makes.                                                   *)

\* MUTANT: the state is updated before the outcome is known.
DeployContractEarly(p) ==
  /\ pc[p] = "make" /\ kind[p] \in {"start", "deploy"}
  /\ chain' = chain \/ (node = "up" /\ chain' = chain \cup {p})
  /\ mem' = [mem EXCEPT ![p] = @ \cup {p}]
  /\ Goto(p, "truncate")
  /\ UNCHANGED <<disk, node, keys, initKeys, detached, past>>

\* MUTANT: the chain is asked for the contract's name, not its location.
DeployContractByName(p) ==
  /\ pc[p] = "make" /\ kind[p] \in {"start", "deploy"}
  /\ node = "up"
  /\ chain' = chain \cup {kind[p]}
  /\ mem' = [mem EXCEPT ![p] = @ \cup {p}]
  /\ Goto(p, "truncate")
  /\ UNCHANGED <<disk, node, keys, initKeys, detached, past>>

(* The setup of a stack with a contract address of its own deploys at most *)
(* token contracts, and returns before the end, where the state is written.*)
ReturnsEarly(p) == kind[p] = "start" /\ given = "yes"

(* The contracts of a first-time setup, and ff deploy.                     *)
DeployContract(p) ==
  /\ pc[p] = "make" /\ kind[p] \in {"start", "deploy"}
  /\ \/ /\ node = "up"
        /\ chain' = chain \cup {p}
        /\ mem' = [mem EXCEPT ![p] = @ \cup {p}]
        /\ Goto(p, IF ReturnsEarly(p) THEN "ok" ELSE "truncate")
     \/ /\ node = "up" /\ ReturnsEarly(p)
        /\ Goto(p, "ok")
        /\ UNCHANGED <<chain, mem>>
     \/ /\ chain' = chain \/ (node = "up" /\ chain' = chain \cup {p})
        /\ Fail(p)
        /\ UNCHANGED mem
  /\ UNCHANGED <<disk, node, keys, initKeys, detached, past>>

(* ff accounts create: the wallet of a stack that has not run yet goes to  *)
(* init/, otherwise to the node, which then has to unlock it.              *)
CreateAccount(p) ==
  /\ pc[p] = "make" /\ kind[p] = "create"
  /\ IF runtime = "present"
     THEN keys' = keys \cup {p} /\ UNCHANGED initKeys
     ELSE initKeys' = initKeys \cup {p} /\ UNCHANGED keys
  /\ \/ /\ runtime = "present" => node = "up"
        /\ mem' = [mem EXCEPT ![p] = @ \cup {p}]
        /\ Goto(p, "truncate")
     \/ /\ runtime = "present"
        /\ Goto(p, "failed")
        /\ UNCHANGED mem
  /\ UNCHANGED <<disk, node, chain, detached, past>>

-----------------------------------------------------------------------------
(* writeStackStateJSON.                                                    *)

\* MUTANT: the file is opened first and the state is encoded after that,
\* which may fail.
TruncateFirst(p) ==
  /\ pc[p] = "truncate"
  /\ runtime = "present"
  /\ file' = "unreadable" /\ recorded' = {}
  /\ Goto(p, "write") \/ Fail(p)
  /\ UNCHANGED <<runtime, chains, mem, detached, past>>

(* os.WriteFile opens the file with O_CREATE|O_TRUNC.                      *)
Truncate(p) ==
  /\ pc[p] = "truncate"
  /\ \/ /\ runtime = "present"
        /\ file' = "unreadable" /\ recorded' = {}
        /\ Goto(p, "write")
     \/ /\ runtime = "absent"
        /\ UNCHANGED <<file, recorded>>
        /\ Fail(p)
  /\ UNCHANGED <<runtime, chains, mem, detached, past>>

(* Another process may have written to the file since it was truncated:    *)
(* what is longer than this state shows at its end, and is no JSON.        *)
Write(p) ==
  /\ pc[p] = "write"
  /\ \/ /\ p \notin detached
        /\ \/ file' = "readable" /\ recorded' = mem[p]
           \/ /\ ~(recorded \subseteq mem[p])
              /\ file' = "unreadable" /\ recorded' = {}
        /\ Goto(p, "ok")
        /\ UNCHANGED history
     \/ /\ p \in detached
        /\ Goto(p, "ok")
        /\ UNCHANGED <<file, recorded, history>>
     \/ /\ Fail(p)
        /\ history' = history \cup {"cut"}
        /\ UNCHANGED <<file, recorded>>
  /\ UNCHANGED <<runtime, chains, mem, detached, met>>

-----------------------------------------------------------------------------
(* ResetStack: ff reset, and the rollback of a first start.                *)

Down(p) ==
  /\ pc[p] = "down"
  /\ \/ node' = "down" /\ Goto(p, "remove_runtime")
     \/ node' \in {node, "down"} /\ Goto(p, "failed")
  /\ UNCHANGED <<disk, chain, keys, initKeys, mem, detached, past>>

DeleteState ==
  /\ file' = "missing" /\ recorded' = {}
  /\ detached' = detached \cup {q \in Procs : pc[q] = "write"}

(* os.RemoveAll may break off before or after it comes to the file.        *)
RemoveRuntime(p) ==
  /\ pc[p] = "remove_runtime"
  /\ \/ /\ runtime' = "absent"
        /\ DeleteState
        /\ Goto(p, "remove_volumes")
        /\ UNCHANGED history
     \/ /\ DeleteState \/ UNCHANGED <<file, recorded, detached>>
        /\ Goto(p, "failed")
        /\ history' = history \cup {"cut"}
        /\ UNCHANGED runtime
  /\ UNCHANGED <<chains, mem, met>>

(* ... and so may removeVolumes among the volumes of the nodes.            *)
RemoveVolumes(p) ==
  /\ pc[p] = "remove_volumes"
  /\ \/ /\ chain' = {} /\ keys' = {}
        /\ history' = history \cup {"teardown"}
        /\ Goto(p, IF kind[p] = "reset" THEN "ok" ELSE "failed")
     \/ /\ chain' \in {chain, {}} /\ keys' \in SUBSET keys
        /\ history' = history \cup {"cut", "teardown"}
        /\ Goto(p, "failed")
  /\ UNCHANGED <<disk, node, initKeys, mem, detached, met>>

-----------------------------------------------------------------------------

Kill(p) ==
  /\ pc[p] \in Working
  /\ Goto(p, "killed")
  /\ history' = history \cup
       (IF pc[p] \in {"write", "remove_runtime", "remove_volumes"}
        THEN {"cut"} ELSE {})
  /\ UNCHANGED <<disk, chains, mem, detached, met>>

Next ==
  \E p \in Procs :
    \/ Load(p) \/ CopyInit(p) \/ FirstUp(p) \/ Up(p)
    \/ DeployContract(p) \/ CreateAccount(p) \/ Truncate(p) \/ Write(p)
    \/ Down(p) \/ RemoveRuntime(p) \/ RemoveVolumes(p) \/ Kill(p)

Spec == Init /\ [][Next]_vars

-----------------------------------------------------------------------------
(* Properties.                                                             *)

Made == chain \cup keys

Overlapped == \E p \in Procs : met[p] # {}

Undisturbed == ~Overlapped /\ "cut" \notin history

(* What a command made while no other command was at work is lost by none  *)
(* that follows, whatever those overlap with: as long as no write and no   *)
(* tear-down broke off, every account and contract that such a command     *)
(* made and no reset took away is in stackState.json, but while that is    *)
(* unreadable or a tear-down is between it and the volumes.  The setup     *)
(* that returns before it writes the state is the one exception.           *)
OnlyOverlapLoses ==
  "cut" \notin history =>
    \A p \in Procs :
      pc[p] = "ok" /\ p \in Made /\ met[p] = {} /\ ~ReturnsEarly(p) =>
        \/ p \in recorded
        \/ file = "unreadable"
        \/ \E q \in Procs : pc[q] = "remove_volumes"

(* stackState.json stops being readable only while it is written, or after *)
(* a write that broke off or met another one.                              *)
SerialStateIsReadable ==
  file = "unreadable" /\ Undisturbed =>
    \E p \in Procs : pc[p] = "write"

(* stackState.json names only what is really there, whatever overlaps,     *)
(* unless a tear-down went past another command that had loaded the state. *)
RecordedIsMade ==
  recorded \subseteq Made \/ (Overlapped /\ "teardown" \in history)

=============================================================================
