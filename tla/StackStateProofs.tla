--------------------------- MODULE StackStateProofs ---------------------------
(***************************************************************************)
(* Proofs about StackState, for any number of commands of any kinds.       *)
(***************************************************************************)
EXTENDS StackState, TLAPS

Unmade == {"ready", "copy_init", "first_up", "up", "make"}

(* Two commands at work have met; one that has not begun has met none.     *)
OverlapIsSeen ==
  \A p, q \in Procs :
    /\ pc[p] \in Working /\ pc[q] \in Working /\ p # q => q \in met[p]
    /\ pc[p] = "ready" => met[p] = {}

(* What holds of the files whatever overlaps. *)
FilesFit ==
  /\ runtime = "absent" => file = "missing" /\ recorded = {}
  /\ \A p \in Procs :
       /\ pc[p] = "write" /\ p \notin detached => runtime = "present"
       /\ pc[p] = "remove_volumes" => recorded = {} \/ Overlapped
       /\ pc[p] \in Unmade => p \notin Made /\ p \notin initKeys
       /\ pc[p] \in Unmade \cup {"truncate"} => p \notin detached
       /\ kind[p] # "create" => p \notin initKeys

(* A state in memory names what is there, or will be with the runtime.     *)
MemIsMade ==
  \A p \in Procs : pc[p] \in Working =>
    \/ Overlapped /\ "teardown" \in history
    \/ /\ mem[p] \subseteq Made \cup initKeys
       /\ runtime = "present" => mem[p] \subseteq Made

(* A command that met no other wrote to the file that is there, and did    *)
(* not leave its wallet in init/.                                          *)
AloneIsRecorded ==
  \A p \in Procs :
    /\ pc[p] \in {"truncate", "write"} => p \in mem[p]
    /\ met[p] = {} =>
         /\ p \notin detached
         /\ pc[p] = "truncate" /\ p \in initKeys => runtime = "absent"
         /\ pc[p] \in {"write", "ok"} => p \notin initKeys

(* What it made is in the state that every later command has in memory,    *)
(* and no setup is under way that would put the state of init/ over it.    *)
Kept(p) ==
  \/ \E q \in Procs : pc[q] = "remove_volumes"
  \/ /\ runtime = "present"
     /\ p \in recorded \/ file = "unreadable"
     /\ \A q \in Procs :
          /\ pc[q] \notin {"copy_init", "first_up"}
          /\ pc[q] \in {"make", "truncate", "write"} => p \in mem[q]

MemIsCurrent ==
  "cut" \notin history =>
    \A p \in Procs :
      pc[p] = "ok" /\ p \in Made /\ met[p] = {} /\ ~ReturnsEarly(p) => Kept(p)

WritesOverNothing ==
  Undisturbed => \A p \in Procs : pc[p] = "write" => recorded = {}

IInv ==
  /\ TypeOK
  /\ OverlapIsSeen
  /\ FilesFit
  /\ MemIsMade
  /\ AloneIsRecorded
  /\ MemIsCurrent
  /\ WritesOverNothing
  /\ SerialStateIsReadable
  /\ RecordedIsMade

-----------------------------------------------------------------------------

(* The initial states satisfy the inductive invariant.                     *)
LEMMA InitInductive == Init => IInv
BY StateAssumption
DEF Init, IInv, TypeOK, OverlapIsSeen, FilesFit, MemIsMade, AloneIsRecorded,
    MemIsCurrent, WritesOverNothing, SerialStateIsReadable, RecordedIsMade,
    Working, Made, Unmade

(* Every step keeps the types.                                             *)
LEMMA StepTyped == ASSUME TypeOK, [Next]_vars PROVE TypeOK'
<1> USE DEF TypeOK, Working, Ended, Goto, Fail, disk, chains, past
<1>1. ASSUME NEW p \in Procs, Load(p) PROVE TypeOK'
  BY <1>1 DEF Load, Meet, FirstStep
<1>2. ASSUME NEW p \in Procs, CopyInit(p) PROVE TypeOK'
  BY <1>2 DEF CopyInit
<1>3. ASSUME NEW p \in Procs, FirstUp(p) PROVE TypeOK'
  BY <1>3 DEF FirstUp
<1>4. ASSUME NEW p \in Procs, Up(p) PROVE TypeOK'
  BY <1>4 DEF Up
<1>5. ASSUME NEW p \in Procs, DeployContract(p) PROVE TypeOK'
  BY <1>5 DEF DeployContract, ReturnsEarly
<1>6. ASSUME NEW p \in Procs, CreateAccount(p) PROVE TypeOK'
  BY <1>6 DEF CreateAccount
<1>7. ASSUME NEW p \in Procs, Truncate(p) PROVE TypeOK'
  BY <1>7 DEF Truncate
<1>8. ASSUME NEW p \in Procs, Write(p) PROVE TypeOK'
  BY <1>8 DEF Write
<1>9. ASSUME NEW p \in Procs, Down(p) PROVE TypeOK'
  BY <1>9 DEF Down
<1>10. ASSUME NEW p \in Procs, RemoveRuntime(p) PROVE TypeOK'
  BY <1>10 DEF RemoveRuntime, DeleteState
<1>11. ASSUME NEW p \in Procs, RemoveVolumes(p) PROVE TypeOK'
  BY <1>11 DEF RemoveVolumes
<1>12. ASSUME NEW p \in Procs, Kill(p) PROVE TypeOK'
  BY <1>12 DEF Kill
<1>13. CASE UNCHANGED vars
  BY <1>13 DEF vars
<1> QED
  BY <1>1, <1>2, <1>3, <1>4, <1>5, <1>6, <1>7, <1>8, <1>9, <1>10,
     <1>11, <1>12, <1>13 DEF Next

(* Every step keeps the inductive invariant.                               *)
LEMMA StepInductive == ASSUME IInv, [Next]_vars PROVE IInv'
<1> USE DEF IInv, TypeOK, OverlapIsSeen, FilesFit, MemIsMade, AloneIsRecorded,
            MemIsCurrent, Kept, ReturnsEarly, WritesOverNothing,
            SerialStateIsReadable, RecordedIsMade, Overlapped,
            Working, Ended, Made, Unmade, Undisturbed, Goto, Fail, disk, chains, past
<1>0. TypeOK'
  BY StepTyped DEF IInv
<1>1. ASSUME NEW p \in Procs, Load(p) PROVE IInv'
  <2>1. /\ p \notin Made /\ p \notin initKeys /\ p \notin detached
        /\ pc[p] = "ready"
        /\ UNCHANGED <<disk, chains, kind, given, detached, history>>
    BY <1>1 DEF Load
  <2>2. /\ \A q \in Procs : q # p => pc'[q] = pc[q] /\ mem'[q] = mem[q]
        /\ pc'[p] \in {"copy_init", "up", "make", "down", "failed"}
        /\ pc'[p] = "copy_init" => runtime = "absent"
        /\ pc'[p] = "make" => mem'[p] = recorded /\ file # "unreadable"
        /\ pc'[p] # "failed" => mem'[p] = recorded
    BY <1>1 DEF Load, FirstStep
  <2>3. /\ \A q \in Procs : pc[q] \in Working /\ q # p =>
             /\ p \in met'[q] /\ q \in met'[p]
             /\ met[q] \subseteq met'[q]
        /\ \A q \in Procs : pc[q] \notin Working /\ q # p => met'[q] = met[q]
        /\ \A q \in Procs : met'[q] = {} => met[q] = {}
    BY <1>1 DEF Load, Meet
  <2>4. OverlapIsSeen'
    <3> SUFFICES ASSUME NEW q \in Procs, NEW r \in Procs
                 PROVE  /\ pc'[q] \in Working /\ pc'[r] \in Working /\ q # r
                             => r \in met'[q]
                        /\ pc'[q] = "ready" => met'[q] = {}
      OBVIOUS
    <3>1. CASE q = p
      BY <2>2, <2>3, <3>1
    <3>2. CASE q # p
      BY <2>2, <2>3, <3>2
    <3> QED
      BY <3>1, <3>2
  <2>5. FilesFit' /\ RecordedIsMade'
    BY <2>1, <2>2, <2>3
  <2>6. MemIsMade'
    BY <2>1, <2>2, <2>3
  <2>7. AloneIsRecorded'
    BY <2>1, <2>2, <2>3
  <2>8. MemIsCurrent'
    BY <2>1, <2>2, <2>3
  <2>9. WritesOverNothing' /\ SerialStateIsReadable'
    BY <2>1, <2>2, <2>3
  <2> QED
    BY <1>0, <2>4, <2>5, <2>6, <2>7, <2>8, <2>9
<1>2. ASSUME NEW p \in Procs, CopyInit(p) PROVE IInv'
  BY <1>0, <1>2 DEF CopyInit
<1>3. ASSUME NEW p \in Procs, FirstUp(p) PROVE IInv'
  BY <1>0, <1>3 DEF FirstUp
<1>4. ASSUME NEW p \in Procs, Up(p) PROVE IInv'
  BY <1>0, <1>4 DEF Up
<1>5. ASSUME NEW p \in Procs, DeployContract(p) PROVE IInv'
  BY <1>0, <1>5 DEF DeployContract
<1>6. ASSUME NEW p \in Procs, CreateAccount(p) PROVE IInv'
  BY <1>0, <1>6 DEF CreateAccount
<1>7. ASSUME NEW p \in Procs, Truncate(p) PROVE IInv'
  BY <1>0, <1>7 DEF Truncate
<1>8. ASSUME NEW p \in Procs, Write(p) PROVE IInv'
  BY <1>0, <1>8 DEF Write
<1>9. ASSUME NEW p \in Procs, Down(p) PROVE IInv'
  BY <1>0, <1>9 DEF Down
<1>10. ASSUME NEW p \in Procs, RemoveRuntime(p) PROVE IInv'
  BY <1>0, <1>10 DEF RemoveRuntime, DeleteState
<1>11. ASSUME NEW p \in Procs, RemoveVolumes(p) PROVE IInv'
  BY <1>0, <1>11 DEF RemoveVolumes
<1>12. ASSUME NEW p \in Procs, Kill(p) PROVE IInv'
  BY <1>0, <1>12 DEF Kill
<1>13. CASE UNCHANGED vars
  BY <1>13 DEF vars
<1> QED
  BY <1>1, <1>2, <1>3, <1>4, <1>5, <1>6, <1>7, <1>8, <1>9, <1>10,
     <1>11, <1>12, <1>13 DEF Next

(* The inductive invariant holds in every state of the two commands that   *)
(* share stackState.json.                                                  *)
THEOREM Invariant == Spec => []IInv
  BY InitInductive, StepInductive, PTL DEF Spec

(* Every variable of the state file's model keeps its type, whatever       *)
(* commands run at once on the stack.                                      *)
THEOREM TypeCorrect == Spec => []TypeOK
<1>1. IInv => TypeOK
  BY DEF IInv
<1> QED
  BY <1>1, Invariant, PTL

(* What a command made while no other was at work is lost by none that     *)
(* follows, however those overlap.                                         *)
THEOREM OnlyOverlapLosesRecords == Spec => []OnlyOverlapLoses
<1>1. IInv => OnlyOverlapLoses
  BY DEF IInv, MemIsCurrent, Kept, OnlyOverlapLoses
<1> QED
  BY <1>1, Invariant, PTL

(* stackState.json is unreadable only while it is written, or after a      *)
(* write that broke off or met another one.                                *)
THEOREM SerialReadable == Spec => []SerialStateIsReadable
  BY Invariant, PTL DEF IInv

(* stackState.json names only what is there, unless a tear-down overlapped *)
(* another command.                                                        *)
THEOREM RecordedMade == Spec => []RecordedIsMade
  BY Invariant, PTL DEF IInv
=============================================================================
