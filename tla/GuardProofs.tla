---------------------------- MODULE GuardProofs ----------------------------
(***************************************************************************)
(* The safety of guard for every length of the list, every set of pids and *)
(* every environment: IInv is inductive and implies the invariants.  The   *)
(* heart of it is ListedByProgram: pids are reused, so that a stale pid of *)
(* one item may be the live pid of another; but a child is always in the   *)
(* field pid of the very item whose program it runs.                       *)
(***************************************************************************)
EXTENDS Guard, TLAPS

USE GuardAssumption

\* The initial state has no children and lists none.
LEMMA InitIInv == Init => IInv
<1> SUFFICES ASSUME Init PROVE IInv
  OBVIOUS
<1>1. 1 \in Item
  BY DEF Item
<1>2. TypeOK
  BY <1>1 DEF Init, TypeOK, ProcessState, PcValues
<1>3. ListedByProgram /\ ZombiesListed /\ NoneStopped
  BY DEF Init, ListedByProgram, ZombiesListed, NoneStopped, LiveChild, Live
<1>4. Starting /\ Killing /\ Restarting /\ Rebooting /\ Quitting
  BY DEF Init, Starting, Killing, Restarting, Rebooting, Quitting
<1> QED
  BY <1>2, <1>3, <1>4 DEF IInv

\* The loops stay within the list.
LEMMA NextItemType ==
  ASSUME TypeOK, NEW here, NEW after, NextItem(here, after)
  PROVE  cur' \in Item /\ pc' \in {here, after}
BY DEF NextItem, TypeOK, Item

\* A new child has a pid that no other child has, and is listed under its program; the
\* item had no process.
LEMMA StartProcessStep == ASSUME IInv, StartProcess PROVE IInv'
<1> USE DEF IInv
<1>1. PICK p \in Pid :
        /\ os[p] = "none"
        /\ os' = [os EXCEPT ![p] = "running"]
        /\ program' = [program EXCEPT ![p] = cur]
        /\ pid' = [pid EXCEPT ![cur] = p]
  BY DEF StartProcess
<1>2. pid[cur] = INVALID_PID
  BY DEF StartProcess, Starting, Restarting, TypeOK, Item
<1>3. pc \in {"start", "restart"} /\ pc' \in {"start", "poll", "loop"}
      /\ (pc' = "start" => pc = "start" /\ cur' = cur + 1)
      /\ (pc' = "loop" => cur' = 1)
  BY DEF StartProcess, NextItem
<1>4. TypeOK'
  <2>1. cur' \in Item
    BY NextItemType DEF StartProcess
  <2> QED
    BY <1>1, <1>3, <2>1 DEF StartProcess, TypeOK, ProcessState, PcValues
<1>5. \A q \in Pid : pid[program[q]] = q => pid'[program'[q]] = q
  BY <1>1, <1>2 DEF TypeOK
<1>6. pid'[program'[p]] = p
  BY <1>1 DEF TypeOK
<1>7. \A q \in Pid \ {p} : os'[q] = os[q]
  BY <1>1 DEF TypeOK
<1>8. ListedByProgram'
  BY <1>5, <1>6, <1>7 DEF ListedByProgram, LiveChild
<1>9. ZombiesListed'
  BY <1>1, <1>3, <1>5, <1>6, <1>7 DEF ZombiesListed, StartProcess
<1>10. NoneStopped'
  BY <1>1 DEF NoneStopped, StartProcess, TypeOK
<1>11. Starting'
  BY <1>1, <1>3 DEF Starting, TypeOK, Item
<1> QED
  BY <1>3, <1>4, <1>8, <1>9, <1>10, <1>11 DEF Killing, Restarting, Rebooting, Quitting

\* Killing children keeps every child listed, and adds none.
LEMMA KilledChildren ==
  ASSUME TypeOK, NEW q
  PROVE  /\ SIGKILLed(os, q) \in [Pid -> ProcessState]
         /\ \A p \in Pid : SIGKILLed(os, q)[p] = "none" <=> os[p] = "none"
         /\ \A p \in Pid : SIGKILLed(os, q)[p] \in Live =>
                             os[p] \in Live /\ SIGKILLed(os, q)[p] = os[p]
                             /\ q \notin {p, INVALID_PID}
BY DEF SIGKILLed, TypeOK, ProcessState, Live

\* An item that is quit is left with no live process, its own or, without one, any.
LEMMA QuitForcedStep == ASSUME IInv, QuitForced PROVE IInv'
<1> USE DEF IInv
<1>1. \A p \in Pid : os'[p] \in Live =>
        os[p] \in Live /\ os'[p] = os[p] /\ pid[cur] \notin {p, INVALID_PID}
  BY DEF QuitForced, SIGKILLed, Reported, waitpid, TypeOK, Live, ProcessState
<1>2. os' \in [Pid -> ProcessState]
  BY DEF QuitForced, SIGKILLed, Reported, waitpid, TypeOK, Live, ProcessState
<1>3. \A p \in Pid : os'[p] # "none" => os[p] # "none"
  BY DEF QuitForced, SIGKILLed, Reported, waitpid, TypeOK, Live, ProcessState
<1>4. pc = "quitting" /\ pc' \in {"quitting", "quit"}
  BY DEF QuitForced, NextItem
<1>5. TypeOK'
  <2>1. cur' \in Item
    BY NextItemType DEF QuitForced
  <2> QED
    BY <1>2, <1>4, <2>1 DEF QuitForced, TypeOK, PcValues
<1>6. ListedByProgram'
  BY <1>1 DEF ListedByProgram, LiveChild, QuitForced
<1>7. NoneStopped'
  BY <1>1 DEF NoneStopped, QuitForced, Live
<1>8. ZombiesListed'
  <2> SUFFICES ASSUME ~setup.children_stop, NEW p \in Pid, os'[p] = "zombie"
               PROVE  pid[program[p]] = p
    BY DEF ZombiesListed, QuitForced
  <2>1. os[p] \in Live \cup {"zombie"}
    BY <1>3 DEF TypeOK, ProcessState, Live
  <2> QED
    BY <2>1, <1>4 DEF ZombiesListed, ListedByProgram, LiveChild
<1>9. Quitting'
  <2> SUFFICES ASSUME ~setup.children_stop, NEW p \in Pid, os'[p] \in Live
               PROVE  cur < g_process_num /\ cur' = cur + 1 /\ program[p] >= cur'
    BY <1>4 DEF Quitting, LiveChild, QuitForced, NextItem
  <2>1. program[p] >= cur /\ pid[program[p]] = p
    BY <1>1, <1>4 DEF Quitting, ListedByProgram, LiveChild
  <2>2. program[p] # cur
    BY <2>1, <1>1
  <2>3. program[p] \in Item /\ cur \in Item
    BY DEF TypeOK
  <2> QED
    BY <2>1, <2>2, <2>3 DEF QuitForced, NextItem, Item
<1> QED
  BY <1>4, <1>5, <1>6, <1>7, <1>8, <1>9 DEF Starting, Killing, Restarting, Rebooting

\* Restarting an item begins with killing what is left of its process.
LEMMA RestartProcessStep == ASSUME IInv, RestartProcess PROVE IInv'
BY DEF RestartProcess, SIGKILLed, IInv, TypeOK, ListedByProgram, ZombiesListed, NoneStopped,
       Starting, Killing, Restarting, Rebooting, Quitting, LiveChild, Live, ProcessState,
       PcValues, Item

\* What children and users do: a child that goes from one state to another stays listed,
\* and one that was reaped does not come back.
LEMMA ChildStepKeeps ==
  ASSUME IInv, NEW from \in SUBSET Live, NEW to \in ProcessState \ {"none"}, ChildStep(from, to),
         to \in {"stopping", "stopped"} => setup.children_stop
  PROVE  IInv'
<1> USE DEF IInv
<1>1. PICK p \in Pid : os[p] \in Live /\ os' = [os EXCEPT ![p] = to]
  BY DEF ChildStep
<1>2. TypeOK'
  BY <1>1 DEF TypeOK, ChildStep
<1>3. \A q \in Pid : os'[q] \in Live \cup {"zombie"} => os[q] \in Live \cup {"zombie"}
  BY <1>1 DEF TypeOK
<1>4. \A q \in Pid : os'[q] \in Live => os[q] \in Live
  BY <1>1 DEF TypeOK
<1>5. \A q \in Pid : os[q] = "none" => os'[q] = "none"
  BY <1>1 DEF TypeOK, Live
<1>6. ListedByProgram' /\ Quitting'
  BY <1>4 DEF ListedByProgram, Quitting, LiveChild, ChildStep
<1>7. ZombiesListed'
  BY <1>3 DEF ZombiesListed, ListedByProgram, LiveChild, ChildStep
<1>8. NoneStopped'
  BY <1>1 DEF NoneStopped, TypeOK, ChildStep
<1>9. Killing'
  BY <1>5 DEF Killing, ChildStep
<1> QED
  BY <1>2, <1>6, <1>7, <1>8, <1>9 DEF ChildStep, Starting, Restarting, Rebooting

LEMMA EnvironmentStep == ASSUME IInv, Environment PROVE IInv'
<1>1. CASE SigInt
  BY <1>1 DEF SigInt, IInv, TypeOK, ListedByProgram, ZombiesListed, NoneStopped, Starting,
              Killing, Restarting, Rebooting, Quitting, LiveChild
<1>2. CASE ChildExits
  <2>1. ChildStep(Live, "zombie")
    BY <1>2 DEF ChildExits
  <2> QED
    BY <2>1, ChildStepKeeps DEF ProcessState
<1>3. CASE ChildStops
  <2>1. setup.children_stop /\ ChildStep({"running"}, "stopping")
    BY <1>3 DEF ChildStops
  <2>2. {"running"} \in SUBSET Live
    BY DEF Live
  <2> QED
    BY <2>1, <2>2, ChildStepKeeps DEF ProcessState
<1>4. CASE ChildContinues
  <2>1. ChildStep({"stopping", "stopped"}, "running")
    BY <1>4 DEF ChildContinues
  <2>2. {"stopping", "stopped"} \in SUBSET Live
    BY DEF Live
  <2> QED
    BY <2>1, <2>2, ChildStepKeeps DEF ProcessState
<1> QED
  BY <1>1, <1>2, <1>3, <1>4 DEF Environment

\* Every step keeps the invariant.
LEMMA NextIInv == IInv /\ [Next]_vars => IInv'
<1> SUFFICES ASSUME IInv, [Next]_vars PROVE IInv'
  OBVIOUS
<1>1. CASE StartProcess
  BY <1>1, StartProcessStep
<1>2. CASE RestartProcess
  BY <1>2, RestartProcessStep
<1>3. CASE QuitForced
  BY <1>3, QuitForcedStep
<1>4. CASE Environment
  BY <1>4, EnvironmentStep
<1> USE DEF IInv, TypeOK, ListedByProgram, ZombiesListed, NoneStopped, Starting, Killing,
       Restarting, Rebooting, Quitting, LiveChild, Live, ProcessState, PcValues, Item, NextItem
<1>5. CASE ForkFailed
  BY <1>5 DEF ForkFailed
<1>6. CASE Loop
  BY <1>6 DEF Loop
<1>7. CASE PollNothing
  BY <1>7 DEF PollNothing
<1>8. CASE PollUnknown
  BY <1>8 DEF PollUnknown, Reported, waitpid
<1>9. CASE PollExited
  BY <1>9 DEF PollExited, Reported, waitpid
<1>10. CASE KillListItem
  BY <1>10 DEF KillListItem, SIGKILLed
<1>11. CASE QuitExited
  BY <1>11 DEF QuitExited, Reported, waitpid
<1>12. CASE UNCHANGED vars
  BY <1>12 DEF vars
<1> QED
  BY <1>1, <1>2, <1>3, <1>4, <1>5, <1>6, <1>7, <1>8, <1>9, <1>10, <1>11, <1>12
  DEF Next, main, Terminated

-----------------------------------------------------------------------------
\* The inductive invariant holds, for every list, pid space and environment.
THEOREM Invariance == Spec => []IInv
<1>1. Init => IInv
  BY InitIInv
<1>2. IInv /\ [Next]_vars => IInv'
  BY NextIInv
<1> QED
  BY <1>1, <1>2, PTL DEF Spec

\* guard knows the pid of every child it has to watch or kill.
THEOREM AllListed == Spec => []ChildrenListed
<1>1. IInv => ChildrenListed
  BY DEF IInv, TypeOK, ListedByProgram, ZombiesListed, ChildrenListed, LiveChild, Listed
<1> QED
  BY <1>1, Invariance, PTL

\* No program of the list ever runs twice.
THEOREM NeverTwice == Spec => []OneInstance
<1>1. IInv => OneInstance
  BY DEF IInv, ListedByProgram, OneInstance
<1> QED
  BY <1>1, Invariance, PTL

\* The machine is rebooted only when every process is dead.
THEOREM RebootIsLast == Spec => []RebootAfterKill
<1>1. IInv => RebootAfterKill
  BY DEF IInv, TypeOK, ListedByProgram, Rebooting, RebootAfterKill, LiveChild
<1> QED
  BY <1>1, Invariance, PTL

\* Quitting leaves no child behind, unless children are stopped.
THEOREM QuitIsClean == Spec => []QuitLeavesNone
<1>1. IInv => QuitLeavesNone
  BY DEF IInv, Quitting, QuitLeavesNone
<1> QED
  BY <1>1, Invariance, PTL
=============================================================================
