------------------------------- MODULE Guard -------------------------------
(***************************************************************************)
(* The process supervisor simple_apps/guard.c and the kernel's view of its *)
(* children.                                                               *)
(*                                                                         *)
(* guard starts the processes of its list, polls each of them every five   *)
(* seconds and restarts the process, or the machine, when one is down.  On *)
(* SIGINT it makes all of them quit.  Children exit, stop and continue at  *)
(* any time, so that the SIGINTs guard sends before a SIGKILL, which a     *)
(* child may obey or ignore, and the sleeps between them are no steps of   *)
(* their own.                                                              *)
(***************************************************************************)
EXTENDS Integers, FiniteSets

CONSTANTS
  g_process_num, \* the length of the list
  Pid,           \* the process ids the kernel has for children of guard
  INVALID_PID,   \* (pid_t)-1
  Setup          \* the environments considered: [restore_mode |-> the mode of each item,
                 \*   forks_fail |-> whether fork may fail,
                 \*   children_stop |-> whether a child may be stopped (SIGSTOP, SIGTSTP)]

Item == 1 .. g_process_num
RestoreMode == {"machine", "process"}

ASSUME GuardAssumption ==
  /\ g_process_num \in Nat \ {0}
  /\ INVALID_PID \notin Pid
  /\ Setup \subseteq [restore_mode : [Item -> RestoreMode],
                      forks_fail : BOOLEAN, children_stop : BOOLEAN]

VARIABLES
  setup,        \* the environment of this behaviour
  os,           \* for each pid: the state of the child that has it
  program,      \* for each pid: the item whose program the child runs
  pid,          \* for each item: the field pid of g_pt_process_list
  g_need_exit,
  pc,           \* where main is
  cur           \* the index i of the loop main is in

vars == <<setup, os, program, pid, g_need_exit, pc, cur>>

\* "stopping": stopped and not yet reported to waitpid; "stopped": reported.
ProcessState == {"none", "running", "stopping", "stopped", "zombie"}
Live == {"running", "stopping", "stopped"}
LiveChild == {p \in Pid : os[p] \in Live}

Init ==
  /\ setup \in Setup
  /\ os = [p \in Pid |-> "none"]
  /\ program = [p \in Pid |-> 1]
  /\ pid = [i \in Item |-> INVALID_PID]
  /\ g_need_exit = FALSE
  /\ pc = "start"
  /\ cur = 1

-----------------------------------------------------------------------------
\* Helpers.

\* Go on with the next item of a loop, or behind the loop.
NextItem(here, after) ==
  IF cur < g_process_num
  THEN pc' = here /\ cur' = cur + 1
  ELSE pc' = after /\ cur' = 1

\* The children that waitpid(q, &status, WNOHANG | WUNTRACED) may report: q = -1 stands
\* for any child.  Empty: it returns 0 or, when there is no such child, -1.
waitpid(q) ==
  {p \in Pid : os[p] \in {"zombie", "stopping"} /\ q \in {p, INVALID_PID}}

\* Fault: the status is read and the zombie left.
Reported_KeepsZombie(p) ==
  [os EXCEPT ![p] = IF @ = "zombie" THEN "zombie" ELSE "stopped"]

\* A zombie is gone once it has been reported.
Reported(p) == [os EXCEPT ![p] = IF @ = "zombie" THEN "none" ELSE "stopped"]

\* kill(q, SIGKILL), given the children's states; q = -1 is every process that guard may
\* signal.  A pid that was reaped is nobody's.
SIGKILLed(states, q) ==
  [p \in Pid |-> IF states[p] \in Live /\ q \in {p, INVALID_PID} THEN "zombie"
                 ELSE states[p]]

-----------------------------------------------------------------------------
\* start_process, called for each item by start_process_list and by restart_process.
\* fork gives any pid that nobody has.
StartProcess ==
  /\ pc \in {"start", "restart"}
  /\ \E p \in Pid :
       /\ os[p] = "none"
       /\ os' = [os EXCEPT ![p] = "running"]
       /\ program' = [program EXCEPT ![p] = cur]
       /\ pid' = [pid EXCEPT ![cur] = p]
  /\ NextItem(IF pc = "start" THEN "start" ELSE "poll", "loop")
  /\ UNCHANGED <<setup, g_need_exit>>

\* fork failed: the field pid stays INVALID_PID.
ForkFailed ==
  /\ setup.forks_fail
  /\ pc \in {"start", "restart"}
  /\ NextItem(IF pc = "start" THEN "start" ELSE "poll", "loop")
  /\ UNCHANGED <<setup, os, program, pid, g_need_exit>>

\* The label restart: of main.
Loop ==
  /\ pc = "loop"
  /\ pc' = IF g_need_exit THEN "quitting" ELSE "poll"
  /\ UNCHANGED <<setup, os, program, pid, g_need_exit, cur>>

\* process_exited: no child to report.
PollNothing ==
  /\ pc = "poll"
  /\ waitpid(pid[cur]) = {}
  /\ NextItem("poll", "loop")
  /\ UNCHANGED <<setup, os, program, pid, g_need_exit>>

\* process_exited of an item that has no process: any child is waited for, whose pid then
\* is not the item's: "unknown child down".
PollUnknown ==
  /\ pc = "poll"
  /\ pid[cur] = INVALID_PID
  /\ \E p \in waitpid(pid[cur]) : os' = Reported(p)
  /\ NextItem("poll", "loop")
  /\ UNCHANGED <<setup, program, pid, g_need_exit>>

\* Fault: a child that a signal ended does not count as exited.
PollExited_ExitCodeOnly ==
  /\ pc = "poll"
  /\ pid[cur] # INVALID_PID
  /\ pid[cur] \in waitpid(pid[cur])
  /\ os' = Reported(pid[cur])
  /\ \/ pc' = "kill" /\ cur' = cur
     \/ NextItem("poll", "loop")
  /\ UNCHANGED <<setup, program, pid, g_need_exit>>

\* process_exited: the item's process exited, was killed or was stopped.
PollExited ==
  /\ pc = "poll"
  /\ pid[cur] # INVALID_PID
  /\ pid[cur] \in waitpid(pid[cur])
  /\ os' = Reported(pid[cur])
  /\ pc' = "kill"
  /\ UNCHANGED <<setup, program, pid, g_need_exit, cur>>

\* Fault: a process that is down is taken to be dead.
RestartProcess_NoKill ==
  /\ pc = "kill"
  /\ pid' = [pid EXCEPT ![cur] = INVALID_PID]
  /\ IF setup.restore_mode[cur] = "machine"
     THEN pc' = "kill_all" /\ cur' = 1
     ELSE pc' = "restart" /\ cur' = cur
  /\ UNCHANGED <<setup, os, program, g_need_exit>>

\* restart_process: kill what is left of it, then restart the system or the process.
RestartProcess ==
  /\ pc = "kill"
  /\ os' = SIGKILLed(os, pid[cur])
  /\ pid' = [pid EXCEPT ![cur] = INVALID_PID]
  /\ IF setup.restore_mode[cur] = "machine"
     THEN pc' = "kill_all" /\ cur' = 1
     ELSE pc' = "restart" /\ cur' = cur
  /\ UNCHANGED <<setup, program, g_need_exit>>

\* Fault: kill_process_list ends at the first item that has no process.
KillListItem_Breaks ==
  /\ pc = "kill_all"
  /\ IF pid[cur] = INVALID_PID
     THEN pc' = "rebooted" /\ UNCHANGED <<os, pid, cur>>
     ELSE /\ os' = SIGKILLed(os, pid[cur])
          /\ pid' = [pid EXCEPT ![cur] = INVALID_PID]
          /\ NextItem("kill_all", "rebooted")
  /\ UNCHANGED <<setup, program, g_need_exit>>

\* kill_process_list, in restart_system.
KillListItem ==
  /\ pc = "kill_all"
  /\ os' = IF pid[cur] # INVALID_PID THEN SIGKILLed(os, pid[cur]) ELSE os
  /\ pid' = [pid EXCEPT ![cur] = INVALID_PID]
  /\ NextItem("kill_all", "rebooted")
  /\ UNCHANGED <<setup, program, g_need_exit>>

\* Quitting, an item whose process is reported: nothing to force.
QuitExited ==
  /\ pc = "quitting"
  /\ pid[cur] # INVALID_PID
  /\ pid[cur] \in waitpid(pid[cur])
  /\ os' = Reported(pid[cur])
  /\ NextItem("quitting", "quit")
  /\ UNCHANGED <<setup, program, pid, g_need_exit>>

\* Fault: the SIGINTs are taken to be enough.
QuitForced_Trusts ==
  /\ pc = "quitting"
  /\ pid[cur] \notin waitpid(pid[cur])
  /\ NextItem("quitting", "quit")
  /\ UNCHANGED <<setup, os, program, pid, g_need_exit>>

\* Quitting, any other item: force it to quit.  For an item that has no process,
\* process_exited may reap another child, and kill(-1, SIGKILL) reaches all of them.
QuitForced ==
  /\ pc = "quitting"
  /\ \/ /\ waitpid(pid[cur]) = {}
        /\ os' = SIGKILLed(os, pid[cur])
     \/ /\ pid[cur] = INVALID_PID
        /\ \E p \in waitpid(pid[cur]) : os' = SIGKILLed(Reported(p), pid[cur])
  /\ NextItem("quitting", "quit")
  /\ UNCHANGED <<setup, program, pid, g_need_exit>>

-----------------------------------------------------------------------------
\* The environment.

\* sig_handler.
SigInt ==
  /\ pc \notin {"quit", "rebooted"}
  /\ ~g_need_exit
  /\ g_need_exit' = TRUE
  /\ UNCHANGED <<setup, os, program, pid, pc, cur>>

ChildStep(from, to) ==
  /\ pc # "rebooted"
  /\ \E p \in Pid : os[p] \in from /\ os' = [os EXCEPT ![p] = to]
  /\ UNCHANGED <<setup, program, pid, g_need_exit, pc, cur>>

ChildExits == ChildStep(Live, "zombie")
ChildStops == setup.children_stop /\ ChildStep({"running"}, "stopping")
ChildContinues == ChildStep({"stopping", "stopped"}, "running")

\* guard is gone.
Terminated == pc \in {"quit", "rebooted"} /\ UNCHANGED vars

-----------------------------------------------------------------------------
main ==
  \/ StartProcess \/ ForkFailed \/ Loop
  \/ PollNothing \/ PollUnknown \/ PollExited
  \/ RestartProcess \/ KillListItem
  \/ QuitExited \/ QuitForced

Environment == SigInt \/ ChildExits \/ ChildStops \/ ChildContinues

Next == main \/ Environment \/ Terminated

\* main is one thread whose calls all return: waitpid has WNOHANG, the sleeps end.
Spec == Init /\ [][Next]_vars /\ WF_vars(main)

-----------------------------------------------------------------------------
\* Properties.

PcValues == {"start", "loop", "poll", "kill", "restart", "kill_all", "rebooted",
             "quitting", "quit"}

\* The types of the variables.
TypeOK ==
  /\ setup \in Setup
  /\ os \in [Pid -> ProcessState]
  /\ program \in [Pid -> Item]
  /\ pid \in [Item -> Pid \cup {INVALID_PID}]
  /\ g_need_exit \in BOOLEAN
  /\ pc \in PcValues
  /\ cur \in Item

Listed(p) == \E i \in Item : pid[i] = p

\* guard knows the pid of every child it has started and not yet killed, so that no live
\* process is beyond its reach; and, unless children are stopped, of every zombie that it
\* has still to reap, so that zombies do not pile up.
ChildrenListed ==
  /\ \A p \in LiveChild : Listed(p)
  /\ ~setup.children_stop /\ pc \notin {"kill_all", "rebooted"} =>
       \A p \in Pid : os[p] = "zombie" => Listed(p)

\* A program never runs twice: restart_process does not start it before the old process
\* is dead, not even when that one was only stopped.
OneInstance ==
  \A p, q \in LiveChild : p # q => program[p] # program[q]

\* When restart_system reboots, every process of the list is dead.
RebootAfterKill == pc = "rebooted" => LiveChild = {}

\* When guard has quit after a SIGINT none of its children lives on.  A stopped one
\* would: it is reported to process_exited, and not forced to quit.
QuitLeavesNone == pc = "quit" /\ ~setup.children_stop => LiveChild = {}

\* A program that is down runs again, or the machine is restarted, or guard is told to
\* quit, provided that fork does not fail: each poll of the list notices what happened to
\* the children since the last.
Runs(i) == \E p \in Pid : os[p] = "running" /\ program[p] = i
Restarted ==
  \A i \in Item :
    (~Runs(i) /\ ~setup.forks_fail) ~> (Runs(i) \/ g_need_exit \/ pc = "rebooted")

\* The inductive invariant behind these: a child is listed under its own program, and
\* the loops leave nothing behind them.
ListedByProgram == \A p \in LiveChild : pid[program[p]] = p
ZombiesListed ==
  ~setup.children_stop /\ pc \notin {"kill_all", "rebooted"} =>
    \A p \in Pid : os[p] = "zombie" => pid[program[p]] = p
NoneStopped == ~setup.children_stop => \A p \in Pid : os[p] \notin {"stopping", "stopped"}
Starting ==
  /\ pc = "start" => \A i \in Item : i >= cur => pid[i] = INVALID_PID
  /\ pc = "loop" => cur = 1
Killing ==
  pc = "kill" => pid[cur] \in Pid /\ (~setup.children_stop => os[pid[cur]] = "none")
Restarting == pc = "restart" => pid[cur] = INVALID_PID
Rebooting ==
  /\ pc = "kill_all" => \A i \in Item : i < cur => pid[i] = INVALID_PID
  /\ pc = "rebooted" => \A i \in Item : pid[i] = INVALID_PID
Quitting ==
  ~setup.children_stop =>
    /\ pc = "quitting" => \A p \in LiveChild : program[p] >= cur
    /\ pc = "quit" => LiveChild = {}

IInv ==
  /\ TypeOK
  /\ ListedByProgram /\ ZombiesListed /\ NoneStopped
  /\ Starting /\ Killing /\ Restarting /\ Rebooting /\ Quitting

\* The log message of process_exited, "unknown child %u down": a child that is reported
\* and not restarted is not the process of an item of the list.
UnknownIsUnlisted ==
  [][\A p \in Pid :
       pc = "poll" /\ os[p] = "zombie" /\ os'[p] = "none" /\ pc' # "kill" => ~Listed(p)]_vars
=============================================================================
