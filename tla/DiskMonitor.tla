----------------------------- MODULE DiskMonitor -----------------------------
(* simple_apps/disk_monitor.c, a process that deletes the oldest log file  *)
(* as long as the disk is low, next to a program with a log and a          *)
(* configuration on that disk and others that come and go.                 *)
EXTENDS ConfigFile

CONSTANTS g_fs_space_threshold, OtherUnits   \* units; what others may use

MonitorAssumption == g_fs_space_threshold \in Nat /\ OtherUnits \subseteq Nat
ASSUME MonitorAssumption

VARIABLES mpc, NeedExit,   \* where the monitor is; SIGINT has come
          deletable        \* the list of names can be made and opened, and a name of it unlinked

monitor == <<mpc, NeedExit, deletable>>
vars == <<up, now, log, others, events, config, monitor>>
-----------------------------------------------------------------------------
(* A disk without any free unit is taken for an error of statfs.           *)
space_under_water_level == Room > 0 /\ Room < g_fs_space_threshold

Oldest == Head(order)

\* Fault: the name that was read is not used.
delete_the_oldest_file_Nothing == UNCHANGED log

(* An error is logged, or in the case of unlink not even noticed.          *)
delete_the_oldest_file ==
  IF order = <<>> \/ ~deletable THEN UNCHANGED log
  ELSE /\ order' = Tail(order)
       /\ name' = [name EXCEPT ![Oldest] = NONE]
       /\ UNCHANGED <<size, fd_log_file, leaked, lpc>>

TenSeconds ==
  /\ mpc = "sleep" /\ mpc' = IF NeedExit THEN "quit" ELSE "loop"
  /\ UNCHANGED <<up, now, log, others, events, config, NeedExit, deletable>>

LoopEnds ==
  /\ mpc = "loop" /\ ~space_under_water_level /\ mpc' = "sleep"
  /\ UNCHANGED <<up, now, log, others, events, config, NeedExit, deletable>>

DeleteFile ==
  /\ mpc = "loop" /\ space_under_water_level /\ delete_the_oldest_file
  /\ UNCHANGED <<up, now, others, events, config, monitor>>

main == TenSeconds \/ LoopEnds \/ DeleteFile

SigInt ==
  /\ Event /\ ~NeedExit /\ NeedExit' = TRUE
  /\ UNCHANGED <<up, now, log, others, config, mpc, deletable>>
-----------------------------------------------------------------------------
(* The program, its clock and the other files.                             *)

LogStep(t) ==
  /\ t = Main /\ lpc[t] = "idle" => cpc = "idle"
  /\ write_file(t, Room)
  /\ UNCHANGED <<now, others, events, config, monitor>>

ConfigStep ==
  /\ up /\ UNCHANGED <<now, others, monitor>>
  /\ \/ /\ SetCall \/ set_config_var2 \/ OpenTmp \/ WriteTmp \/ RenameTmp \/ Restore
        /\ UNCHANGED <<up, log>>
     \/ LogFailure

Crash == Event /\ up /\ Stop /\ UNCHANGED <<now, others, config, monitor>>

Start ==
  /\ ~up /\ up' = TRUE /\ init_log /\ parse_config_file
  /\ UNCHANGED <<now, others, events, monitor>>

Tick ==
  /\ Event /\ now' = now + 1
  /\ UNCHANGED <<up, log, others, config, monitor>>

OthersWrite ==
  /\ Event /\ others' \in OtherUnits /\ others' <= others + Room
  /\ UNCHANGED <<up, now, log, config, monitor>>

(* tmp_dir is removed or made, a permission or descriptors run out.        *)
DeletingChanges ==
  /\ Event /\ deletable' = ~deletable
  /\ UNCHANGED <<up, now, log, others, config, mpc, NeedExit>>

Init ==
  /\ file \in ConfigLines /\ file_tmp = NONE /\ ga_variables = Column(Parse(file), "var")
  /\ ga_values = Column(Parse(file), "value") /\ ga_values_backup = ga_values
  /\ cpc = "idle" /\ arg = <<>> /\ staged = {} /\ torn = FALSE
  /\ up = FALSE /\ now = 0 /\ events = 0 /\ name = [i \in Inode |-> NONE] /\ size = [i \in Inode |-> 0]
  /\ order = <<>> /\ fd_log_file = NONE /\ leaked = {} /\ lpc = Idle /\ others = 0
  /\ mpc = "sleep" /\ NeedExit = FALSE /\ deletable \in BOOLEAN

Next ==
  \/ main \/ SigInt \/ (\E t \in Thread : LogStep(t)) \/ ConfigStep
  \/ Crash \/ Start \/ Tick \/ OthersWrite \/ DeletingChanges

Spec == Init /\ [][Next]_vars /\ WF_vars(main)
-----------------------------------------------------------------------------
(* The monitor does not get stuck: as long as the disk is low, but not     *)
(* full, or SIGINT has not ended it, it deletes logs again and again, which *)
(* a program that logs fast enough can make it do for ever; or there is    *)
(* again and again nothing to delete, or no way to: no list can be opened  *)
(* (disk_monitor.c:97), or the name in it not unlinked (108). In these two *)
(* cases the inner loop of main spins, whatever NeedExit says.             *)
MonitorGetsOn ==
  <>[](mpc # "quit" /\ (NeedExit \/ space_under_water_level))
    => []<><<DeleteFile>>_vars \/ []<>(order = <<>>) \/ []<>~deletable
=============================================================================
