---------------------------- MODULE DeviceModule ----------------------------
(* misc/kernel_dev_frm/kernel_dev_frm.c: a kernel module with a device     *)
(* that one process at a time may open, and a thread that keeps a work     *)
(* item, a tasklet and a timer running until the module is unloaded.       *)
EXTENDS Naturals, FiniteSets

CONSTANTS Proc, FILE_LEN    \* users of the device; sizeof(file_data)

None == "none"
DeviceAssumption == None \notin Proc
ASSUME DeviceAssumption

VARIABLES module,   \* pc of the_init and of the_exit; misc_register; shm
          owner,    \* the_mod_data.the_owner, by file
          files,    \* of each process: its file, its position, its mapping
          kthread,  \* the_thread_func, and kthread_should_stop
          deferred  \* the work queue, its item, the tasklet and the timer

deviceModule == <<module, owner, files, kthread, deferred>>
Closed == [state |-> "closed", pos |-> 0, mapped |-> FALSE]
Opened == {p \in Proc : files[p].state # "closed"}
-----------------------------------------------------------------------------
init_mod_data ==
  /\ module.pc = "out"
  /\ \/ module' = [module EXCEPT !.pc = "shm", !.shm = TRUE] /\ owner' = None
     \/ module' = [module EXCEPT !.pc = "failed"] /\ UNCHANGED owner
  /\ UNCHANGED <<files, kthread, deferred>>

(* Failing here leaves the shared pages allocated.                         *)
misc_register ==
  /\ module.pc = "shm"
  /\ \/ module' = [module EXCEPT !.pc = "registered", !.misc = TRUE]
     \/ module' = [module EXCEPT !.pc = "failed"]
  /\ UNCHANGED <<owner, files, kthread, deferred>>

(* The result of kthread_create is not looked at.                          *)
start_the_thread ==
  /\ module.pc = "registered"
  /\ \/ module' = [module EXCEPT !.pc = "in"] /\ kthread' = [kthread EXCEPT !.pc = "created"]
     \/ module' = [module EXCEPT !.pc = "crashed"] /\ UNCHANGED kthread
  /\ UNCHANGED <<owner, files, deferred>>

(* rmmod is refused while a file is open or mapped; then kthread_stop.     *)
kthread_stop ==
  /\ module.pc = "in" /\ Opened = {}
  /\ module' = [module EXCEPT !.pc = "stopping"]
  /\ kthread' = [kthread EXCEPT !.stop = TRUE, !.pc = IF @ = "created" THEN "over" ELSE @]
  /\ UNCHANGED <<owner, files, deferred>>

misc_deregister ==
  /\ module.pc = "stopping" /\ kthread.pc = "over"
  /\ module' = [module EXCEPT !.pc = "deregistered", !.misc = FALSE]
  /\ UNCHANGED <<owner, files, kthread, deferred>>

deinit_mod_data ==
  /\ module.pc = "deregistered" /\ module' = [module EXCEPT !.pc = "gone", !.shm = FALSE] /\ owner' = None
  /\ UNCHANGED <<files, kthread, deferred>>
-----------------------------------------------------------------------------
(* The file operations. the_open is refused by the kernel once the module  *)
(* is going, and by the_mod_data's owner; its lock makes it one step.      *)
Free == owner = None

the_open(p) ==
  /\ module.misc /\ module.pc \in {"registered", "in"} /\ p \notin Opened /\ Free
  /\ owner' = p /\ files' = [files EXCEPT ![p].state = "open"]
  /\ UNCHANGED <<module, kthread, deferred>>

(* The last reference to the file goes when it is closed and not mapped.   *)
the_release(p) ==
  /\ files[p].state = "open" /\ files' = [files EXCEPT ![p] = Closed] /\ owner' = None
  /\ UNCHANGED <<module, kthread, deferred>>

(* condition_ok is never set: a writer sleeps until it is woken or signalled.*)
the_write(p) ==
  /\ files[p].state \in {"open", "sleeps"}
  /\ files' = [files EXCEPT ![p].state = IF @ = "open" THEN "sleeps" ELSE "open"]
  /\ UNCHANGED <<module, owner, kthread, deferred>>

the_read(p) ==
  /\ files[p].state = "open" /\ files[p].pos < FILE_LEN
  /\ \E n \in 1..(FILE_LEN - files[p].pos) : files' = [files EXCEPT ![p].pos = @ + n]
  /\ UNCHANGED <<module, owner, kthread, deferred>>

(* An offset beyond the data wraps data_left: what is copied lies anywhere *)
(* behind the data, and may not be there.                                  *)
the_pread(p) ==
  /\ files[p].state = "open" /\ module' = [module EXCEPT !.pc = "crashed"]
  /\ UNCHANGED <<owner, files, kthread, deferred>>

the_mmap(p) ==
  /\ files[p].state = "open" /\ files' = [files EXCEPT ![p].mapped = TRUE]
  /\ UNCHANGED <<module, owner, kthread, deferred>>
-----------------------------------------------------------------------------
(* the_thread_func. A work queue that could not be allocated is used.      *)
ThreadStarts ==
  /\ module.pc # "crashed" /\ kthread.pc = "created"
  /\ \/ /\ kthread' = [kthread EXCEPT !.pc = "loop"]
        /\ deferred' = [deferred EXCEPT !.workq = TRUE, !.timer = TRUE] /\ UNCHANGED module
     \/ module' = [module EXCEPT !.pc = "crashed"] /\ UNCHANGED <<kthread, deferred>>
  /\ UNCHANGED <<owner, files>>

(* INIT_WORK on an item that is still queued breaks the queue's list.      *)
ThreadRound ==
  /\ module.pc # "crashed" /\ kthread.pc = "loop" /\ ~kthread.stop
  /\ IF deferred.work = "queued" THEN module' = [module EXCEPT !.pc = "crashed"] /\ UNCHANGED deferred
     ELSE deferred' = [deferred EXCEPT !.work = "queued", !.tasklet = TRUE] /\ UNCHANGED module
  /\ kthread' = [kthread EXCEPT !.pc = "sleeps"]
  /\ UNCHANGED <<owner, files>>

(* msleep is not interrupted by kthread_stop.                              *)
ThreadWakes ==
  /\ kthread.pc = "sleeps" /\ kthread' = [kthread EXCEPT !.pc = "loop"]
  /\ UNCHANGED <<module, owner, files, deferred>>

deinit_hrtimer ==
  /\ kthread.pc = "loop" /\ kthread.stop /\ deferred.timer
  /\ deferred' = [deferred EXCEPT !.timer = FALSE]
  /\ UNCHANGED <<module, owner, files, kthread>>

(* tasklet_kill and destroy_workqueue wait for what is scheduled.          *)
\* Fault: the tasklet is left as it is.
deinit_tasklet_Not == kthread.pc = "loop" /\ kthread.stop /\ ~deferred.timer
deinit_tasklet == kthread.pc = "loop" /\ kthread.stop /\ ~deferred.timer /\ ~deferred.tasklet

ThreadEnds ==
  /\ deinit_tasklet /\ deferred.work = "idle"
  /\ deferred' = [deferred EXCEPT !.workq = FALSE] /\ kthread' = [kthread EXCEPT !.pc = "over"]
  /\ UNCHANGED <<module, owner, files>>

(* The callbacks.                                                          *)
the_work_func ==
  /\ deferred.work = "queued" /\ deferred' = [deferred EXCEPT !.work = "idle"]
  /\ UNCHANGED <<module, owner, files, kthread>>

tasklet_func ==
  /\ deferred.tasklet /\ deferred' = [deferred EXCEPT !.tasklet = FALSE]
  /\ UNCHANGED <<module, owner, files, kthread>>
-----------------------------------------------------------------------------
DeviceInit ==
  /\ module = [pc |-> "out", misc |-> FALSE, shm |-> FALSE] /\ owner = None
  /\ files = [p \in Proc |-> Closed] /\ kthread = [pc |-> "none", stop |-> FALSE]
  /\ deferred = [workq |-> FALSE, work |-> "idle", tasklet |-> FALSE, timer |-> FALSE]

DeviceNext ==
  \/ init_mod_data \/ misc_register \/ start_the_thread
  \/ kthread_stop \/ misc_deregister \/ deinit_mod_data
  \/ ThreadStarts \/ ThreadRound \/ ThreadWakes \/ deinit_hrtimer \/ ThreadEnds
  \/ the_work_func \/ tasklet_func
  \/ \E p \in Proc : the_open(p) \/ the_release(p) \/ the_write(p) \/ the_read(p) \/ the_pread(p) \/ the_mmap(p)
-----------------------------------------------------------------------------
(* One process at most has the device, and it is the owner, whatever the   *)
(* order of opening, sleeping and closing; and once the module is gone, or *)
(* has failed, nothing of it can still be called.                          *)
DeviceQuiet ==
  /\ Opened = (IF owner = None THEN {} ELSE {owner})
  /\ (\E p \in Proc : files[p].mapped) => module.shm
  /\ module.pc = "gone" =>
       /\ Opened = {} /\ ~module.misc /\ ~module.shm /\ kthread.pc = "over"
       /\ deferred = [workq |-> FALSE, work |-> "idle", tasklet |-> FALSE, timer |-> FALSE]
=============================================================================
