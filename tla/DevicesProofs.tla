--------------------------- MODULE DevicesProofs ---------------------------
(* What MCDevices checks, for every value of the constants: any number of  *)
(* CPUs, disks, segments and processes, lines and histories of any length, *)
(* any second and any command line, bits, windows and files of any length. *)
(* Each program has an inductive invariant of its own, and the steps of    *)
(* the others leave its state alone.                                       *)
EXTENDS MCDevices, Integers, SequenceTheorems, FiniteSetTheorems, WellFoundedInduction, TLAPS
-----------------------------------------------------------------------------
(* drop_packets: which CPUs may be in the handler, and what the grace      *)
(* periods have seen the end of, follow from how far the module has come.  *)

HandlerSet == {"registered", "flagged", "in", "rollback"}
Waiting == {"exit1", "back1"}
Allocated == {"allocated", "got"} \cup HandlerSet \cup Waiting \cup {"exit2", "back2", "exit3", "back3"}

DropTypes ==
  /\ dpc \in {"out", "gone", "failed"} \cup Allocated
  /\ pt_netif \in {"none", "allocated", "freed"}
  /\ dev \in [ref : {0, 1}, flag : BOOLEAN, orig : BOOLEAN, handler : BOOLEAN, data : BOOLEAN]
  /\ cpu \in [Cpu -> {"idle", "handler", "counts", "drops"}]

DropInv ==
  /\ DropTypes
  /\ dpc \in Allocated => pt_netif = "allocated"
  /\ pt_netif = "freed" => dpc \in {"gone", "failed"} /\ dev.ref = 0 /\ dev.flag = dev.orig
  /\ dpc = "gone" => pt_netif = "freed"
  /\ dev.handler => dpc \in HandlerSet
  /\ dpc \in Waiting => InHandler \subseteq grace
  /\ dpc \notin HandlerSet \cup Waiting => InHandler = {}
  /\ dev.orig => dev.flag
  /\ dpc \in {"out", "allocated"} => ~dev.orig
  /\ dpc \in Waiting \cup {"exit2", "back2", "exit3", "back3"} => dev.flag = dev.orig
  /\ dpc \in {"exit3", "back3"} => dev.ref = 0

LEMMA DropHolds == DropInv => DropQuiet
BY DEF DropInv, DropTypes, DropQuiet, InHandler, HandlerSet, Waiting, Allocated

LEMMA DropInitially == DropInit => DropInv
<1> SUFFICES ASSUME DropInit PROVE DropInv
  OBVIOUS
<1>1. DropTypes
  <2>1. dev \in [ref : {0, 1}, flag : BOOLEAN, orig : BOOLEAN, handler : BOOLEAN, data : BOOLEAN]
    BY DEF DropInit
  <2>2. cpu \in [Cpu -> {"idle", "handler", "counts", "drops"}]
    BY DEF DropInit
  <2>3. dpc = "out" /\ pt_netif = "none"
    BY DEF DropInit
  <2> QED BY <2>1, <2>2, <2>3 DEF DropTypes
<1>2. InHandler = {} BY DEF DropInit, InHandler
<1>3. ~dev.handler /\ ~dev.orig /\ dpc = "out" /\ pt_netif = "none" BY DEF DropInit
<1> QED BY <1>1, <1>2, <1>3 DEF DropInv, HandlerSet, Waiting, Allocated

\* Steps of the module itself leave the CPUs where they are.
LEMMA DropModuleStep ==
  ASSUME DropInv, UNCHANGED cpu,
         \/ AllocInfo \/ get_netif_info \/ netdev_rx_handler_register \/ DisableNetpoll \/ TestNpinfo
         \/ Unregister \/ ClearData \/ dev_put \/ FreeInfo \/ NetpollSetup
  PROVE  DropInv'
<1> USE DEF HandlerSet, Waiting, Allocated
<1>0. InHandler' = InHandler BY DEF InHandler
<1>1. CASE AllocInfo BY <1>0, <1>1 DEF AllocInfo, DropInv, DropTypes
<1>2. CASE get_netif_info
  <2>1. CASE dpc' = "failed" BY <1>0, <1>2, <2>1 DEF get_netif_info, DropInv, DropTypes
  <2>2. CASE dpc' = "got" /\ dev' = [dev EXCEPT !.ref = 1, !.orig = dev.flag]
    <3>1. dpc = "allocated" /\ UNCHANGED <<netpoll, pt_netif, grace>> BY <1>2 DEF get_netif_info
    <3>2. DropTypes' BY <2>2, <3>1 DEF DropInv, DropTypes
    <3>3. dev'.orig = dev.flag /\ dev'.flag = dev.flag /\ dev'.handler = dev.handler
      BY <2>2 DEF DropInv, DropTypes
    <3> QED BY <1>0, <2>2, <3>1, <3>2, <3>3 DEF DropInv
  <2> QED BY <1>2, <2>1, <2>2 DEF get_netif_info
<1>3. CASE netdev_rx_handler_register
  <2>1. CASE dpc' = "failed" BY <1>0, <1>3, <2>1 DEF netdev_rx_handler_register, DropInv, DropTypes
  <2>2. CASE dpc' = "registered" /\ dev' = [dev EXCEPT !.handler = TRUE, !.data = TRUE]
    <3>1. dpc = "got" /\ UNCHANGED <<netpoll, pt_netif, grace>> BY <1>3 DEF netdev_rx_handler_register
    <3>2. DropTypes' BY <2>2, <3>1 DEF DropInv, DropTypes
    <3>3. dev'.orig = dev.orig /\ dev'.flag = dev.flag /\ dev'.handler
      BY <2>2 DEF DropInv, DropTypes
    <3> QED BY <1>0, <2>2, <3>1, <3>2, <3>3 DEF DropInv
  <2> QED BY <1>3, <2>1, <2>2 DEF netdev_rx_handler_register
<1>4. CASE DisableNetpoll
  <2>1. dpc = "registered" /\ UNCHANGED <<netpoll, pt_netif, grace>>
    BY <1>4 DEF DisableNetpoll
  <2>2. CASE dpc' = "in" /\ UNCHANGED dev
    BY <1>0, <2>1, <2>2 DEF DropInv, DropTypes
  <2>3. CASE dpc' = "flagged" /\ dev' = [dev EXCEPT !.flag = TRUE]
    <3>1. DropTypes' BY <2>1, <2>3 DEF DropInv, DropTypes
    <3>2. dev'.orig = dev.orig /\ dev'.flag = TRUE /\ dev'.handler = dev.handler
      BY <2>3 DEF DropInv, DropTypes
    <3> QED BY <1>0, <2>1, <2>3, <3>1, <3>2 DEF DropInv
  <2> QED BY <1>4, <2>2, <2>3 DEF DisableNetpoll
<1>5. CASE TestNpinfo BY <1>0, <1>5 DEF TestNpinfo, DropInv, DropTypes
<1>6. CASE Unregister
  <2>1. /\ dpc \in {"in", "rollback"} /\ dpc' \in {"exit1", "back1"} /\ grace' = InHandler
        /\ UNCHANGED <<netpoll, pt_netif>>
        /\ dev' = [dev EXCEPT !.flag = IF dev.orig THEN dev.flag ELSE FALSE, !.handler = FALSE]
    BY <1>6 DEF Unregister, Leaving, Then, RestoreFlag
  <2>2. dev' = [dev EXCEPT !.flag = dev.orig, !.handler = FALSE]
    <3>1. dev.orig \in BOOLEAN /\ dev.flag \in BOOLEAN /\ (dev.orig => dev.flag)
      BY DEF DropInv, DropTypes
    <3>2. (IF dev.orig THEN dev.flag ELSE FALSE) = dev.orig
      BY <3>1, Zenon
    <3> QED BY <2>1, <3>2
  <2>3. DropTypes' BY <2>1, <2>2 DEF DropInv, DropTypes
  <2>4. dev'.orig = dev.orig /\ dev'.flag = dev.orig /\ dev'.handler = FALSE
    BY <2>2 DEF DropInv, DropTypes
  <2> QED BY <1>0, <2>1, <2>3, <2>4 DEF DropInv
<1>7. CASE ClearData
  <2>1. /\ dpc \in {"exit1", "back1"} /\ dpc' \in {"exit2", "back2"} /\ grace = {}
        /\ UNCHANGED <<netpoll, pt_netif, grace>> /\ dev' = [dev EXCEPT !.data = FALSE]
    BY <1>7 DEF ClearData, Then
  <2>2. InHandler = {} BY <2>1 DEF DropInv
  <2>3. DropTypes'
    <3>1. dev' \in [ref : {0, 1}, flag : BOOLEAN, orig : BOOLEAN, handler : BOOLEAN, data : BOOLEAN]
      BY <2>1 DEF DropInv, DropTypes
    <3> QED BY <2>1, <3>1 DEF DropInv, DropTypes
  <2>4. dev'.orig = dev.orig /\ dev'.flag = dev.flag /\ dev'.handler = dev.handler
    BY <2>1 DEF DropInv, DropTypes
  <2> QED BY <1>0, <2>1, <2>2, <2>3, <2>4 DEF DropInv
<1>8. CASE dev_put
  <2>1. /\ dpc \in {"exit2", "back2"} /\ dpc' \in {"exit3", "back3"}
        /\ UNCHANGED <<netpoll, pt_netif>> /\ dev' = [dev EXCEPT !.ref = 0]
    BY <1>8 DEF dev_put, Then
  <2>2. DropTypes' BY <2>1 DEF DropInv, DropTypes
  <2>3. /\ dev'.orig = dev.orig /\ dev'.flag = dev.flag /\ dev'.handler = dev.handler
        /\ dev'.ref = 0
    BY <2>1 DEF DropInv, DropTypes
  <2> QED BY <1>0, <2>1, <2>2, <2>3 DEF DropInv
<1>9. CASE FreeInfo BY <1>0, <1>9 DEF FreeInfo, DropInv, DropTypes
<1>10. CASE NetpollSetup BY <1>0, <1>10 DEF NetpollSetup, DropInv, DropTypes
<1> QED
  BY <1>1, <1>2, <1>3, <1>4, <1>5, <1>6, <1>7, <1>8, <1>9, <1>10

LEMMA DropStep == ASSUME DropInv, DropNext PROVE DropInv'
<1> USE DEF DropInv, DropTypes, InHandler, HandlerSet, Waiting, Allocated
<1>1. ASSUME NEW c \in Cpu, Receive(c) PROVE DropInv'
  BY <1>1 DEF Receive
<1>2. ASSUME NEW c \in Cpu, netif_info_get_rcu(c) PROVE DropInv'
  BY <1>2 DEF netif_info_get_rcu
<1>3. ASSUME NEW c \in Cpu, drop_packet(c) PROVE DropInv'
  BY <1>3 DEF drop_packet
<1>4. CASE \/ AllocInfo \/ get_netif_info \/ netdev_rx_handler_register \/ DisableNetpoll \/ TestNpinfo
           \/ Unregister \/ ClearData \/ dev_put \/ FreeInfo \/ NetpollSetup
  <2>1. UNCHANGED cpu
    BY <1>4 DEF AllocInfo, get_netif_info, netdev_rx_handler_register, DisableNetpoll, TestNpinfo,
                Unregister, ClearData, dev_put, FreeInfo, NetpollSetup
  <2> QED BY <1>4, <2>1, DropModuleStep
<1> QED
  BY <1>1, <1>2, <1>3, <1>4 DEF DropNext
-----------------------------------------------------------------------------
(* kernel_dev_frm: a file is open exactly for the owner, and the deferred  *)
(* work is at rest before the thread starts and once it is over.           *)

AtRest == [workq |-> FALSE, work |-> "idle", tasklet |-> FALSE, timer |-> FALSE]
Out == {"out", "shm", "failed"}
Gone == {"deregistered", "gone"}

DeviceTypes ==
  /\ module \in [pc : Out \cup Gone \cup {"registered", "in", "stopping", "crashed"},
                 misc : BOOLEAN, shm : BOOLEAN]
  /\ owner \in Proc \cup {None}
  /\ files \in [Proc -> [state : {"closed", "open", "sleeps"}, pos : Int, mapped : BOOLEAN]]
  /\ kthread \in [pc : {"none", "created", "loop", "sleeps", "over"}, stop : BOOLEAN]
  /\ deferred \in [workq : BOOLEAN, work : {"idle", "queued"}, tasklet : BOOLEAN, timer : BOOLEAN]

OwnerHasIt ==
  /\ \A p \in Proc : files[p].state # "closed" <=> owner = p
  /\ \A p \in Proc : files[p].mapped => owner = p
  /\ owner # None => module.pc \in {"registered", "in", "crashed"}

ThreadAtRest ==
  /\ module.pc \in Out \cup {"registered"} => kthread.pc = "none" /\ ~kthread.stop
  /\ module.pc = "in" => kthread.pc \in {"created", "loop", "sleeps"} /\ ~kthread.stop
  /\ module.pc \in Gone => kthread.pc = "over" /\ ~module.misc
  /\ module.pc = "gone" => ~module.shm
  /\ module.pc \in {"shm", "registered", "in", "stopping", "crashed"} => module.shm
  /\ kthread.pc \in {"none", "created", "over"} => deferred = AtRest
  /\ module.pc = "stopping" => kthread.stop

DeviceInv == DeviceTypes /\ OwnerHasIt /\ ThreadAtRest

LEMMA DeviceHolds == DeviceInv => DeviceQuiet
<1> SUFFICES ASSUME DeviceInv PROVE DeviceQuiet
  OBVIOUS
<1>1. Opened = (IF owner = None THEN {} ELSE {owner})
  BY DeviceAssumption DEF DeviceAssumption, DeviceInv, DeviceTypes, OwnerHasIt, Opened
<1>2. (\E p \in Proc : files[p].mapped) => module.shm
  BY DeviceAssumption DEF DeviceAssumption, DeviceInv, OwnerHasIt, ThreadAtRest
<1>3. module.pc = "gone" => owner = None
  BY DEF DeviceInv, OwnerHasIt
<1> QED BY <1>1, <1>2, <1>3 DEF DeviceQuiet, DeviceInv, ThreadAtRest, AtRest, Gone

LEMMA DeviceInitially == DeviceInit => DeviceInv
<1> SUFFICES ASSUME DeviceInit PROVE DeviceInv
  OBVIOUS
<1>1. DeviceTypes
  <2>1. module = [pc |-> "out", misc |-> FALSE, shm |-> FALSE] /\ owner = None
    BY DEF DeviceInit
  <2>2. files \in [Proc -> [state : {"closed", "open", "sleeps"}, pos : Int, mapped : BOOLEAN]]
    BY DEF DeviceInit, Closed
  <2>3. kthread \in [pc : {"none", "created", "loop", "sleeps", "over"}, stop : BOOLEAN]
    BY DEF DeviceInit
  <2>4. deferred \in [workq : BOOLEAN, work : {"idle", "queued"}, tasklet : BOOLEAN, timer : BOOLEAN]
    BY DEF DeviceInit
  <2> QED BY <2>1, <2>2, <2>3, <2>4 DEF DeviceTypes, Out, Gone
<1>2. OwnerHasIt BY DeviceAssumption DEF DeviceAssumption, DeviceInit, OwnerHasIt, Closed
<1>3. ThreadAtRest BY DEF DeviceInit, ThreadAtRest, AtRest, Out, Gone
<1> QED BY <1>1, <1>2, <1>3 DEF DeviceInv

\* the_init and the_exit.
LEMMA DeviceModuleSteps ==
  ASSUME DeviceInv, init_mod_data \/ misc_register \/ start_the_thread \/ kthread_stop \/ misc_deregister \/ deinit_mod_data
  PROVE  DeviceInv'
<1>1. CASE init_mod_data
  <2>1. DeviceTypes' BY <1>1, DeviceAssumption DEF DeviceAssumption, DeviceInv, DeviceTypes, Out, Gone, init_mod_data
  <2>2. OwnerHasIt' BY <1>1, DeviceAssumption DEF DeviceAssumption, DeviceInv, DeviceTypes, OwnerHasIt, Out, Gone, init_mod_data
  <2>3. ThreadAtRest' BY <1>1 DEF DeviceInv, DeviceTypes, OwnerHasIt, ThreadAtRest, AtRest, Out, Gone, init_mod_data
  <2> QED BY <2>1, <2>2, <2>3 DEF DeviceInv
<1>2. CASE misc_register
  <2>1. DeviceTypes' BY <1>2, DeviceAssumption DEF DeviceAssumption, DeviceInv, DeviceTypes, Out, Gone, misc_register
  <2>2. OwnerHasIt' BY <1>2, DeviceAssumption DEF DeviceAssumption, DeviceInv, DeviceTypes, OwnerHasIt, Out, Gone, misc_register
  <2>3. ThreadAtRest' BY <1>2 DEF DeviceInv, DeviceTypes, OwnerHasIt, ThreadAtRest, AtRest, Out, Gone, misc_register
  <2> QED BY <2>1, <2>2, <2>3 DEF DeviceInv
<1>3. CASE start_the_thread
  <2>1. DeviceTypes' BY <1>3, DeviceAssumption DEF DeviceAssumption, DeviceInv, DeviceTypes, Out, Gone, start_the_thread
  <2>2. OwnerHasIt' BY <1>3, DeviceAssumption DEF DeviceAssumption, DeviceInv, DeviceTypes, OwnerHasIt, Out, Gone, start_the_thread
  <2>3. ThreadAtRest' BY <1>3 DEF DeviceInv, DeviceTypes, OwnerHasIt, ThreadAtRest, AtRest, Out, Gone, start_the_thread
  <2> QED BY <2>1, <2>2, <2>3 DEF DeviceInv
<1>4. CASE kthread_stop
  <2>1. DeviceTypes' BY <1>4, DeviceAssumption DEF DeviceAssumption, DeviceInv, DeviceTypes, Out, Gone, kthread_stop, Opened
  <2>2. OwnerHasIt' BY <1>4, DeviceAssumption DEF DeviceAssumption, DeviceInv, DeviceTypes, OwnerHasIt, Out, Gone, kthread_stop, Opened
  <2>3. ThreadAtRest' BY <1>4 DEF DeviceInv, DeviceTypes, OwnerHasIt, ThreadAtRest, AtRest, Out, Gone, kthread_stop, Opened
  <2> QED BY <2>1, <2>2, <2>3 DEF DeviceInv
<1>5. CASE misc_deregister
  <2>1. DeviceTypes' BY <1>5, DeviceAssumption DEF DeviceAssumption, DeviceInv, DeviceTypes, Out, Gone, misc_deregister
  <2>2. OwnerHasIt' BY <1>5, DeviceAssumption DEF DeviceAssumption, DeviceInv, DeviceTypes, OwnerHasIt, Out, Gone, misc_deregister
  <2>3. ThreadAtRest' BY <1>5 DEF DeviceInv, DeviceTypes, OwnerHasIt, ThreadAtRest, AtRest, Out, Gone, misc_deregister
  <2> QED BY <2>1, <2>2, <2>3 DEF DeviceInv
<1>6. CASE deinit_mod_data
  <2>1. DeviceTypes' BY <1>6, DeviceAssumption DEF DeviceAssumption, DeviceInv, DeviceTypes, Out, Gone, deinit_mod_data
  <2>2. OwnerHasIt' BY <1>6, DeviceAssumption DEF DeviceAssumption, DeviceInv, DeviceTypes, OwnerHasIt, Out, Gone, deinit_mod_data
  <2>3. ThreadAtRest' BY <1>6 DEF DeviceInv, DeviceTypes, OwnerHasIt, ThreadAtRest, AtRest, Out, Gone, deinit_mod_data
  <2> QED BY <2>1, <2>2, <2>3 DEF DeviceInv
<1> QED BY <1>1, <1>2, <1>3, <1>4, <1>5, <1>6

\* The thread and what it defers.
LEMMA DeviceThreadSteps ==
  ASSUME DeviceInv, ThreadStarts \/ ThreadRound \/ ThreadWakes \/ deinit_hrtimer \/ ThreadEnds \/ the_work_func \/ tasklet_func
  PROVE  DeviceInv'
<1>1. CASE ThreadStarts
  <2>1. DeviceTypes' BY <1>1, DeviceAssumption DEF DeviceAssumption, DeviceInv, DeviceTypes, Out, Gone, ThreadStarts
  <2>2. OwnerHasIt' BY <1>1, DeviceAssumption DEF DeviceAssumption, DeviceInv, DeviceTypes, OwnerHasIt, Out, Gone, ThreadStarts
  <2>3. ThreadAtRest' BY <1>1 DEF DeviceInv, DeviceTypes, OwnerHasIt, ThreadAtRest, AtRest, Out, Gone, ThreadStarts
  <2> QED BY <2>1, <2>2, <2>3 DEF DeviceInv
<1>2. CASE ThreadRound
  <2>1. DeviceTypes' BY <1>2, DeviceAssumption DEF DeviceAssumption, DeviceInv, DeviceTypes, Out, Gone, ThreadRound
  <2>2. OwnerHasIt' BY <1>2, DeviceAssumption DEF DeviceAssumption, DeviceInv, DeviceTypes, OwnerHasIt, Out, Gone, ThreadRound
  <2>3. ThreadAtRest' BY <1>2 DEF DeviceInv, DeviceTypes, OwnerHasIt, ThreadAtRest, AtRest, Out, Gone, ThreadRound
  <2> QED BY <2>1, <2>2, <2>3 DEF DeviceInv
<1>3. CASE ThreadWakes
  <2>1. DeviceTypes' BY <1>3, DeviceAssumption DEF DeviceAssumption, DeviceInv, DeviceTypes, Out, Gone, ThreadWakes
  <2>2. OwnerHasIt' BY <1>3, DeviceAssumption DEF DeviceAssumption, DeviceInv, DeviceTypes, OwnerHasIt, Out, Gone, ThreadWakes
  <2>3. ThreadAtRest' BY <1>3 DEF DeviceInv, DeviceTypes, OwnerHasIt, ThreadAtRest, AtRest, Out, Gone, ThreadWakes
  <2> QED BY <2>1, <2>2, <2>3 DEF DeviceInv
<1>4. CASE deinit_hrtimer
  <2>1. DeviceTypes' BY <1>4, DeviceAssumption DEF DeviceAssumption, DeviceInv, DeviceTypes, Out, Gone, deinit_hrtimer
  <2>2. OwnerHasIt' BY <1>4, DeviceAssumption DEF DeviceAssumption, DeviceInv, DeviceTypes, OwnerHasIt, Out, Gone, deinit_hrtimer
  <2>3. ThreadAtRest' BY <1>4 DEF DeviceInv, DeviceTypes, OwnerHasIt, ThreadAtRest, AtRest, Out, Gone, deinit_hrtimer
  <2> QED BY <2>1, <2>2, <2>3 DEF DeviceInv
<1>5. CASE ThreadEnds
  <2>1. DeviceTypes' BY <1>5, DeviceAssumption DEF DeviceAssumption, DeviceInv, DeviceTypes, Out, Gone, ThreadEnds, deinit_tasklet
  <2>2. OwnerHasIt' BY <1>5, DeviceAssumption DEF DeviceAssumption, DeviceInv, DeviceTypes, OwnerHasIt, Out, Gone, ThreadEnds, deinit_tasklet
  <2>3. ThreadAtRest' BY <1>5 DEF DeviceInv, DeviceTypes, OwnerHasIt, ThreadAtRest, AtRest, Out, Gone, ThreadEnds, deinit_tasklet
  <2> QED BY <2>1, <2>2, <2>3 DEF DeviceInv
<1>6. CASE the_work_func
  <2>1. DeviceTypes' BY <1>6, DeviceAssumption DEF DeviceAssumption, DeviceInv, DeviceTypes, Out, Gone, the_work_func
  <2>2. OwnerHasIt' BY <1>6, DeviceAssumption DEF DeviceAssumption, DeviceInv, DeviceTypes, OwnerHasIt, Out, Gone, the_work_func
  <2>3. ThreadAtRest' BY <1>6 DEF DeviceInv, DeviceTypes, OwnerHasIt, ThreadAtRest, AtRest, Out, Gone, the_work_func
  <2> QED BY <2>1, <2>2, <2>3 DEF DeviceInv
<1>7. CASE tasklet_func
  <2>1. DeviceTypes' BY <1>7, DeviceAssumption DEF DeviceAssumption, DeviceInv, DeviceTypes, Out, Gone, tasklet_func
  <2>2. OwnerHasIt' BY <1>7, DeviceAssumption DEF DeviceAssumption, DeviceInv, DeviceTypes, OwnerHasIt, Out, Gone, tasklet_func
  <2>3. ThreadAtRest' BY <1>7 DEF DeviceInv, DeviceTypes, OwnerHasIt, ThreadAtRest, AtRest, Out, Gone, tasklet_func
  <2> QED BY <2>1, <2>2, <2>3 DEF DeviceInv
<1> QED BY <1>1, <1>2, <1>3, <1>4, <1>5, <1>6, <1>7

\* The file operations.
LEMMA DeviceFileSteps ==
  ASSUME DeviceInv, NEW p \in Proc, the_open(p) \/ the_release(p) \/ the_write(p) \/ the_read(p) \/ the_pread(p) \/ the_mmap(p)
  PROVE  DeviceInv'
<1>1. CASE the_open(p)
  <2>1. DeviceTypes' BY <1>1, DeviceAssumption DEF DeviceAssumption, DeviceInv, DeviceTypes, Out, Gone, the_open, Opened, Free
  <2>2. OwnerHasIt' BY <1>1, DeviceAssumption DEF DeviceAssumption, DeviceInv, DeviceTypes, OwnerHasIt, Out, Gone, the_open, Opened, Free
  <2>3. ThreadAtRest' BY <1>1 DEF DeviceInv, DeviceTypes, OwnerHasIt, ThreadAtRest, AtRest, Out, Gone, the_open, Opened, Free
  <2> QED BY <2>1, <2>2, <2>3 DEF DeviceInv
<1>2. CASE the_release(p)
  <2>1. DeviceTypes' BY <1>2, DeviceAssumption DEF DeviceAssumption, DeviceInv, DeviceTypes, Out, Gone, the_release, Closed
  <2>2. OwnerHasIt' BY <1>2, DeviceAssumption DEF DeviceAssumption, DeviceInv, DeviceTypes, OwnerHasIt, Out, Gone, the_release, Closed
  <2>3. ThreadAtRest' BY <1>2 DEF DeviceInv, DeviceTypes, OwnerHasIt, ThreadAtRest, AtRest, Out, Gone, the_release, Closed
  <2> QED BY <2>1, <2>2, <2>3 DEF DeviceInv
<1>3. CASE the_write(p)
  <2>1. DeviceTypes' BY <1>3, DeviceAssumption DEF DeviceAssumption, DeviceInv, DeviceTypes, Out, Gone, the_write
  <2>2. OwnerHasIt' BY <1>3, DeviceAssumption DEF DeviceAssumption, DeviceInv, DeviceTypes, OwnerHasIt, Out, Gone, the_write
  <2>3. ThreadAtRest' BY <1>3 DEF DeviceInv, DeviceTypes, OwnerHasIt, ThreadAtRest, AtRest, Out, Gone, the_write
  <2> QED BY <2>1, <2>2, <2>3 DEF DeviceInv
<1>4. CASE the_read(p)
  <2>1. DeviceTypes' BY <1>4, DeviceAssumption DEF DeviceAssumption, DeviceInv, DeviceTypes, Out, Gone, the_read
  <2>2. OwnerHasIt' BY <1>4, DeviceAssumption DEF DeviceAssumption, DeviceInv, DeviceTypes, OwnerHasIt, Out, Gone, the_read
  <2>3. ThreadAtRest' BY <1>4 DEF DeviceInv, DeviceTypes, OwnerHasIt, ThreadAtRest, AtRest, Out, Gone, the_read
  <2> QED BY <2>1, <2>2, <2>3 DEF DeviceInv
<1>5. CASE the_mmap(p)
  <2>1. DeviceTypes'
    <3>1. files' = [files EXCEPT ![p].mapped = TRUE] /\ UNCHANGED <<module, owner, kthread, deferred>>
      BY <1>5 DEF the_mmap
    <3>2. files' \in [Proc -> [state : {"closed", "open", "sleeps"}, pos : Int, mapped : BOOLEAN]]
      BY <3>1 DEF DeviceInv, DeviceTypes
    <3> QED BY <3>1, <3>2 DEF DeviceInv, DeviceTypes
  <2>2. OwnerHasIt' BY <1>5, DeviceAssumption DEF DeviceAssumption, DeviceInv, DeviceTypes, OwnerHasIt, Out, Gone, the_mmap
  <2>3. ThreadAtRest' BY <1>5 DEF DeviceInv, DeviceTypes, OwnerHasIt, ThreadAtRest, AtRest, Out, Gone, the_mmap
  <2> QED BY <2>1, <2>2, <2>3 DEF DeviceInv
<1>6. CASE the_pread(p)
  <2>1. DeviceTypes' BY <1>6 DEF DeviceInv, DeviceTypes, Out, Gone, the_pread
  <2>2. OwnerHasIt' BY <1>6 DEF DeviceInv, DeviceTypes, OwnerHasIt, Out, Gone, the_pread
  <2>3. ThreadAtRest' BY <1>6, DeviceAssumption
    DEF DeviceAssumption, DeviceInv, DeviceTypes, OwnerHasIt, ThreadAtRest, AtRest, Out, Gone, the_pread
  <2> QED BY <2>1, <2>2, <2>3 DEF DeviceInv
<1> QED BY <1>1, <1>2, <1>3, <1>4, <1>5, <1>6

LEMMA DeviceStep == ASSUME DeviceInv, DeviceNext PROVE DeviceInv'
BY DeviceModuleSteps, DeviceThreadSteps, DeviceFileSteps DEF DeviceNext
-----------------------------------------------------------------------------
(* block_drv_test: the drives whose pointer is set are those from drive on *)
(* (before it, during the_init), disk_cnt of them, and they have all their *)
(* resources; who has a disk open has one that is there, or was there when *)
(* the module began to go.                                                 *)

Coming == {"out", "install", "abort", "in"}
Going == {"exit", "rollback"}

BlkType ==
  [pc : Coming \cup Going \cup {"gone", "failed"}, drive : 0..MAX_HD_NR,
   major : BOOLEAN, cnt : Nat, busy : BOOLEAN]
UsersType == [Drive -> [open : BOOLEAN, segs : Int]]

BlockTypes ==
  /\ blk \in BlkType /\ users \in UsersType
  /\ disks \in [Drive -> SUBSET Resource] /\ live \subseteq Drive /\ pt_disks \subseteq Drive

DisksCounted ==
  /\ \A d \in Drive : disks[d] = IF d \in pt_disks THEN Resource ELSE {}
  /\ blk.pc = "out" => blk.drive = 0
  /\ blk.pc = "in" => blk.drive = MAX_HD_NR
  /\ blk.pc \in Coming =>
       blk.cnt = blk.drive /\ live = pt_disks /\ pt_disks = {d \in Drive : d < blk.drive}
  /\ blk.pc \in Going =>
       /\ blk.drive + blk.cnt <= MAX_HD_NR /\ live \subseteq pt_disks
       /\ pt_disks = {d \in Drive : blk.drive <= d /\ d < blk.drive + blk.cnt}
       /\ pt_disks \ live \subseteq {blk.drive}
  /\ blk.pc \in {"gone", "failed"} => blk.cnt = 0 /\ pt_disks = {} /\ live = {}

OpenDisks ==
  /\ \A d \in Drive : users[d].segs > 0 => users[d].open
  /\ blk.pc \in Coming => \A d \in Drive : users[d].open => d \in live
  /\ blk.pc \notin Coming /\ ~blk.busy => \A d \in Drive : ~users[d].open

BlockInv == BlockTypes /\ DisksCounted /\ OpenDisks

LEMMA BlockHolds == BlockInv => DisksQuiet
<1> SUFFICES ASSUME BlockInv PROVE DisksQuiet
  OBVIOUS
<1>1. blk.cnt \in 0..MAX_HD_NR
  <2>1. blk.pc \in Coming \cup Going \cup {"gone", "failed"} /\ blk.drive \in 0..MAX_HD_NR /\ blk.cnt \in Nat
    BY DEF BlockInv, BlockTypes, BlkType
  <2>2. blk.cnt = blk.drive \/ blk.drive + blk.cnt <= MAX_HD_NR \/ blk.cnt = 0
    BY <2>1 DEF BlockInv, DisksCounted
  <2> QED BY <2>1, <2>2, BlockAssumption DEF BlockAssumption
<1>2. blk.pc \in {"gone", "failed"} =>
        blk.cnt = 0 /\ pt_disks = {} /\ live = {} /\ \A d \in Drive : disks[d] = {}
  BY DEF BlockInv, DisksCounted
<1>3. ASSUME ~blk.busy, NEW d \in Drive, users[d].segs > 0 PROVE "space" \in disks[d]
  <2>1. users[d].open /\ blk.pc \in Coming
    BY <1>3 DEF BlockInv, OpenDisks
  <2>2. d \in pt_disks
    BY <2>1 DEF BlockInv, DisksCounted, OpenDisks
  <2> QED BY <2>2 DEF BlockInv, DisksCounted, Resource
<1> QED BY <1>1, <1>2, <1>3 DEF DisksQuiet

LEMMA BlockInitially == BlockInit => BlockInv
<1> SUFFICES ASSUME BlockInit PROVE BlockInv
  OBVIOUS
<1>1. BlockTypes
  <2>1. users \in UsersType
    BY DEF BlockInit, UsersType
  <2>2. blk \in BlkType
    BY BlockAssumption DEF BlockAssumption, BlockInit, BlkType, Coming, Going
  <2> QED BY <2>1, <2>2 DEF BlockInit, BlockTypes
<1>2. DisksCounted BY BlockAssumption DEF BlockAssumption, BlockInit, DisksCounted, Coming, Going, Drive
<1>3. OpenDisks BY DEF BlockInit, OpenDisks, Coming
<1> QED BY <1>1, <1>2, <1>3 DEF BlockInv

\* What the_exit and a failed install_disks write.
LEMMA BlkSet ==
  ASSUME blk \in BlkType, NEW pc \in {"exit", "rollback", "failed"}, NEW b \in BOOLEAN,
         blk' = [blk EXCEPT !.pc = pc, !.drive = 0, !.busy = b]
  PROVE  /\ blk' \in BlkType /\ blk'.pc = pc /\ blk'.drive = 0 /\ blk'.cnt = blk.cnt
         /\ blk'.busy = b
<1>1. pc \in Coming \cup Going \cup {"gone", "failed"} BY DEF Going
<1>2. 0 \in 0..MAX_HD_NR BY BlockAssumption DEF BlockAssumption
<1> QED BY <1>1, <1>2 DEF BlkType

\* The module comes.
LEMMA BlockComes ==
  ASSUME BlockInv, register_blkdev \/ add_one_disk \/ install_disks \/ the_exit
  PROVE  BlockInv'
<1> USE BlockAssumption DEF BlockAssumption, Coming, Going
<1>0. blk \in BlkType /\ users \in UsersType BY DEF BlockInv, BlockTypes
<1>1. CASE register_blkdev
  <2>1. PICK pc \in {"install", "failed"} : blk' = [blk EXCEPT !.pc = pc, !.major = (pc = "install")]
    BY <1>1 DEF register_blkdev
  <2>2. blk.pc = "out" /\ UNCHANGED <<disks, live, pt_disks, users>>
    BY <1>1 DEF register_blkdev
  <2>3. blk' \in BlkType
    BY <1>0, <2>1 DEF BlkType
  <2>4. BlockTypes' BY <2>2, <2>3 DEF BlockInv, BlockTypes
  <2>5. DisksCounted' BY <1>0, <2>1, <2>2 DEF BlkType, BlockInv, DisksCounted, Drive
  <2>6. OpenDisks' BY <1>0, <2>1, <2>2 DEF BlkType, BlockInv, DisksCounted, OpenDisks, Drive
  <2> QED BY <2>4, <2>5, <2>6 DEF BlockInv
<1>2. CASE add_one_disk
  <2>0. blk.pc = "install" /\ blk.drive < MAX_HD_NR /\ blk.drive \in Drive /\ users' = users
    BY <1>0, <1>2 DEF add_one_disk, BlkType, Drive
  <2>1. CASE /\ disks' = [disks EXCEPT ![blk.drive] = Resource]
             /\ live' = live \cup {blk.drive} /\ pt_disks' = pt_disks \cup {blk.drive}
             /\ blk' = [blk EXCEPT !.drive = @ + 1, !.cnt = @ + 1]
    <3>1. blk.drive + 1 \in 0..MAX_HD_NR /\ blk.cnt + 1 \in Nat
      BY <1>0, <2>0 DEF BlkType
    <3>2. /\ blk' \in BlkType /\ blk'.pc = "install" /\ blk'.busy = blk.busy
          /\ blk'.drive = blk.drive + 1 /\ blk'.cnt = blk.cnt + 1
      BY <1>0, <2>0, <2>1, <3>1 DEF BlkType
    <3>3. BlockTypes' BY <2>0, <2>1, <3>2 DEF BlockInv, BlockTypes, Resource
    <3>4. pt_disks' = {d \in Drive : d < blk.drive + 1}
      BY <1>0, <2>0, <2>1 DEF BlkType, BlockInv, DisksCounted, Drive
    <3>5. DisksCounted'
      BY <1>0, <2>0, <2>1, <3>2, <3>4 DEF BlkType, BlockInv, BlockTypes, DisksCounted
    <3>6. OpenDisks' BY <2>0, <2>1, <3>2 DEF BlockInv, OpenDisks
    <3> QED BY <3>3, <3>5, <3>6 DEF BlockInv
  <2>2. CASE /\ disks' = [disks EXCEPT ![blk.drive] = {}]
             /\ blk' = [blk EXCEPT !.pc = "abort"] /\ UNCHANGED <<live, pt_disks>>
    <3>1. /\ blk' \in BlkType /\ blk'.pc = "abort" /\ blk'.busy = blk.busy
          /\ blk'.drive = blk.drive /\ blk'.cnt = blk.cnt
      BY <1>0, <2>2 DEF BlkType
    <3>2. BlockTypes' BY <2>0, <2>2, <3>1 DEF BlockInv, BlockTypes
    <3>3. blk.drive \notin pt_disks
      BY <1>0, <2>0 DEF BlockInv, DisksCounted, BlkType
    <3>4. DisksCounted' BY <2>0, <2>2, <3>1, <3>3 DEF BlockInv, BlockTypes, DisksCounted
    <3>5. OpenDisks' BY <2>0, <2>2, <3>1 DEF BlockInv, OpenDisks
    <3> QED BY <3>2, <3>4, <3>5 DEF BlockInv
  <2> QED BY <1>2, <2>1, <2>2 DEF add_one_disk, LeftBy
<1>3. CASE install_disks
  <2>0. UNCHANGED <<disks, live, pt_disks, users>> /\ InUse \in BOOLEAN
    BY <1>3 DEF install_disks, InUse
  <2>1. CASE blk.pc = "install" /\ blk.drive = MAX_HD_NR /\ blk' = [blk EXCEPT !.pc = "in"]
    <3>1. /\ blk' \in BlkType /\ blk'.pc = "in" /\ blk'.busy = blk.busy
          /\ blk'.drive = MAX_HD_NR /\ blk'.cnt = blk.cnt
      BY <1>0, <2>1 DEF BlkType
    <3>2. BlockTypes' BY <2>0, <3>1 DEF BlockInv, BlockTypes
    <3>3. DisksCounted' BY <2>0, <2>1, <3>1 DEF BlockInv, DisksCounted
    <3>4. OpenDisks' BY <2>0, <2>1, <3>1 DEF BlockInv, OpenDisks
    <3> QED BY <3>2, <3>3, <3>4 DEF BlockInv
  <2>2. CASE blk.pc = "abort" /\ blk.cnt = 0 /\ blk' = [blk EXCEPT !.pc = "failed", !.drive = 0, !.busy = InUse]
    <3>1. /\ blk' \in BlkType /\ blk'.pc = "failed" /\ blk'.drive = 0 /\ blk'.cnt = 0
      <4>1. PICK b \in BOOLEAN : blk' = [blk EXCEPT !.pc = "failed", !.drive = 0, !.busy = b]
        BY <2>0, <2>2, Zenon
      <4>2. blk.cnt = 0 BY <2>2
      <4> QED BY <1>0, <4>1, <4>2, BlkSet
    <3>2. BlockTypes' BY <2>0, <3>1 DEF BlockInv, BlockTypes
    <3>3. pt_disks = {} /\ live = {}
      BY <2>2 DEF BlockInv, DisksCounted, Drive
    <3>4. DisksCounted' BY <2>0, <3>1, <3>3 DEF BlockInv, DisksCounted
    <3>5. \A d \in Drive : ~users[d].open
      BY <2>2, <3>3 DEF BlockInv, OpenDisks
    <3>6. OpenDisks' BY <2>0, <3>1, <3>5 DEF BlockInv, OpenDisks
    <3> QED BY <3>2, <3>4, <3>6 DEF BlockInv
  <2>3. CASE blk.pc = "abort" /\ blk.cnt # 0 /\ blk' = [blk EXCEPT !.pc = "rollback", !.drive = 0, !.busy = InUse]
    <3>1. /\ blk' \in BlkType /\ blk'.pc = "rollback" /\ blk'.drive = 0 /\ blk'.cnt = blk.cnt
          /\ blk'.busy = InUse
      <4>1. PICK b \in BOOLEAN : b = InUse /\ blk' = [blk EXCEPT !.pc = "rollback", !.drive = 0, !.busy = b]
        BY <2>0, <2>3, Zenon
      <4>2. blk' = [blk EXCEPT !.pc = "rollback", !.drive = 0, !.busy = b] BY <4>1
      <4>3. /\ blk' \in BlkType /\ blk'.pc = "rollback" /\ blk'.drive = 0 /\ blk'.cnt = blk.cnt
            /\ blk'.busy = b
        BY <1>0, <4>2, BlkSet
      <4> QED BY <4>1, <4>3, Zenon
    <3>2. BlockTypes' BY <2>0, <3>1 DEF BlockInv, BlockTypes
    <3>3. blk.cnt \in 0..MAX_HD_NR /\ pt_disks = {d \in Drive : 0 <= d /\ d < 0 + blk.cnt} /\ live = pt_disks
      BY <1>0, <2>3 DEF BlkType, BlockInv, DisksCounted, Drive
    <3>4. DisksCounted' BY <2>0, <3>1, <3>3 DEF BlockInv, DisksCounted
    <3>5. OpenDisks' BY <2>0, <3>1 DEF BlockInv, OpenDisks, InUse
    <3> QED BY <3>2, <3>4, <3>5 DEF BlockInv
  <2> QED BY <1>3, <2>1, <2>2, <2>3 DEF install_disks
<1>4. CASE the_exit
  <2>0. UNCHANGED <<disks, live, pt_disks, users>> /\ InUse \in BOOLEAN /\ blk.pc = "in"
    BY <1>4 DEF the_exit, InUse
  <2>1. /\ blk' \in BlkType /\ blk'.pc = "exit" /\ blk'.drive = 0 /\ blk'.cnt = blk.cnt
        /\ blk'.busy = InUse
    <3>1. PICK b \in BOOLEAN : b = InUse /\ blk' = [blk EXCEPT !.pc = "exit", !.drive = 0, !.busy = b]
      <4>1. blk' = [blk EXCEPT !.pc = "exit", !.drive = 0, !.busy = InUse] BY <1>4 DEF the_exit
      <4> QED BY <2>0, <4>1, Zenon
    <3>2. blk' = [blk EXCEPT !.pc = "exit", !.drive = 0, !.busy = b] BY <3>1
    <3>3. /\ blk' \in BlkType /\ blk'.pc = "exit" /\ blk'.drive = 0 /\ blk'.cnt = blk.cnt
          /\ blk'.busy = b
      BY <1>0, <3>2, BlkSet
    <3> QED BY <3>1, <3>3, Zenon
  <2>2. BlockTypes' BY <2>0, <2>1 DEF BlockInv, BlockTypes
  <2>3. blk.cnt \in 0..MAX_HD_NR /\ pt_disks = {d \in Drive : 0 <= d /\ d < 0 + blk.cnt} /\ live = pt_disks
    BY <1>0, <2>0 DEF BlkType, BlockInv, DisksCounted, Drive
  <2>4. DisksCounted' BY <2>0, <2>1, <2>3 DEF BlockInv, DisksCounted
  <2>5. OpenDisks' BY <2>0, <2>1 DEF BlockInv, OpenDisks, InUse
  <2> QED BY <2>2, <2>4, <2>5 DEF BlockInv
<1> QED BY <1>1, <1>2, <1>3, <1>4

\* It goes, or takes back what it has installed.
LEMMA BlockGoes ==
  ASSUME BlockInv, del_gendisk \/ remove_my_disk \/ UninstallEnds
  PROVE  BlockInv'
<1> USE BlockAssumption DEF BlockAssumption, Coming, Going
<1>0. blk \in BlkType /\ users \in UsersType BY DEF BlockInv, BlockTypes
<1>1. CASE del_gendisk
  <2>1. BlockTypes' BY <1>1 DEF BlockInv, BlockTypes, del_gendisk
  <2>2. DisksCounted' BY <1>1 DEF BlockInv, DisksCounted, del_gendisk, Uninstalling
  <2>3. OpenDisks' BY <1>1 DEF BlockInv, OpenDisks, del_gendisk, Uninstalling
  <2> QED BY <2>1, <2>2, <2>3 DEF BlockInv
<1>2. CASE remove_my_disk
  <2>0. /\ blk.pc \in Going /\ blk.drive < MAX_HD_NR /\ blk.drive \in Drive
        /\ blk.drive \notin live /\ UNCHANGED <<live, users>>
    BY <1>0, <1>2 DEF remove_my_disk, Uninstalling, BlkType, Drive
  <2>1. CASE blk.drive \in pt_disks
    <3>0. /\ disks' = [disks EXCEPT ![blk.drive] = {}] /\ pt_disks' = pt_disks \ {blk.drive}
          /\ blk' = [blk EXCEPT !.drive = @ + 1, !.cnt = @ - 1]
      BY <1>2, <2>1 DEF remove_my_disk
    <3>1. blk.drive + 1 \in 0..MAX_HD_NR /\ blk.cnt - 1 \in Nat
      BY <1>0, <2>0, <2>1 DEF BlkType, BlockInv, DisksCounted
    <3>2. /\ blk' \in BlkType /\ blk'.pc = blk.pc /\ blk'.busy = blk.busy
          /\ blk'.drive = blk.drive + 1 /\ blk'.cnt = blk.cnt - 1
      BY <1>0, <3>0, <3>1 DEF BlkType
    <3>3. BlockTypes' BY <2>0, <3>0, <3>2 DEF BlockInv, BlockTypes
    <3>4. /\ pt_disks' = {d \in Drive : blk.drive + 1 <= d /\ d < (blk.drive + 1) + (blk.cnt - 1)}
          /\ live = pt_disks' /\ (blk.drive + 1) + (blk.cnt - 1) <= MAX_HD_NR
      BY <1>0, <2>0, <3>0 DEF BlkType, BlockInv, DisksCounted, Drive
    <3>5. \A d \in Drive : disks'[d] = IF d \in pt_disks' THEN Resource ELSE {}
      BY <2>0, <3>0 DEF BlockInv, BlockTypes, DisksCounted
    <3>6. DisksCounted' BY <2>0, <3>2, <3>4, <3>5 DEF DisksCounted
    <3>7. OpenDisks' BY <2>0, <3>2 DEF BlockInv, OpenDisks
    <3> QED BY <3>3, <3>6, <3>7 DEF BlockInv
  <2>2. CASE blk.drive \notin pt_disks
    <3>0. blk' = [blk EXCEPT !.drive = @ + 1] /\ UNCHANGED <<disks, pt_disks>>
      BY <1>2, <2>2 DEF remove_my_disk
    <3>1. blk.drive + 1 \in 0..MAX_HD_NR /\ blk.cnt = 0
      BY <1>0, <2>0, <2>2 DEF BlkType, BlockInv, DisksCounted, Drive
    <3>2. /\ blk' \in BlkType /\ blk'.pc = blk.pc /\ blk'.busy = blk.busy
          /\ blk'.drive = blk.drive + 1 /\ blk'.cnt = 0
      BY <1>0, <3>0, <3>1 DEF BlkType
    <3>3. BlockTypes' BY <2>0, <3>0, <3>2 DEF BlockInv, BlockTypes
    <3>4. pt_disks = {} /\ live = {}
      BY <1>0, <2>0, <3>1 DEF BlkType, BlockInv, DisksCounted, Drive
    <3>5. DisksCounted' BY <1>0, <2>0, <3>0, <3>1, <3>2, <3>4 DEF BlkType, BlockInv, DisksCounted, Drive
    <3>6. OpenDisks' BY <2>0, <3>2 DEF BlockInv, OpenDisks
    <3> QED BY <3>3, <3>5, <3>6 DEF BlockInv
  <2> QED BY <2>1, <2>2
<1>3. CASE UninstallEnds
  <2>0. blk.pc \in Going /\ blk.drive = MAX_HD_NR /\ UNCHANGED <<disks, live, pt_disks, users>>
    BY <1>3 DEF UninstallEnds
  <2>1. blk.cnt = 0 /\ pt_disks = {} /\ live = {}
    BY <1>0, <2>0 DEF BlkType, BlockInv, DisksCounted, Drive
  <2>2. /\ blk' \in BlkType /\ blk'.pc \in {"gone", "failed"} /\ blk'.cnt = blk.cnt
        /\ blk'.busy = blk.busy
    BY <1>0, <1>3 DEF UninstallEnds, BlkType
  <2>3. BlockTypes' BY <2>0, <2>2 DEF BlockInv, BlockTypes
  <2>4. DisksCounted' BY <2>0, <2>1, <2>2 DEF BlockInv, DisksCounted
  <2>5. OpenDisks' BY <2>0, <2>2 DEF BlockInv, OpenDisks
  <2> QED BY <2>3, <2>4, <2>5 DEF BlockInv
<1> QED BY <1>1, <1>2, <1>3

\* The users and their requests.
LEMMA BlockUserSteps ==
  ASSUME BlockInv, NEW d \in Drive, UserOpens(d) \/ UserCloses(d) \/ my_make_request(d) \/ do_one_region(d)
  PROVE  BlockInv'
<1>0. blk \in BlkType /\ users \in UsersType BY DEF BlockInv, BlockTypes
<1>1. CASE UserOpens(d)
  <2> DEFINE busy == blk.busy \/ blk.pc \in Going
  <2>0. /\ d \in live /\ users' = [users EXCEPT ![d].open = TRUE]
        /\ blk' = [blk EXCEPT !.busy = busy] /\ UNCHANGED <<disks, live, pt_disks>>
    BY <1>1 DEF UserOpens, Going
  <2>1. busy \in BOOLEAN BY Zenon
  <2>2. /\ blk' \in BlkType /\ blk'.pc = blk.pc /\ blk'.drive = blk.drive /\ blk'.cnt = blk.cnt
        /\ blk'.busy = busy
    <3> HIDE DEF busy
    <3> QED BY <1>0, <2>0, <2>1 DEF BlkType
  <2>3. users' \in UsersType BY <1>0, <2>0 DEF UsersType
  <2>4. BlockTypes' BY <2>0, <2>2, <2>3 DEF BlockInv, BlockTypes
  <2>5. DisksCounted' BY <2>0, <2>2 DEF BlockInv, DisksCounted
  <2>6. blk.pc \in Coming \cup Going
    BY <1>0, <2>0 DEF BlockInv, DisksCounted, BlkType
  <2>7. OpenDisks'
    <3>1. \A x \in Drive : users'[x].segs = users[x].segs /\ (users'[x].open = users[x].open \/ x = d)
      BY <1>0, <2>0 DEF UsersType
    <3>2. users'[d].open
      BY <1>0, <2>0 DEF UsersType
    <3> QED BY <2>0, <2>2, <2>6, <3>1, <3>2 DEF BlockInv, OpenDisks, Coming, Going
  <2> QED BY <2>4, <2>5, <2>7 DEF BlockInv
<1>2. CASE UserCloses(d)
  <2>0. /\ users[d].segs = 0 /\ users' = [users EXCEPT ![d].open = FALSE]
        /\ UNCHANGED <<blk, disks, live, pt_disks>>
    BY <1>2 DEF UserCloses
  <2>1. users' \in UsersType BY <1>0, <2>0 DEF UsersType
  <2>2. BlockTypes' BY <2>0, <2>1 DEF BlockInv, BlockTypes
  <2>3. DisksCounted' BY <2>0 DEF BlockInv, DisksCounted
  <2>4. OpenDisks' BY <1>0, <2>0 DEF BlockInv, OpenDisks, UsersType
  <2> QED BY <2>2, <2>3, <2>4 DEF BlockInv
<1>3. CASE my_make_request(d) \/ do_one_region(d)
  <2>0. PICK n \in Int : users' = [users EXCEPT ![d].segs = n]
    <3>1. CASE my_make_request(d)
      <4>1. PICK n \in 1..MAX_SEGS : users' = [users EXCEPT ![d].segs = n] BY <3>1, Zenon DEF my_make_request
      <4>2. n \in Int OBVIOUS
      <4> QED BY <4>1, <4>2, Zenon
    <3>2. CASE do_one_region(d)
      <4>1. users[d].segs - 1 \in Int BY <1>0 DEF UsersType
      <4>2. users' = [users EXCEPT ![d].segs = users[d].segs - 1] BY <3>2 DEF do_one_region
      <4> QED BY <4>1, <4>2
    <3> QED BY <1>3, <3>1, <3>2
  <2>1. users[d].open /\ UNCHANGED <<blk, disks, live, pt_disks>>
    BY <1>3 DEF my_make_request, do_one_region, BlockInv, OpenDisks
  <2>2. users' \in UsersType BY <1>0, <2>0 DEF UsersType
  <2>3. BlockTypes' BY <2>1, <2>2 DEF BlockInv, BlockTypes
  <2>4. DisksCounted' BY <2>1 DEF BlockInv, DisksCounted
  <2>5. OpenDisks'
    <3>1. \A x \in Drive : users'[x].open = users[x].open /\ (users'[x].segs = users[x].segs \/ x = d)
      BY <1>0, <2>0 DEF UsersType
    <3> QED BY <2>1, <3>1 DEF BlockInv, OpenDisks
  <2> QED BY <2>3, <2>4, <2>5 DEF BlockInv
<1> QED BY <1>1, <1>2, <1>3

LEMMA BlockStep == ASSUME BlockInv, BlockNext PROVE BlockInv'
BY BlockComes, BlockGoes, BlockUserSteps DEF BlockNext
-----------------------------------------------------------------------------
(* The frame generator. The schedule is kept in seconds and microseconds,  *)
(* the properties in ticks; what lies between is arithmetic with a second  *)
(* that may have any length.                                               *)

LEMMA Division ==
  ASSUME NEW a \in Nat, NEW b \in Nat \ {0}
  PROVE  /\ a \div b \in Nat /\ a % b \in 0..(b - 1)
         /\ (a \div b) * b + (a % b) = a
OBVIOUS

LEMMA Multiples ==
  ASSUME NEW a \in Nat, NEW b \in Nat, NEW c \in Nat, a <= b
  PROVE  a * c \in Nat /\ b * c \in Nat /\ a * c <= b * c
OBVIOUS

LEMMA OneMore ==
  ASSUME NEW a \in Nat, NEW b \in Nat
  PROVE  (a + 1) * b = a * b + b /\ a * b \in Nat
OBVIOUS

LEMMA Fits ==
  ASSUME NEW a \in Nat, NEW b \in Nat, NEW c \in Nat \ {0}, a * c <= b
  PROVE  a <= b \div c
<1> DEFINE q == b \div c
<1>1. q \in Nat /\ b % c \in 0..(c - 1) /\ q * c + (b % c) = b BY Division
<1> HIDE DEF q
<1>2. SUFFICES ASSUME q + 1 <= a PROVE FALSE BY <1>1 DEF q
<1>3. (q + 1) * c <= a * c BY <1>1, <1>2, Multiples
<1>4. (q + 1) * c = q * c + c /\ q * c \in Nat BY <1>1, OneMore
<1>5. a * c \in Nat BY Multiples
<1> QED BY <1>1, <1>3, <1>4, <1>5

TV == [sec : Nat, usec : 0..(SEC - 1)]

LEMMA Splits ==
  ASSUME NEW t \in Nat
  PROVE  Timeval(t) \in TV /\ Ticks(Timeval(t)) = t
BY Division, TapAssumption DEF Timeval, TV, Ticks, TapAssumption

LEMMA TicksOf == ASSUME NEW a \in TV PROVE Ticks(a) \in Nat
<1>1. a.sec \in Nat /\ a.usec \in Nat /\ SEC \in Nat BY TapAssumption DEF TapAssumption, TV
<1>2. a.sec * SEC \in Nat BY <1>1, Multiples
<1> QED BY <1>1, <1>2 DEF Ticks

LEMMA Earlier ==
  ASSUME NEW a \in TV, NEW b \in TV
  PROVE  time_a_smaller_than_b(a, b) <=> Ticks(a) < Ticks(b)
<1>0. SEC \in Nat \ {0} /\ a.sec \in Nat /\ b.sec \in Nat /\ a.usec \in 0..(SEC - 1) /\ b.usec \in 0..(SEC - 1)
  BY TapAssumption DEF TapAssumption, TV
<1>1. ASSUME NEW x \in TV, NEW y \in TV, x.sec < y.sec PROVE Ticks(x) < Ticks(y)
  <2>0. x.sec \in Nat /\ y.sec \in Nat /\ x.usec \in 0..(SEC - 1) /\ y.usec \in 0..(SEC - 1)
    BY DEF TV
  <2>1. (x.sec + 1) * SEC <= y.sec * SEC BY <1>0, <1>1, <2>0, Multiples
  <2>2. (x.sec + 1) * SEC = x.sec * SEC + SEC BY <1>0, <2>0, OneMore
  <2>3. x.sec * SEC \in Nat /\ y.sec * SEC \in Nat BY <1>0, <2>0, Multiples
  <2> QED BY <1>0, <2>0, <2>1, <2>2, <2>3 DEF Ticks
<1>2. CASE a.sec < b.sec BY <1>0, <1>1, <1>2 DEF time_a_smaller_than_b
<1>3. CASE b.sec < a.sec
  <2>1. Ticks(b) < Ticks(a) BY <1>1, <1>3
  <2> QED BY <1>0, <1>3, <2>1, TicksOf DEF time_a_smaller_than_b
<1>4. CASE a.sec = b.sec
  <2>1. a.sec * SEC \in Nat BY <1>0, Multiples
  <2> QED BY <1>0, <1>4, <2>1 DEF time_a_smaller_than_b, Ticks
<1> QED BY <1>0, <1>2, <1>3, <1>4

LEMMA Advanced ==
  ASSUME NEW a \in TV, NEW n \in Nat
  PROVE  Advance(a, n) \in TV /\ Ticks(Advance(a, n)) = Ticks(a) + n
<1>0. SEC \in Nat \ {0} /\ a.sec \in Nat /\ a.usec \in 0..(SEC - 1)
  BY TapAssumption DEF TapAssumption, TV
<1> DEFINE s == a.usec + n
           q == s \div SEC
           r == s % SEC
<1>1. s \in Nat BY <1>0
<1>2. q \in Nat /\ r \in 0..(SEC - 1) /\ q * SEC + r = s
  <2> HIDE DEF s
  <2> QED BY <1>0, <1>1, Division
<1>3. Advance(a, n) = [sec |-> a.sec + q, usec |-> r] BY DEF Advance
<1> HIDE DEF q, r
<1>4. (a.sec + q) * SEC = a.sec * SEC + q * SEC /\ a.sec * SEC \in Nat /\ q * SEC \in Nat
  BY <1>0, <1>2
<1>5. Ticks(Advance(a, n)) = (a.sec + q) * SEC + r BY <1>3 DEF Ticks
<1>6. Ticks(Advance(a, n)) = Ticks(a) + n
  <2>1. Ticks(a) = a.sec * SEC + a.usec /\ s = a.usec + n BY DEF Ticks
  <2> DEFINE x == a.sec * SEC
             y == q * SEC
  <2>2. x \in Nat /\ y \in Nat /\ Ticks(Advance(a, n)) = (x + y) + r /\ Ticks(a) = x + a.usec /\ y + r = s
    BY <1>2, <1>4, <1>5, <2>1
  <2> HIDE DEF x, y, s
  <2> QED BY <1>0, <1>2, <2>1, <2>2
<1>7. Advance(a, n) \in TV BY <1>0, <1>2, <1>3 DEF TV
<1> QED BY <1>6, <1>7
-----------------------------------------------------------------------------
Places == {"none", "start", "test", "wait", "write", "exit", "over"}
Mains == {"args", "quit", "crashed", "key", "created", "show"}
Tap == [main : Mains, pc : Places, pkts : Nat, need_stop : BOOLEAN, sending : BOOLEAN]
Sender == [next : TV, first : TV, last : TV, i : Nat, rounds : Nat, total : Nat, fail : Nat]

TapTypes ==
  /\ opts \in Options /\ dump \in Files
  /\ clock \in Nat \ {0} /\ began \in 0..clock
  /\ tap \in Tap /\ sender \in Sender

\* The thread runs on options that have been checked, and from its start on.
TapChecked ==
  /\ (began > 0 \/ tap.main \in {"key", "created", "show"}) =>
       opts.max_speed \/ snd_interval(opts) \in Nat \ {0}
  /\ tap.main \in {"args", "key"} => tap.pc = "none"
  /\ began = 0 <=> tap.pc \in {"none", "start"}
  /\ began = 0 => sender.rounds = 0 /\ sender.i = 0 /\ sender.total = 0 /\ sender.fail = 0

Schedule ==
  (began > 0 /\ ~opts.max_speed) =>
    /\ tap.pc \in {"test", "wait", "write"} =>
         Ticks(sender.next) = began + sender.rounds * snd_interval(opts)
    /\ Begun <= ((clock - began) \div snd_interval(opts)) + 1

\* A round in hand has not sent more than the file.
TapCounted ==
  /\ TapRounds
  /\ sender.i <= tap.pkts /\ (tap.pc # "write" => sender.i = 0)

TapInv == TapTypes /\ TapChecked /\ Schedule /\ TapCounted

LEMMA Parameters ==
  /\ SEC \in Nat \ {0} /\ MAX_PACKET_NUM \in Nat /\ MAX_TICKS \in Nat
  /\ \A o \in Options : /\ o.opt \in {"none", "interval", "frequency"} /\ o.value \in Int
                        /\ o.max_speed \in BOOLEAN /\ o.burst_num \in Int
  /\ \A f \in Files : load_from_dump_file(f) \in Nat
BY TapAssumption DEF TapAssumption, load_from_dump_file

LEMMA IntervalChecked ==
  ASSUME NEW o \in Options, check_args(o)
  PROVE  o.max_speed \/ snd_interval(o) \in Nat \ {0}
<1>1. SUFFICES ASSUME ~o.max_speed PROVE snd_interval(o) \in Nat \ {0}
  BY Zenon
<1>2. snd_interval(o) > 0 /\ frequency(o) > 0 BY <1>1 DEF check_args
<1>3. CASE o.opt = "none" BY <1>3, Parameters DEF snd_interval
<1>4. CASE o.opt = "interval" BY <1>2, <1>4, Parameters DEF snd_interval
<1>5. CASE o.opt = "frequency"
  <2>1. o.value \in Nat \ {0} BY <1>2, <1>5, Parameters DEF frequency
  <2>2. SEC \div o.value \in Nat BY <2>1, Parameters, Division
  <2>3. snd_interval(o) = SEC \div o.value BY <1>5 DEF snd_interval
  <2> QED BY <1>2, <2>2, <2>3
<1> QED BY <1>3, <1>4, <1>5, Parameters

LEMMA TapHolds == TapInv => TapSends
<1> SUFFICES ASSUME TapInv PROVE TapSends
  OBVIOUS
<1>1. sender.next.usec < SEC BY Parameters DEF TapInv, TapTypes, Sender, TV
<1>2. TapPaced BY <1>1 DEF TapInv, Schedule, TapPaced
<1> QED BY <1>2 DEF TapInv, TapCounted, TapSends

LEMMA TapInitially == TapInit => TapInv
<1> SUFFICES ASSUME TapInit PROVE TapInv
  OBVIOUS
<1>1. Timeval(0) \in TV BY Splits
<1>2. clock \in Nat \ {0} BY Parameters DEF TapInit
<1>3. TapTypes
  <2>1. tap \in Tap BY DEF TapInit, Tap, Places, Mains
  <2>2. sender \in Sender BY <1>1 DEF TapInit, Sender
  <2> QED BY <1>2, <2>1, <2>2 DEF TapInit, TapTypes
<1>4. began = 0 /\ tap.main = "args" /\ tap.pc = "none" /\ tap.pkts = 0 BY DEF TapInit
<1>5. sender.rounds = 0 /\ sender.i = 0 /\ sender.total = 0 /\ sender.fail = 0 BY DEF TapInit
<1>6. opts.burst_num \in Int BY <1>3, Parameters DEF TapTypes
<1>7. TapCounted BY <1>4, <1>5, <1>6 DEF TapCounted, TapRounds, BurstIsOver
<1> QED BY <1>3, <1>4, <1>5, <1>7 DEF TapInv, TapChecked, Schedule
-----------------------------------------------------------------------------
\* The main program, before the thread has begun and beside it.
LEMMA TapMainSteps ==
  ASSUME TapInv, Prepare \/ CreateThread \/ register_sig_act \/ ShowEnds \/ my_sig_handler \/ SendExits
  PROVE  TapInv'
<1>1. /\ TapTypes /\ TapChecked /\ Schedule /\ TapCounted
      /\ UNCHANGED <<opts, dump, clock, sender, began>> /\ opts \in Options /\ tap \in Tap
  BY DEF TapInv, TapTypes, Prepare, CreateThread, register_sig_act, ShowEnds, my_sig_handler, SendExits
<1>2. CASE Prepare
  <2>1. tap.main = "args" /\ tap.pc = "none" /\ began = 0 BY <1>1, <1>2 DEF Prepare, TapChecked
  <2>2. PICK main \in {"crashed", "quit", "key"} :
          /\ tap' = [tap EXCEPT !.main = main, !.pkts = load_from_dump_file(dump)]
          /\ main = "key" => Divides(opts) /\ check_args(opts)
    BY <1>2 DEF Prepare
  <2>3. load_from_dump_file(dump) \in Nat BY <1>1, Parameters DEF TapTypes
  <2>4. tap' \in Tap /\ tap'.main = main /\ tap'.pc = "none" /\ tap'.need_stop = tap.need_stop
    BY <1>1, <2>1, <2>2, <2>3 DEF Tap, Mains, Places
  <2>5. tap'.pkts \in Nat /\ tap'.pkts = load_from_dump_file(dump) BY <1>1, <2>2, <2>3 DEF Tap
  <2>6. main = "key" => opts.max_speed \/ snd_interval(opts) \in Nat \ {0} BY <1>1, <2>2, IntervalChecked
  <2>7. TapTypes' BY <1>1, <2>4 DEF TapTypes
  <2>8. TapChecked' BY <1>1, <2>1, <2>2, <2>4, <2>6 DEF TapChecked
  <2>9. Schedule' BY <1>1, <2>1, <2>4 DEF Schedule
  <2>10. TapCounted'
    <3>1. sender.rounds = 0 /\ sender.i = 0 /\ sender.total = 0 /\ sender.fail = 0
      BY <1>1, <2>1 DEF TapChecked
    <3> QED BY <1>1, <2>1, <2>4, <2>5, <3>1 DEF TapCounted, TapRounds, BurstIsOver
  <2> QED BY <2>7, <2>8, <2>9, <2>10 DEF TapInv
\* The others leave pkts and what the thread has done.
<1>3. ASSUME tap' \in Tap, tap'.pkts = tap.pkts,
             tap'.main \in {"key", "created", "show"} => tap.main \in {"key", "created", "show"},
             tap'.main # "args", tap'.main = "key" => tap'.pc = "none",
             tap'.need_stop \/ ~tap.need_stop,
             \/ tap'.pc = tap.pc
             \/ tap.pc = "none" /\ tap'.pc = "start"
             \/ tap.pc = "exit" /\ tap'.pc = "over"
      PROVE  TapInv'
  <2>1. TapTypes' BY <1>1, <1>3 DEF TapTypes
  <2>2. TapChecked' BY <1>1, <1>3 DEF TapChecked
  <2>3. Schedule'
    <3>1. Begun' = Begun BY <1>1, <1>3 DEF Begun
    <3> QED BY <1>1, <1>3, <3>1 DEF Schedule
  <2>4. TapCounted'
    <3>1. \A r : BurstIsOver(r)' <=> BurstIsOver(r) BY <1>1 DEF BurstIsOver
    <3>2. tap'.need_stop \in BOOLEAN /\ tap.need_stop \in BOOLEAN BY <1>1, <1>3 DEF Tap
    <3> QED BY <1>1, <1>3, <3>2 DEF TapCounted, TapRounds, BurstIsOver
  <2> QED BY <2>1, <2>2, <2>3, <2>4 DEF TapInv
<1>4. CASE CreateThread
  <2>1. PICK pc \in {"start", "none"} : tap' = [tap EXCEPT !.main = "created", !.sending = TRUE, !.pc = pc]
    BY <1>4 DEF CreateThread
  <2>2. tap.main = "key" /\ tap.pc = "none" BY <1>1, <1>4 DEF CreateThread, TapChecked
  <2>3. /\ tap' \in Tap /\ tap'.pkts = tap.pkts /\ tap'.main = "created" /\ tap'.pc = pc
        /\ tap'.need_stop = tap.need_stop /\ tap.need_stop \in BOOLEAN
    BY <1>1, <2>1 DEF Tap, Mains, Places
  <2> QED BY <1>3, <2>1, <2>2, <2>3
<1>5. ASSUME NEW main \in {"quit", "crashed", "show"}, tap.main # "key" \/ main = "quit", tap.main # "args",
             tap' = [tap EXCEPT !.main = main],
             main = "show" => tap.main = "created"
      PROVE  TapInv'
  <2>1. /\ tap' \in Tap /\ tap'.pkts = tap.pkts /\ tap'.main = main /\ tap'.pc = tap.pc
        /\ tap'.need_stop = tap.need_stop /\ tap.need_stop \in BOOLEAN
    BY <1>1, <1>5 DEF Tap, Mains, Places
  <2> QED BY <1>3, <1>5, <2>1
<1>6. CASE register_sig_act BY <1>5, <1>6 DEF register_sig_act
<1>7. CASE ShowEnds BY <1>5, <1>7 DEF ShowEnds
<1>8. CASE my_sig_handler
  <2>1. CASE tap.main = "show"
    <3>1. tap' = [tap EXCEPT !.need_stop = TRUE] BY <1>8, <2>1 DEF my_sig_handler
    <3>2. /\ tap' \in Tap /\ tap'.pkts = tap.pkts /\ tap'.main = "show" /\ tap'.pc = tap.pc
          /\ tap'.need_stop = TRUE
      BY <1>1, <2>1, <3>1 DEF Tap
    <3> QED BY <1>3, <2>1, <3>2
  <2>2. CASE tap.main # "show" BY <1>5, <1>8, <2>2 DEF my_sig_handler
  <2> QED BY <2>1, <2>2
<1>9. CASE SendExits
  <2>1. tap.pc = "exit" /\ tap.main \in {"created", "show"} BY <1>9 DEF SendExits, Alive
  <2>2. CASE tap' = [tap EXCEPT !.main = "crashed"] BY <1>5, <2>1, <2>2
  <2>3. CASE tap' = [tap EXCEPT !.pc = "over", !.sending = FALSE]
    <3>1. /\ tap' \in Tap /\ tap'.pkts = tap.pkts /\ tap'.main = tap.main /\ tap'.pc = "over"
          /\ tap'.need_stop = tap.need_stop /\ tap.need_stop \in BOOLEAN
      BY <1>1, <2>3 DEF Tap, Places
    <3> QED BY <1>3, <2>1, <3>1
  <2> QED BY <1>9, <2>2, <2>3 DEF SendExits
<1> QED BY <1>2, <1>4, <1>6, <1>7, <1>8, <1>9

LEMMA TapClock == ASSUME TapInv, ClockTicks PROVE TapInv'
<1>1. /\ TapTypes /\ TapChecked /\ Schedule /\ TapCounted /\ clock' = clock + 1
      /\ UNCHANGED <<opts, dump, tap, sender, began>>
  BY DEF TapInv, ClockTicks
<1>2. clock \in Nat \ {0} /\ began \in 0..clock /\ sender \in Sender BY <1>1 DEF TapTypes
<1>3. TapTypes' BY <1>1, <1>2 DEF TapTypes
<1>4. TapChecked' BY <1>1 DEF TapChecked
<1>5. Schedule'
  <2> SUFFICES ASSUME began > 0, ~opts.max_speed
               PROVE  Begun <= (((clock + 1) - began) \div snd_interval(opts)) + 1
    BY <1>1 DEF Schedule, Begun
  <2>1. snd_interval(opts) \in Nat \ {0} BY <1>1 DEF TapChecked
  <2> DEFINE iv == snd_interval(opts)
             a == clock - began
  <2> HIDE DEF iv, a
  <2>2. a \in Nat /\ iv \in Nat \ {0} BY <1>2, <2>1 DEF a, iv
  <2>3. a \div iv \in Nat /\ (a \div iv) * iv <= a
    <3>1. a \div iv \in Nat /\ a % iv \in 0..(iv - 1) /\ (a \div iv) * iv + (a % iv) = a
      BY <2>2, Division
    <3>2. (a \div iv) * iv \in Nat BY <2>2, <3>1, Multiples
    <3> QED BY <2>2, <3>1, <3>2
  <2>4. (a \div iv) * iv <= a + 1
    <3>1. (a \div iv) * iv \in Nat BY <2>2, <2>3, Multiples
    <3> QED BY <2>2, <2>3, <3>1
  <2>5. a \div iv <= (a + 1) \div iv BY <2>2, <2>3, <2>4, Fits
  <2>6. Begun <= (a \div iv) + 1 BY <1>1 DEF Schedule, a, iv
  <2>7. Begun \in Nat BY <1>2 DEF Begun, Sender
  <2>8. (a + 1) \div iv \in Nat BY <2>2, Division
  <2>9. Begun <= ((a + 1) \div iv) + 1 BY <2>3, <2>5, <2>6, <2>7, <2>8
  <2>10. a + 1 = (clock + 1) - began BY <1>2 DEF a
  <2> QED BY <2>9, <2>10 DEF iv
<1>6. TapCounted' BY <1>1 DEF TapCounted, TapRounds, BurstIsOver
<1> QED BY <1>3, <1>4, <1>5, <1>6 DEF TapInv

\* The thread, when it neither begins nor ends a round.
LEMMA TapQuietSteps ==
  ASSUME TapInv, SendStarts \/ SendStops \/ SendWaits \/ SendWrites
  PROVE  TapInv'
<1>1. /\ TapTypes /\ TapChecked /\ Schedule /\ TapCounted /\ UNCHANGED <<opts, dump, clock>>
      /\ opts \in Options /\ tap \in Tap /\ sender \in Sender /\ clock \in Nat \ {0} /\ began \in 0..clock
  BY DEF TapInv, TapTypes, SendStarts, SendStops, SendWaits, SendWrites
<1>2. \A r : BurstIsOver(r)' <=> BurstIsOver(r) BY <1>1 DEF BurstIsOver
<1>3. CASE SendStarts
  <2>1. /\ tap' = [tap EXCEPT !.pc = "test"] /\ sender' = [sender EXCEPT !.next = Timeval(clock)]
        /\ began' = clock /\ tap.pc = "start" /\ tap.main \in {"created", "show"}
    BY <1>3 DEF SendStarts, Alive
  <2>2. Timeval(clock) \in TV /\ Ticks(Timeval(clock)) = clock BY <1>1, Splits
  <2>3. /\ tap' \in Tap /\ tap'.pkts = tap.pkts /\ tap'.main = tap.main /\ tap'.pc = "test"
        /\ tap'.need_stop = tap.need_stop
    BY <1>1, <2>1 DEF Tap, Places
  <2>4. /\ sender' \in Sender /\ sender'.next = Timeval(clock) /\ sender'.rounds = sender.rounds
        /\ sender'.i = sender.i /\ sender'.total = sender.total /\ sender'.fail = sender.fail
    BY <1>1, <2>1, <2>2 DEF Sender
  <2>5. began = 0 /\ sender.rounds = 0 /\ sender.i = 0 /\ sender.total = 0 /\ sender.fail = 0
    BY <1>1, <2>1 DEF TapChecked
  <2>6. TapTypes' BY <1>1, <2>1, <2>3, <2>4 DEF TapTypes
  <2>7. TapChecked' BY <1>1, <2>1, <2>3, <2>4 DEF TapChecked
  <2>8. Schedule'
    <3> SUFFICES ASSUME ~opts.max_speed
                 PROVE  /\ Ticks(sender'.next) = clock + sender'.rounds * snd_interval(opts)
                        /\ Begun' <= ((clock - clock) \div snd_interval(opts)) + 1
      BY <1>1, <2>1, <2>3 DEF Schedule
    <3>1. snd_interval(opts) \in Nat \ {0} BY <1>1, <2>1 DEF TapChecked
    <3>2. Begun' = 0 BY <2>3, <2>4, <2>5 DEF Begun
    <3>3. clock - clock = 0 /\ 0 * snd_interval(opts) = 0 /\ clock + 0 = clock BY <1>1, <3>1
    <3>4. 0 \div snd_interval(opts) \in Nat BY <3>1, Division
    <3> QED BY <2>2, <2>4, <2>5, <3>2, <3>3, <3>4
  <2>9. TapCounted' BY <1>1, <1>2, <2>1, <2>3, <2>4, <2>5 DEF TapCounted, TapRounds, BurstIsOver
  <2> QED BY <2>6, <2>7, <2>8, <2>9 DEF TapInv
<1>4. CASE SendStops
  <2>1. /\ tap' = [tap EXCEPT !.pc = "exit"] /\ tap.pc \in {"test", "wait"} /\ tap.need_stop
        /\ UNCHANGED <<sender, began>>
    BY <1>4 DEF SendStops
  <2>2. /\ tap' \in Tap /\ tap'.pkts = tap.pkts /\ tap'.main = tap.main /\ tap'.pc = "exit"
        /\ tap'.need_stop = tap.need_stop
    BY <1>1, <2>1 DEF Tap, Places
  <2>3. Begun' = Begun BY <2>1, <2>2 DEF Begun
  <2>4. TapTypes' BY <1>1, <2>1, <2>2 DEF TapTypes
  <2>5. TapChecked'
    <3>1. tap.main \notin {"args", "key"} BY <1>1, <2>1 DEF TapChecked
    <3> QED BY <1>1, <2>1, <2>2, <3>1 DEF TapChecked
  <2>6. Schedule' BY <1>1, <2>1, <2>2, <2>3 DEF Schedule
  <2>7. TapCounted' BY <1>1, <2>1, <2>2 DEF TapCounted, TapRounds, BurstIsOver
  <2> QED BY <2>4, <2>5, <2>6, <2>7 DEF TapInv
<1>5. CASE SendWaits
  <2>1. /\ tap' = [tap EXCEPT !.pc = "wait"] /\ tap.pc = "test" /\ UNCHANGED <<sender, began>>
    BY <1>5 DEF SendWaits
  <2>2. /\ tap' \in Tap /\ tap'.pkts = tap.pkts /\ tap'.main = tap.main /\ tap'.pc = "wait"
        /\ tap'.need_stop = tap.need_stop
    BY <1>1, <2>1 DEF Tap, Places
  <2>3. Begun' = Begun BY <2>1, <2>2 DEF Begun
  <2>4. TapTypes' BY <1>1, <2>1, <2>2 DEF TapTypes
  <2>5. TapChecked'
    <3>1. tap.main \notin {"args", "key"} BY <1>1, <2>1 DEF TapChecked
    <3> QED BY <1>1, <2>1, <2>2, <3>1 DEF TapChecked
  <2>6. Schedule' BY <1>1, <2>1, <2>2, <2>3 DEF Schedule
  <2>7. TapCounted' BY <1>1, <2>1, <2>2 DEF TapCounted, TapRounds, BurstIsOver
  <2> QED BY <2>4, <2>5, <2>6, <2>7 DEF TapInv
<1>6. CASE SendWrites
  <2>1. /\ tap.pc = "write" /\ sender.i < tap.pkts /\ UNCHANGED <<tap, began>>
        /\ sender' \in {[sender EXCEPT !.i = @ + 1, !.total = @ + 1], [sender EXCEPT !.i = @ + 1, !.fail = @ + 1]}
    BY <1>6 DEF SendWrites
  <2>2. /\ sender' \in Sender /\ sender'.next = sender.next /\ sender'.rounds = sender.rounds
        /\ sender'.i = sender.i + 1 /\ sender'.total + sender'.fail = (sender.total + sender.fail) + 1
    <3>0. /\ sender.i \in Nat /\ sender.total \in Nat /\ sender.fail \in Nat
          /\ sender.i + 1 \in Nat /\ sender.total + 1 \in Nat /\ sender.fail + 1 \in Nat
      BY <1>1 DEF Sender
    <3>1. CASE sender' = [sender EXCEPT !.i = sender.i + 1, !.total = sender.total + 1]
      <4>1. sender' \in Sender BY <1>1, <3>0, <3>1 DEF Sender
      <4>2. /\ sender'.next = sender.next /\ sender'.rounds = sender.rounds /\ sender'.i = sender.i + 1
            /\ sender'.total = sender.total + 1 /\ sender'.fail = sender.fail
        BY <1>1, <3>1 DEF Sender
      <4> QED BY <3>0, <4>1, <4>2
    <3>2. CASE sender' = [sender EXCEPT !.i = sender.i + 1, !.fail = sender.fail + 1]
      <4>1. sender' \in Sender BY <1>1, <3>0, <3>2 DEF Sender
      <4>2. /\ sender'.next = sender.next /\ sender'.rounds = sender.rounds /\ sender'.i = sender.i + 1
            /\ sender'.total = sender.total /\ sender'.fail = sender.fail + 1
        BY <1>1, <3>2 DEF Sender
      <4> QED BY <3>0, <4>1, <4>2
    <3> QED BY <2>1, <3>1, <3>2
  <2>3. /\ sender.i \in Nat /\ sender.rounds \in Nat /\ sender.total \in Nat /\ sender.fail \in Nat
        /\ tap.pkts \in Nat /\ sender.rounds * tap.pkts \in Nat
    <3>1. sender.i \in Nat /\ sender.rounds \in Nat /\ sender.total \in Nat /\ sender.fail \in Nat
          /\ tap.pkts \in Nat
      BY <1>1 DEF Sender, Tap
    <3> QED BY <3>1, OneMore
  <2>4. TapTypes' BY <1>1, <2>1, <2>2 DEF TapTypes
  <2>5. TapChecked' BY <1>1, <2>1, <2>2 DEF TapChecked
  <2>6. Begun' = Begun BY <2>1, <2>2 DEF Begun
  <2>7. Schedule' BY <1>1, <2>1, <2>2, <2>6 DEF Schedule
  <2>8. TapCounted'
    <3>1. sender.total + sender.fail = (sender.rounds * tap.pkts) + sender.i
      BY <1>1 DEF TapCounted, TapRounds
    <3> DEFINE m == sender.rounds * tap.pkts
    <3>2. m \in Nat /\ sender.total + sender.fail = m + sender.i BY <2>3, <3>1
    <3> HIDE DEF m
    <3>3. sender'.total + sender'.fail = m + sender'.i BY <2>2, <2>3, <3>2
    <3>4. sender'.i <= tap'.pkts BY <2>1, <2>2, <2>3
    <3>5. ~BurstIsOver(sender.rounds) BY <1>1, <2>1 DEF TapCounted, TapRounds
    <3>6. opts'.burst_num = opts.burst_num /\ sender'.rounds = sender.rounds BY <1>1, <2>2
    <3>7. sender'.total + sender'.fail = (sender'.rounds * tap'.pkts) + sender'.i
      BY <2>1, <2>2, <3>3 DEF m
    <3>8. TapRounds' BY <2>1, <3>5, <3>6, <3>7 DEF TapRounds, BurstIsOver
    <3> QED BY <2>1, <3>4, <3>8 DEF TapCounted
  <2> QED BY <2>4, <2>5, <2>7, <2>8 DEF TapInv
<1> QED BY <1>3, <1>4, <1>5, <1>6

LEMMA TapRoundBegins == ASSUME TapInv, SendDue PROVE TapInv'
<1>1. /\ TapTypes /\ TapChecked /\ Schedule /\ TapCounted /\ UNCHANGED <<opts, dump, clock, began>>
      /\ opts \in Options /\ tap \in Tap /\ sender \in Sender /\ clock \in Nat \ {0} /\ began \in 0..clock
  BY DEF TapInv, TapTypes, SendDue
<1>2. /\ tap' = [tap EXCEPT !.pc = "write"] /\ tap.pc \in {"test", "wait"}
      /\ sender' = [sender EXCEPT !.last = Timeval(clock),
                                  !.first = IF @.sec = 0 THEN Timeval(clock) ELSE @]
      /\ opts.max_speed \/ (tap.pc = "wait" /\ ~time_a_smaller_than_b(Timeval(clock), sender.next))
  BY DEF SendDue
<1>3. Timeval(clock) \in TV /\ Ticks(Timeval(clock)) = clock BY <1>1, Splits
<1>4. /\ tap' \in Tap /\ tap'.pkts = tap.pkts /\ tap'.main = tap.main /\ tap'.pc = "write"
      /\ tap'.need_stop = tap.need_stop
  BY <1>1, <1>2 DEF Tap, Places
<1>5. /\ sender' \in Sender /\ sender'.next = sender.next /\ sender'.rounds = sender.rounds
      /\ sender'.i = sender.i /\ sender'.total = sender.total /\ sender'.fail = sender.fail
  BY <1>1, <1>2, <1>3 DEF Sender
<1>6. tap.main \notin {"args", "key"} /\ began # 0 BY <1>1, <1>2 DEF TapChecked
<1>7. TapTypes' BY <1>1, <1>4, <1>5 DEF TapTypes
<1>8. TapChecked' BY <1>1, <1>4, <1>5, <1>6 DEF TapChecked
<1>9. Schedule'
  <2> SUFFICES ASSUME ~opts.max_speed, began > 0
               PROVE  /\ Ticks(sender.next) = began + sender.rounds * snd_interval(opts)
                      /\ sender.rounds + 1 <= ((clock - began) \div snd_interval(opts)) + 1
    BY <1>1, <1>4, <1>5 DEF Schedule, Begun
  <2> DEFINE iv == snd_interval(opts)
             r == sender.rounds
             a == clock - began
  <2>1. iv \in Nat \ {0} /\ r \in Nat /\ a \in Nat BY <1>1 DEF TapChecked, Sender
  <2>2. Ticks(sender.next) = began + r * iv BY <1>1, <1>2 DEF Schedule
  <2>3. sender.next \in TV BY <1>1 DEF Sender
  <2>4. ~(clock < Ticks(sender.next)) BY <1>2, <1>3, <2>3, Earlier
  <2> HIDE DEF iv, r, a
  <2>5. r * iv \in Nat BY <2>1, Multiples
  <2>6. r * iv <= a BY <1>1, <2>2, <2>4, <2>5 DEF a
  <2>7. r <= a \div iv /\ a \div iv \in Nat BY <2>1, <2>6, Fits, Division
  <2>8. r + 1 <= (a \div iv) + 1 BY <2>1, <2>7
  <2> QED BY <2>2, <2>8 DEF iv, r, a
<1>10. TapCounted'
  <2>1. \A r : BurstIsOver(r)' <=> BurstIsOver(r) BY <1>1 DEF BurstIsOver
  <2>2. sender.i = 0 /\ tap.pkts \in Nat BY <1>1, <1>2 DEF TapCounted, Tap
  <2> QED BY <1>1, <1>2, <1>4, <1>5, <2>2 DEF TapCounted, TapRounds, BurstIsOver
<1> QED BY <1>7, <1>8, <1>9, <1>10 DEF TapInv

LEMMA TapRoundEnds == ASSUME TapInv, SendRoundEnds PROVE TapInv'
<1> DEFINE over == BurstIsOver(sender.rounds + 1)
           next == IF over \/ opts.max_speed THEN sender.next ELSE Advance(sender.next, snd_interval(opts))
<1>1. /\ TapTypes /\ TapChecked /\ Schedule /\ TapCounted /\ UNCHANGED <<opts, dump, clock, began>>
      /\ opts \in Options /\ tap \in Tap /\ sender \in Sender /\ clock \in Nat \ {0} /\ began \in 0..clock
  BY DEF TapInv, TapTypes, SendRoundEnds
<1>2. /\ tap.pc = "write" /\ sender.i = tap.pkts
      /\ tap' = [tap EXCEPT !.pc = IF over THEN "exit" ELSE "test"]
      /\ sender' = [sender EXCEPT !.i = 0, !.rounds = @ + 1, !.next = next]
  BY DEF SendRoundEnds
<1>3. tap.main \notin {"args", "key"} /\ began # 0 BY <1>1, <1>2 DEF TapChecked
<1>4. sender.next \in TV /\ sender.rounds \in Nat /\ sender.i \in Nat /\ sender.total \in Nat /\ sender.fail \in Nat
  BY <1>1 DEF Sender
<1>5. ~opts.max_speed => snd_interval(opts) \in Nat \ {0} BY <1>1, <1>3 DEF TapChecked
<1>6. ~opts.max_speed /\ ~over => Ticks(next) = Ticks(sender.next) + snd_interval(opts)
  BY <1>4, <1>5, Advanced
<1>7. next \in TV
  <2>1. CASE over \/ opts.max_speed BY <1>4, <2>1
  <2>2. CASE ~(over \/ opts.max_speed)
    <3>1. next = Advance(sender.next, snd_interval(opts)) BY <2>2
    <3> HIDE DEF next
    <3> QED BY <1>4, <1>5, <2>2, <3>1, Advanced
  <2> QED BY <2>1, <2>2
<1> HIDE DEF next
<1>8. /\ tap' \in Tap /\ tap'.pkts = tap.pkts /\ tap'.main = tap.main
      /\ tap'.pc = (IF over THEN "exit" ELSE "test") /\ tap'.need_stop = tap.need_stop
  BY <1>1, <1>2 DEF Tap, Places
<1>9. /\ sender' \in Sender /\ sender'.next = next /\ sender'.rounds = sender.rounds + 1
      /\ sender'.i = 0 /\ sender'.total = sender.total /\ sender'.fail = sender.fail
  <2> DEFINE n == sender.rounds + 1
  <2>1. n \in Nat BY <1>4
  <2>2. sender' = [sender EXCEPT !.i = 0, !.rounds = n, !.next = next] BY <1>2
  <2> HIDE DEF n
  <2>3. /\ sender' \in Sender /\ sender'.next = next /\ sender'.rounds = n
        /\ sender'.i = 0 /\ sender'.total = sender.total /\ sender'.fail = sender.fail
    BY <1>1, <1>7, <2>1, <2>2 DEF Sender
  <2> QED BY <2>3 DEF n
<1>10. BurstIsOver(sender.rounds)' = BurstIsOver(sender.rounds + 1) BY <1>1, <1>9 DEF BurstIsOver
<1>11. TapTypes' BY <1>1, <1>8, <1>9 DEF TapTypes
<1>12. TapChecked' BY <1>1, <1>3, <1>8, <1>9 DEF TapChecked
<1>13. Schedule'
  <2> SUFFICES ASSUME ~opts.max_speed, began > 0
               PROVE  /\ ~over => Ticks(next) = began + (sender.rounds + 1) * snd_interval(opts)
                      /\ Begun' <= ((clock - began) \div snd_interval(opts)) + 1
    BY <1>1, <1>8, <1>9 DEF Schedule
  <2>1. Begun' = Begun
    <3>1. Begun = sender.rounds + 1 BY <1>2 DEF Begun
    <3>2. tap'.pc # "write" BY <1>8
    <3> QED BY <1>4, <1>9, <3>1, <3>2 DEF Begun
  <2>2. Ticks(sender.next) = began + sender.rounds * snd_interval(opts) BY <1>1, <1>2 DEF Schedule
  <2> DEFINE iv == snd_interval(opts)
             r == sender.rounds
  <2> HIDE DEF iv, r
  <2>3. iv \in Nat /\ r \in Nat BY <1>4, <1>5 DEF iv, r
  <2>4. (r + 1) * iv = r * iv + iv /\ r * iv \in Nat BY <2>3, OneMore
  <2>5. ~over => Ticks(next) = (began + r * iv) + iv BY <1>6, <2>2 DEF iv, r
  <2>6. ~over => Ticks(next) = began + (r + 1) * iv BY <1>1, <2>3, <2>4, <2>5
  <2> QED BY <1>1, <2>1, <2>6 DEF Schedule, iv, r
<1>14. TapCounted'
  <2>1. sender.total + sender.fail = (sender.rounds * tap.pkts) + sender.i
    BY <1>1 DEF TapCounted, TapRounds
  <2>2. tap.pkts \in Nat BY <1>1 DEF Tap
  <2>3. (sender.rounds + 1) * tap.pkts = sender.rounds * tap.pkts + tap.pkts /\ sender.rounds * tap.pkts \in Nat
    BY <1>4, <2>2, OneMore
  <2>4. sender'.total + sender'.fail = (sender'.rounds * tap'.pkts) + sender'.i
    <3>1. (sender'.rounds * tap'.pkts) + sender'.i = ((sender.rounds + 1) * tap.pkts) + 0
      BY <1>8, <1>9
    <3>2. ((sender.rounds + 1) * tap.pkts) + 0 = sender.rounds * tap.pkts + tap.pkts BY <2>2, <2>3
    <3> QED BY <1>2, <1>9, <2>1, <3>1, <3>2
  <2>5. sender'.i <= tap'.pkts BY <1>8, <1>9, <2>2
  <2>6. ~BurstIsOver(sender.rounds) BY <1>1, <1>2 DEF TapCounted, TapRounds
  <2>7. over => opts.burst_num > 0 /\ sender.rounds + 1 = opts.burst_num
    <3>1. opts.burst_num \in Int BY <1>1, Parameters
    <3> QED BY <1>4, <2>6, <3>1 DEF BurstIsOver
  <2>8. tap'.pc \notin {"exit", "over"} => ~over BY <1>8
  <2>9. tap'.pc \in {"exit", "over"} => over BY <1>8
  <2>10. BurstIsOver(sender.rounds)' <=> over BY <1>10
  <2> HIDE DEF over
  <2>11. TapRounds'
    <3>1. tap'.pc \notin {"exit", "over"} => ~BurstIsOver(sender.rounds)' BY <2>8, <2>10
    <3>2. (tap'.pc \in {"exit", "over"} /\ ~tap'.need_stop) => opts'.burst_num > 0 /\ sender'.rounds = opts'.burst_num
      BY <1>1, <1>9, <2>7, <2>9
    <3> QED BY <2>4, <3>1, <3>2 DEF TapRounds, BurstIsOver
  <2> QED BY <1>9, <2>5, <2>11 DEF TapCounted
<1> QED BY <1>11, <1>12, <1>13, <1>14 DEF TapInv

LEMMA TapStep == ASSUME TapInv, TapNext PROVE TapInv'
BY TapMainSteps, TapClock, TapQuietSteps, TapRoundBegins, TapRoundEnds DEF TapNext

LEMMA TapStays == ASSUME TapInv, UNCHANGED tapWriter PROVE TapInv'
BY DEF tapWriter, TapInv, TapTypes, TapChecked, Schedule, Begun, TapCounted, TapRounds, BurstIsOver
-----------------------------------------------------------------------------
(* The line editor. In the loop the terminal is the buffer, line by line   *)
(* and column by column; escape sequences with a count of 0 never occur.   *)

\* A sequence that is given as a function.
LEMMA LenOfFunction ==
  ASSUME NEW S, NEW n \in Nat, NEW f \in [1..n -> S]
  PROVE  f \in Seq(S) /\ Len(f) = n
<1>1. f \in Seq(S) BY SeqDef
<1>2. Len(f) \in Nat /\ DOMAIN f = 1..Len(f) BY <1>1, LenProperties
<1>3. 1..n = 1..Len(f) BY <1>2
<1>4. Len(f) = n
  <2>1. n > 0 => n \in 1..Len(f) BY <1>3
  <2>2. Len(f) > 0 => Len(f) \in 1..n BY <1>2, <1>3
  <2> QED BY <1>2, <2>1, <2>2
<1> QED BY <1>1, <1>4

Glyph == Char \cup {Blank}
EditLine == {s \in Seq(Char) : Len(s) <= MAX_LINE_LEN}
\* the line s as a terminal shows it
OnScreen(s) == [c \in Column |-> IF c <= Len(s) THEN s[c] ELSE Blank]
Terminal == [raw : BOOLEAN, row : Nat, col : Nat, text : [LineNr -> [Column -> Glyph]]]

EditorTypes ==
  /\ edit \in [pc : {"start", "raw", "loop", "done", "aborted", "killed"}, need_exit : BOOLEAN, cur_line : LineNr,
               cur_col : Nat, lines : [LineNr -> EditLine]]
  /\ term \in Terminal

EditorInv ==
  /\ EditorTypes
  /\ edit.pc \in {"start", "raw"} =>
       edit.cur_line = 0 /\ edit.cur_col = 0 /\ \A l \in LineNr : edit.lines[l] = <<>>
  /\ edit.pc = "loop" =>
       /\ edit.cur_col <= cur_line_len /\ term.row = edit.cur_line /\ term.col = edit.cur_col
       /\ \A l \in LineNr : term.text[l] = OnScreen(edit.lines[l])
  /\ edit.pc = "done" => ~term.raw

LEMMA EditorConstants == /\ MAX_LINE_NR \in Nat \ {0} /\ MAX_LINE_LEN \in Nat
                         /\ 0 \in LineNr /\ LineNr \subseteq Nat /\ Column \subseteq Nat
BY EditorAssumption DEF EditorAssumption, LineNr, Column

LEMMA EditLines ==
  /\ \A s \in EditLine : s \in Seq(Glyph) /\ Len(s) \in 0..MAX_LINE_LEN /\ OnScreen(s) \in [Column -> Glyph]
  /\ <<>> \in EditLine /\ OnScreen(<<>>) = empty_line
<1>1. ASSUME NEW s \in EditLine
      PROVE  s \in Seq(Glyph) /\ Len(s) \in 0..MAX_LINE_LEN /\ OnScreen(s) \in [Column -> Glyph]
  <2>1. Len(s) \in 0..MAX_LINE_LEN BY LenProperties, EditorConstants DEF EditLine
  <2>2. s \in Seq(Glyph) BY SeqMonotonic DEF EditLine, Glyph
  <2>3. ASSUME NEW c \in Column, c <= Len(s) PROVE s[c] \in Glyph
    BY <2>1, <2>2, <2>3, ElementOfSeq, EditorConstants DEF Column
  <2>4. OnScreen(s) \in [Column -> Glyph] BY <2>3 DEF OnScreen, Glyph
  <2> QED BY <2>1, <2>2, <2>4
<1>2. <<>> \in EditLine /\ Len(<<>>) = 0 BY EmptySeq, EditorConstants DEF EditLine
<1>3. OnScreen(<<>>) = empty_line
  BY <1>2, EditorConstants DEF OnScreen, empty_line, Column
<1> QED BY <1>1, <1>2, <1>3

LEMMA InsertedLine ==
  ASSUME NEW s \in EditLine, NEW c \in Char, NEW idx \in 0..Len(s), Len(s) < MAX_LINE_LEN
  PROVE  insert_char(s, c, idx) \in EditLine /\ Len(insert_char(s, c, idx)) = Len(s) + 1
<1>1. s \in Seq(Char) /\ Len(s) \in Nat /\ \A i \in 1..Len(s) : s[i] \in Char
  BY LenProperties, ElementOfSeq DEF EditLine
<1> DEFINE a == SubSeq(s, 1, (idx + 1) - 1)
           b == SubSeq(s, idx + 1, Len(s))
<1>2. a \in Seq(Char) /\ Len(a) = idx
  <2>1. \A i \in 1..((idx + 1) - 1) : s[i] \in Char BY <1>1
  <2>2. a \in Seq(Char) /\ Len(a) = IF 1 <= (idx + 1) - 1 THEN (((idx + 1) - 1) - 1) + 1 ELSE 0
    BY <1>1, <2>1, SubSeqProperties
  <2> HIDE DEF a
  <2> QED BY <1>1, <2>2
<1>3. b \in Seq(Char) /\ Len(b) = Len(s) - idx
  <2>1. \A i \in (idx + 1)..Len(s) : s[i] \in Char BY <1>1
  <2>2. b \in Seq(Char) /\ Len(b) = IF idx + 1 <= Len(s) THEN (Len(s) - (idx + 1)) + 1 ELSE 0
    BY <1>1, <2>1, SubSeqProperties
  <2> HIDE DEF b
  <2> QED BY <1>1, <2>2
<1>4. insert_char(s, c, idx) = (a \o <<c>>) \o b BY DEF insert_char, InsertAt
<1> HIDE DEF a, b
<1>5. <<c>> \in Seq(Char) /\ Len(<<c>>) = 1 OBVIOUS
<1>6. a \o <<c>> \in Seq(Char) /\ Len(a \o <<c>>) = idx + 1
  BY <1>2, <1>5, ConcatProperties
<1> DEFINE ac == a \o <<c>>
<1>7. (a \o <<c>>) \o b = ac \o b OBVIOUS
<1>8. ac \in Seq(Char) /\ Len(ac) = idx + 1 BY <1>6
<1> HIDE DEF ac
<1>9. ac \o b \in Seq(Char) /\ Len(ac \o b) = Len(s) + 1
  <2>1. ac \o b \in Seq(Char) /\ Len(ac \o b) = Len(ac) + Len(b) BY <1>3, <1>8, ConcatProperties
  <2> QED BY <1>1, <1>3, <1>8, <2>1
<1>10. insert_char(s, c, idx) = ac \o b BY <1>4, <1>7, Zenon
<1> QED BY <1>1, <1>9, <1>10, EditorConstants DEF EditLine

LEMMA DeletedLine ==
  ASSUME NEW s \in EditLine, NEW idx \in 0..(Len(s) - 1)
  PROVE  delete_char(s, idx) \in EditLine /\ Len(delete_char(s, idx)) = Len(s) - 1
<1>1. s \in Seq(Char) /\ Len(s) \in Nat /\ \A i \in 1..Len(s) : s[i] \in Char
  BY LenProperties, ElementOfSeq DEF EditLine
<1> DEFINE a == SubSeq(s, 1, (idx + 1) - 1)
           b == SubSeq(s, (idx + 1) + 1, Len(s))
<1>2. a \in Seq(Char) /\ Len(a) = idx
  <2>1. \A i \in 1..((idx + 1) - 1) : s[i] \in Char BY <1>1
  <2>2. a \in Seq(Char) /\ Len(a) = IF 1 <= (idx + 1) - 1 THEN (((idx + 1) - 1) - 1) + 1 ELSE 0
    BY <1>1, <2>1, SubSeqProperties
  <2> HIDE DEF a
  <2> QED BY <1>1, <2>2
<1>3. b \in Seq(Char) /\ Len(b) = Len(s) - idx - 1
  <2>1. \A i \in ((idx + 1) + 1)..Len(s) : s[i] \in Char BY <1>1
  <2>2. b \in Seq(Char) /\ Len(b) = IF (idx + 1) + 1 <= Len(s) THEN (Len(s) - ((idx + 1) + 1)) + 1 ELSE 0
    BY <1>1, <2>1, SubSeqProperties
  <2> HIDE DEF b
  <2> QED BY <1>1, <2>2
<1>4. delete_char(s, idx) = a \o b BY DEF delete_char, RemoveAt
<1> HIDE DEF a, b
<1>5. a \o b \in Seq(Char) /\ Len(a \o b) = idx + (Len(s) - idx - 1)
  BY <1>2, <1>3, ConcatProperties
<1> QED BY <1>1, <1>4, <1>5, EditorConstants DEF EditLine

\* What is written from the left replaces the beginning of the line.
LEMMA PutLeft ==
  ASSUME NEW t \in Terminal, t.row \in LineNr, t.col = 0, NEW s \in Seq(Glyph)
  PROVE  Put(t, s) = [t EXCEPT !.text = [t.text EXCEPT ![t.row] =
                        [c \in Column |-> IF c <= Len(s) THEN s[c] ELSE t.text[t.row][c]]],
                               !.col = Len(s)]
<1>1. Len(s) \in Nat BY LenProperties
<1>2. ASSUME NEW c \in Column
      PROVE  (IF c \in (t.col + 1)..(t.col + Len(s)) THEN s[c - t.col] ELSE t.text[t.row][c])
               = (IF c <= Len(s) THEN s[c] ELSE t.text[t.row][c])
  BY <1>1, EditorConstants DEF Column
<1>3. t.col + Len(s) = Len(s) BY <1>1
<1>4. [c \in Column |-> IF c \in (t.col + 1)..(t.col + Len(s)) THEN s[c - t.col] ELSE t.text[t.row][c]]
        = [c \in Column |-> IF c <= Len(s) THEN s[c] ELSE t.text[t.row][c]]
  BY <1>2
<1> QED BY <1>3, <1>4 DEF Put, Terminal

LEMMA Redrawn ==
  ASSUME NEW t \in Terminal, t.row \in LineNr, NEW s \in EditLine
  PROVE  Redraw(t, s) = [t EXCEPT !.text = [t.text EXCEPT ![t.row] = OnScreen(s)], !.col = 0]
<1> DEFINE t1 == Return(t)
           t2 == Put(t1, empty_line)
           t3 == Return(t2)
           t4 == Put(t3, s)
<1>1. t1 = [t EXCEPT !.col = 0] BY DEF Return
<1>2. empty_line \in Seq(Glyph) /\ Len(empty_line) = MAX_LINE_LEN
  <2>1. empty_line \in [1..MAX_LINE_LEN -> Glyph] BY DEF empty_line, Column, Glyph
  <2> QED BY <2>1, EditorConstants, LenOfFunction
<1>3. t2 = [t EXCEPT !.text = [t.text EXCEPT ![t.row] = empty_line], !.col = MAX_LINE_LEN]
  <2>1. t1 \in Terminal /\ t1.row = t.row /\ t1.col = 0 /\ t1.text = t.text BY <1>1 DEF Terminal
  <2>2. [c \in Column |-> IF c <= Len(empty_line) THEN empty_line[c] ELSE t.text[t.row][c]] = empty_line
    BY <1>2, EditorConstants DEF empty_line, Column
  <2>3. t2 = [t1 EXCEPT !.text = [t.text EXCEPT ![t.row] = empty_line], !.col = MAX_LINE_LEN]
    <3> HIDE DEF t1
    <3>1. t2 = [t1 EXCEPT !.text = [t1.text EXCEPT ![t1.row] =
                  [c \in Column |-> IF c <= Len(empty_line) THEN empty_line[c] ELSE t1.text[t1.row][c]]],
                         !.col = Len(empty_line)]
      BY <1>2, <2>1, PutLeft
    <3> QED BY <1>2, <2>1, <2>2, <3>1
  <2> HIDE DEF t2
  <2> QED BY <1>1, <2>3 DEF Terminal
<1>4. t3 = [t EXCEPT !.text = [t.text EXCEPT ![t.row] = empty_line], !.col = 0]
  <2> HIDE DEF t2
  <2> QED BY <1>3 DEF Return, Terminal
<1>5. t4 = [t EXCEPT !.text = [t.text EXCEPT ![t.row] = OnScreen(s)], !.col = Len(s)]
  <2>1. /\ t3 \in Terminal /\ t3.row = t.row /\ t3.col = 0
        /\ t3.text = [t.text EXCEPT ![t.row] = empty_line] /\ t3.text[t.row] = empty_line
    <3>1. empty_line \in [Column -> Glyph] BY DEF empty_line, Glyph
    <3> HIDE DEF t3
    <3> QED BY <1>4, <3>1 DEF Terminal
  <2>2. [c \in Column |-> IF c <= Len(s) THEN s[c] ELSE t3.text[t.row][c]] = OnScreen(s)
    <3> HIDE DEF t3
    <3> QED BY <2>1 DEF OnScreen, empty_line
  <2>3. s \in Seq(Glyph) BY EditLines
  <2> HIDE DEF t3
  <2>4. t4 = [t3 EXCEPT !.text = [t3.text EXCEPT ![t.row] = OnScreen(s)], !.col = Len(s)]
    <3>1. t4 = [t3 EXCEPT !.text = [t3.text EXCEPT ![t3.row] =
                  [c \in Column |-> IF c <= Len(s) THEN s[c] ELSE t3.text[t3.row][c]]], !.col = Len(s)]
      BY <2>1, <2>3, PutLeft
    <3> QED BY <2>1, <2>2, <3>1
  <2>5. [t3.text EXCEPT ![t.row] = OnScreen(s)] = [t.text EXCEPT ![t.row] = OnScreen(s)]
    BY <2>1 DEF Terminal
  <2> HIDE DEF t4
  <2> QED BY <1>4, <2>4, <2>5 DEF Terminal
<1>6. Redraw(t, s) = Return(t4) BY DEF Redraw
<1> HIDE DEF t4
<1> QED BY <1>5, <1>6 DEF Return, Terminal

LEMMA Moved ==
  ASSUME NEW t \in Terminal, t.col = 0, NEW col \in Nat
  PROVE  GoTo(t, col) = [t EXCEPT !.col = col]
<1>1. CASE col = 0 BY <1>1 DEF GoTo, Terminal
<1>2. CASE col > 0 BY <1>2 DEF GoTo, MOVE_CURSOR_RIGHT, Count, Terminal
<1> QED BY <1>1, <1>2
-----------------------------------------------------------------------------
LEMMA EditorInitially == EditorInit => EditorInv
<1> SUFFICES ASSUME EditorInit PROVE EditorInv
  OBVIOUS
<1>1. empty_line \in [Column -> Glyph] BY DEF empty_line, Glyph
<1>2. EditorTypes
  BY <1>1, EditLines, EditorConstants DEF EditorInit, EditorTypes, Terminal
<1> QED BY <1>2 DEF EditorInit, EditorInv

LEMMA EditorHolds == EditorInv => EditorShows
BY DEF EditorInv, EditorTypes, EditorShows, OnScreen

\* What the invariant says in the loop.
LEMMA InLoop ==
  ASSUME EditorInv, edit.pc = "loop"
  PROVE  /\ edit \in [pc : {"start", "raw", "loop", "done", "aborted", "killed"}, need_exit : BOOLEAN,
                      cur_line : LineNr, cur_col : Nat, lines : [LineNr -> EditLine]]
         /\ term \in Terminal
         /\ edit.lines[edit.cur_line] \in EditLine /\ cur_line_len = Len(edit.lines[edit.cur_line])
         /\ cur_line_len \in 0..MAX_LINE_LEN /\ edit.cur_col \in 0..cur_line_len
         /\ edit.cur_line \in LineNr /\ term.row = edit.cur_line /\ term.col = edit.cur_col
         /\ \A l \in LineNr : term.text[l] = OnScreen(edit.lines[l])
<1>1. EditorTypes /\ edit.cur_col <= cur_line_len BY DEF EditorInv
<1>2. edit.lines[edit.cur_line] \in EditLine BY <1>1 DEF EditorTypes
<1>3. cur_line_len \in 0..MAX_LINE_LEN BY <1>2, EditLines DEF cur_line_len
<1>4. edit.cur_col \in 0..cur_line_len BY <1>1, <1>3, EditorConstants DEF EditorTypes
<1> QED BY <1>1, <1>2, <1>3, <1>4 DEF EditorInv, EditorTypes, cur_line_len

LEMMA ChangeShown ==
  ASSUME EditorInv, edit.pc = "loop", NEW line \in EditLine, NEW col \in 0..Len(line), Change(line, col)
  PROVE  EditorInv'
<1> DEFINE n == edit.cur_line
<1>1. /\ edit \in [pc : {"start", "raw", "loop", "done", "aborted", "killed"}, need_exit : BOOLEAN,
                   cur_line : LineNr, cur_col : Nat, lines : [LineNr -> EditLine]]
      /\ term \in Terminal /\ n \in LineNr /\ term.row = n
      /\ \A l \in LineNr : term.text[l] = OnScreen(edit.lines[l])
  BY InLoop
<1>2. /\ edit' = [edit EXCEPT !.lines[n] = line, !.cur_col = col]
      /\ term' = GoTo(Redraw(term, line), col)
  BY DEF Change
<1>3. OnScreen(line) \in [Column -> Glyph] /\ Len(line) \in Nat /\ col \in Nat
  BY EditLines, EditorConstants
<1>4. term' = [term EXCEPT !.text = [term.text EXCEPT ![n] = OnScreen(line)], !.col = col]
  <2> DEFINE r == Redraw(term, line)
  <2>1. r = [term EXCEPT !.text = [term.text EXCEPT ![n] = OnScreen(line)], !.col = 0]
    BY <1>1, Redrawn, ZenonT(60)
  <2> HIDE DEF r
  <2>2. r \in Terminal /\ r.col = 0 BY <1>1, <1>3, <2>1 DEF Terminal
  <2>3. term' = [r EXCEPT !.col = col] BY <1>2, <1>3, <2>2, Moved DEF r
  <2> QED BY <1>1, <2>1, <2>3 DEF Terminal
<1>5. EditorTypes'
  <2>1. edit' \in [pc : {"start", "loop", "done", "aborted"}, need_exit : BOOLEAN,
                   cur_line : LineNr, cur_col : Nat, lines : [LineNr -> EditLine]]
    <3>1. [edit.lines EXCEPT ![n] = line] \in [LineNr -> EditLine] BY <1>1
    <3> QED BY <1>1, <1>2, <1>3, <3>1
  <2>2. term' \in Terminal BY <1>1, <1>3, <1>4 DEF Terminal
  <2> QED BY <2>1, <2>2 DEF EditorTypes
<1>6. /\ edit'.pc = "loop" /\ edit'.cur_line = n /\ edit'.cur_col = col
      /\ edit'.lines = [edit.lines EXCEPT ![n] = line]
  BY <1>1, <1>2
<1>7. /\ term'.row = n /\ term'.col = col
      /\ term'.text = [term.text EXCEPT ![n] = OnScreen(line)]
  BY <1>1, <1>4 DEF Terminal
<1>8. cur_line_len' = Len(line) BY <1>1, <1>6 DEF cur_line_len
<1>9. \A l \in LineNr : term'.text[l] = OnScreen(edit'.lines[l])
  BY <1>1, <1>6, <1>7 DEF Terminal
<1> HIDE DEF n
<1> QED BY <1>3, <1>5, <1>6, <1>7, <1>8, <1>9 DEF EditorInv

LEMMA MoveShown ==
  ASSUME EditorInv, edit.pc = "loop", NEW line \in LineNr, MoveTo([term EXCEPT !.row = line], line)
  PROVE  EditorInv'
<1> DEFINE t == [term EXCEPT !.row = line]
           len == Len(edit.lines[line])
           col == IF edit.cur_col <= len THEN edit.cur_col ELSE len
<1>1. /\ edit \in [pc : {"start", "raw", "loop", "done", "aborted", "killed"}, need_exit : BOOLEAN,
                   cur_line : LineNr, cur_col : Nat, lines : [LineNr -> EditLine]]
      /\ term \in Terminal /\ term.col = edit.cur_col
      /\ \A l \in LineNr : term.text[l] = OnScreen(edit.lines[l])
  BY InLoop
<1>2. len \in Nat /\ line \in Nat
  BY <1>1, EditLines, EditorConstants
<1>3. col \in Nat /\ col <= len BY <1>1, <1>2
<1>4. edit' = [edit EXCEPT !.cur_line = line, !.cur_col = col] BY DEF MoveTo, Within
<1>5. term' = [term EXCEPT !.row = line, !.col = col]
  <2>1. CASE edit.cur_col <= len
    <3>1. term' = t BY <2>1 DEF MoveTo, adjust_cursor
    <3> QED BY <1>1, <2>1, <3>1 DEF Terminal
  <2>2. CASE ~(edit.cur_col <= len)
    <3> DEFINE r == Return(t)
    <3>1. term' = GoTo(r, len) BY <2>2 DEF MoveTo, adjust_cursor
    <3>2. r = [term EXCEPT !.row = line, !.col = 0] BY <1>1 DEF Return, Terminal
    <3> HIDE DEF r, len
    <3>3. r \in Terminal /\ r.col = 0 BY <1>1, <1>2, <3>2 DEF Terminal
    <3>4. term' = [r EXCEPT !.col = len] BY <1>2, <3>1, <3>3, Moved
    <3> QED BY <1>1, <2>2, <3>2, <3>4 DEF Terminal
  <2> QED BY <2>1, <2>2
<1> HIDE DEF col
<1>6. EditorTypes' BY <1>1, <1>2, <1>3, <1>4, <1>5 DEF EditorTypes, Terminal
<1>7. edit'.pc = "loop" /\ edit'.cur_line = line /\ edit'.cur_col = col /\ edit'.lines = edit.lines
  BY <1>1, <1>4
<1>8. term'.row = line /\ term'.col = col /\ term'.text = term.text
  BY <1>1, <1>5 DEF Terminal
<1>9. cur_line_len' = len BY <1>7 DEF cur_line_len
<1> QED BY <1>1, <1>3, <1>6, <1>7, <1>8, <1>9 DEF EditorInv

LEMMA EditorKeys ==
  ASSUME EditorInv,
         \/ OneCharacter \/ virtual_key_input_proc
         \/ Reading /\ (move_cursor_down \/ backspace_proc)
  PROVE  EditorInv'
<1>1. edit.pc = "loop" BY DEF OneCharacter, virtual_key_input_proc, Reading
<1> DEFINE line == edit.lines[edit.cur_line]
<1>2. /\ edit \in [pc : {"start", "raw", "loop", "done", "aborted", "killed"}, need_exit : BOOLEAN,
                   cur_line : LineNr, cur_col : Nat, lines : [LineNr -> EditLine]]
      /\ term \in Terminal /\ line \in EditLine /\ cur_line_len = Len(line)
      /\ Len(line) \in 0..MAX_LINE_LEN /\ edit.cur_col \in 0..Len(line)
      /\ edit.cur_line \in LineNr /\ term.row = edit.cur_line /\ term.col = edit.cur_col
      /\ \A l \in LineNr : term.text[l] = OnScreen(edit.lines[l])
  BY <1>1, InLoop
<1>3. CASE backspace_proc
  <2>1. /\ edit.cur_col >= 1
        /\ Change(delete_char(line, edit.cur_col - 1), edit.cur_col - 1)
    BY <1>3 DEF backspace_proc
  <2> HIDE DEF line
  <2>2. edit.cur_col - 1 \in 0..(Len(line) - 1) BY <1>2, <2>1
  <2>3. delete_char(line, edit.cur_col - 1) \in EditLine
        /\ Len(delete_char(line, edit.cur_col - 1)) = Len(line) - 1
    BY <1>2, <2>2, DeletedLine
  <2> QED BY <1>1, <2>1, <2>2, <2>3, ChangeShown
<1>4. CASE delete_proc
  <2>1. edit.cur_col < Len(line) /\ Change(delete_char(line, edit.cur_col), edit.cur_col)
    BY <1>2, <1>4 DEF delete_proc
  <2> HIDE DEF line
  <2>2. edit.cur_col \in 0..(Len(line) - 1) BY <1>2, <2>1
  <2>3. delete_char(line, edit.cur_col) \in EditLine /\ Len(delete_char(line, edit.cur_col)) = Len(line) - 1
    BY <1>2, <2>2, DeletedLine
  <2> QED BY <1>1, <2>1, <2>2, <2>3, ChangeShown
<1>5. CASE normal_key_input_proc
  <2>1. Len(line) < MAX_LINE_LEN /\ \E c \in Char : Change(insert_char(line, c, edit.cur_col), edit.cur_col + 1)
    BY <1>2, <1>5 DEF normal_key_input_proc
  <2>2. PICK c \in Char : Change(insert_char(line, c, edit.cur_col), edit.cur_col + 1) BY <2>1
  <2> HIDE DEF line
  <2>3. insert_char(line, c, edit.cur_col) \in EditLine
        /\ Len(insert_char(line, c, edit.cur_col)) = Len(line) + 1
    BY <1>2, <2>1, InsertedLine
  <2>4. edit.cur_col + 1 \in 0..(Len(line) + 1) BY <1>2
  <2> QED BY <1>1, <2>2, <2>3, <2>4, ChangeShown
<1>6. CASE move_cursor_up
  <2>1. edit.cur_line >= 1 /\ MoveTo(MOVE_CURSOR_UP(term, 1), edit.cur_line - 1)
    BY <1>6 DEF move_cursor_up
  <2>2. MOVE_CURSOR_UP(term, 1) = [term EXCEPT !.row = edit.cur_line - 1]
    BY <1>2 DEF MOVE_CURSOR_UP, Count
  <2>3. edit.cur_line - 1 \in LineNr BY <1>2, <2>1, EditorConstants DEF LineNr
  <2> QED BY <1>1, <2>1, <2>2, <2>3, MoveShown
<1>7. CASE move_cursor_down
  <2>1. edit.cur_line < MAX_LINE_NR - 1 /\ MoveTo(MOVE_CURSOR_DOWN(term, 1), edit.cur_line + 1)
    BY <1>7 DEF move_cursor_down
  <2>2. MOVE_CURSOR_DOWN(term, 1) = [term EXCEPT !.row = edit.cur_line + 1]
    BY <1>2 DEF MOVE_CURSOR_DOWN, Count
  <2>3. edit.cur_line + 1 \in LineNr BY <1>2, <2>1, EditorConstants DEF LineNr
  <2> QED BY <1>1, <2>1, <2>2, <2>3, MoveShown
\* Left and right: only the column.
<1>8. ASSUME NEW col \in 0..Len(line), edit' = [edit EXCEPT !.cur_col = col], term' = [term EXCEPT !.col = col]
      PROVE  EditorInv'
  <2> HIDE DEF line
  <2>1. col \in Nat BY <1>2
  <2>2. EditorTypes' BY <1>2, <1>8, <2>1 DEF EditorTypes, Terminal
  <2>3. edit'.pc = "loop" /\ edit'.cur_line = edit.cur_line /\ edit'.cur_col = col /\ edit'.lines = edit.lines
    BY <1>1, <1>2, <1>8
  <2>4. term'.row = term.row /\ term'.col = col /\ term'.text = term.text BY <1>2, <1>8 DEF Terminal
  <2>5. cur_line_len' = Len(line) BY <2>3 DEF cur_line_len, line
  <2>6. col <= cur_line_len' BY <1>2, <1>8, <2>5
  <2> QED BY <1>2, <2>2, <2>3, <2>4, <2>6 DEF EditorInv
<1>9. CASE move_cursor_left
  <2>1. edit.cur_col > 0 /\ edit' = [edit EXCEPT !.cur_col = edit.cur_col - 1]
        /\ term' = MOVE_CURSOR_LEFT(term, 1)
    BY <1>9 DEF move_cursor_left
  <2>2. MOVE_CURSOR_LEFT(term, 1) = [term EXCEPT !.col = edit.cur_col - 1]
    BY <1>2 DEF MOVE_CURSOR_LEFT, Count
  <2>3. edit.cur_col - 1 \in 0..Len(line) BY <1>2, <2>1
  <2> QED BY <1>8, <2>1, <2>2, <2>3
<1>10. CASE move_cursor_right
  <2>1. edit.cur_col < Len(line) /\ edit' = [edit EXCEPT !.cur_col = edit.cur_col + 1]
        /\ term' = MOVE_CURSOR_RIGHT(term, 1)
    BY <1>2, <1>10 DEF move_cursor_right
  <2>2. MOVE_CURSOR_RIGHT(term, 1) = [term EXCEPT !.col = edit.cur_col + 1]
    BY <1>2 DEF MOVE_CURSOR_RIGHT, Count
  <2>3. edit.cur_col + 1 \in 0..Len(line) BY <1>2, <2>1
  <2> QED BY <1>8, <2>1, <2>2, <2>3
<1> QED
  BY <1>3, <1>4, <1>5, <1>6, <1>7, <1>9, <1>10 DEF OneCharacter, virtual_key_input_proc

LEMMA EditorStep == ASSUME EditorInv, EditorNext PROVE EditorInv'
<1>1. EditorTypes BY DEF EditorInv
<1>2. CASE EditShows
  <2>1. empty_line \in [Column -> Glyph] BY DEF empty_line, Glyph
  <2>2. /\ edit.pc = "raw" /\ edit' = [edit EXCEPT !.pc = "loop"]
        /\ term' = [term EXCEPT !.text = [l \in LineNr |-> empty_line], !.row = 0, !.col = 0]
    BY <1>2 DEF EditShows
  <2>3. EditorTypes' BY <1>1, <2>1, <2>2 DEF EditorTypes, Terminal
  <2>4. edit'.pc = "loop" /\ edit'.cur_line = 0 /\ edit'.cur_col = 0 /\ edit'.lines = edit.lines
    BY <1>1, <2>2 DEF EditorInv, EditorTypes
  <2>5. term'.row = 0 /\ term'.col = 0 /\ \A l \in LineNr : term'.text[l] = empty_line
    BY <1>1, <2>2 DEF EditorTypes, Terminal
  <2>6. \A l \in LineNr : edit'.lines[l] = <<>> BY <2>2, <2>4 DEF EditorInv
  <2>7. cur_line_len' = 0 BY <2>4, <2>6, EditorConstants, EmptySeq DEF cur_line_len
  <2> QED BY <2>3, <2>4, <2>5, <2>6, <2>7, EditLines DEF EditorInv
<1>3. CASE EditEnds
  <2>1. edit' = [edit EXCEPT !.pc = "done"] /\ term' = [term EXCEPT !.raw = FALSE] BY <1>3 DEF EditEnds
  <2> QED BY <1>1, <2>1 DEF EditorInv, EditorTypes, Terminal
<1>4. ASSUME edit' = [edit EXCEPT !.need_exit = TRUE], UNCHANGED term PROVE EditorInv'
  <2>1. EditorTypes' BY <1>1, <1>4 DEF EditorTypes
  <2>2. edit'.pc = edit.pc /\ edit'.cur_line = edit.cur_line /\ edit'.cur_col = edit.cur_col /\ edit'.lines = edit.lines
    BY <1>1, <1>4 DEF EditorTypes
  <2> QED BY <1>4, <2>1, <2>2 DEF EditorInv, cur_line_len
<1>5. CASE ReadsTwoKeys
  <2>1. edit' = [edit EXCEPT !.pc = "aborted"] /\ UNCHANGED term BY <1>5 DEF ReadsTwoKeys
  <2> QED BY <1>1, <2>1 DEF EditorInv, EditorTypes
<1>6. CASE sig_handler BY <1>4, <1>6 DEF sig_handler
<1>7. CASE special_key_input_proc
  <2>1. Reading BY <1>7 DEF special_key_input_proc
  <2>2. CASE move_cursor_down BY <2>1, <2>2, EditorKeys
  <2>3. CASE backspace_proc BY <2>1, <2>3, EditorKeys
  <2> QED BY <1>4, <1>7, <2>2, <2>3 DEF special_key_input_proc
<1>8. CASE OneCharacter BY <1>8, EditorKeys, Zenon
<1>9. CASE virtual_key_input_proc BY <1>9, EditorKeys, Zenon
<1>10. CASE EditStarts
  <2>1. edit.pc = "start" /\ edit' = [edit EXCEPT !.pc = "raw"] /\ term' = [term EXCEPT !.raw = TRUE]
    BY <1>10 DEF EditStarts
  <2> QED BY <1>1, <2>1 DEF EditorInv, EditorTypes, Terminal
<1>11. CASE EditKilled
  <2>1. edit' = [edit EXCEPT !.pc = "killed"] /\ UNCHANGED term BY <1>11 DEF EditKilled
  <2> QED BY <1>1, <2>1 DEF EditorInv, EditorTypes
<1> QED BY <1>2, <1>3, <1>5, <1>6, <1>7, <1>8, <1>9, <1>10, <1>11 DEF EditorNext

LEMMA EditorStays == ASSUME EditorInv, UNCHANGED lineEditor PROVE EditorInv'
BY DEF lineEditor, EditorInv, EditorTypes, cur_line_len
-----------------------------------------------------------------------------
(* The line that the debug shell reads. The whole row of cells is known at *)
(* every key, so that what a longer line has left behind would be seen.    *)

Cell == Printable \cup {"*", "hint", "password:", "login:"}
\* a line of the terminal that shows the prompt, then s, then nothing
Shown(prompt, s) ==
  [c \in 1..Width |-> IF c = 1 THEN prompt ELSE IF c <= Len(s) + 1 THEN s[c - 1] ELSE Space]
Line == {s \in Seq(Printable) : Len(s) <= SHELL_BUF_LEN}

\* what a shell shows, of which line and flags are as in sh
PromptOf(sh) == IF ~sh.is_login THEN "hint" ELSE IF sh.is_password THEN "password:" ELSE "login:"
Masked(sh, s) == IF sh.is_password THEN [i \in DOMAIN s |-> "*"] ELSE s
Screen(p, s) == [cells |-> Shown(p, s), col |-> 1 + Len(s)]

ShellTypes ==
  /\ shell \in [pc : {"start", "user", "password", "command", "overrun"}, line : Line, user : Line,
                is_login : BOOLEAN, is_password : BOOLEAN]
  /\ history \in [cmds : Seq(Line), roll_idx : Nat]
  /\ cur_histotry_cmds_num <= MAX_HISTORY_CMD_NUM
  /\ cur_histotry_cmds_num > 0 => history.roll_idx <= cur_histotry_cmds_num

ShellInv ==
  /\ ShellTypes
  /\ Reads =>
       /\ display = Screen(PromptOf(shell), Masked(shell, shell.line))
       /\ shell.is_password <=> shell.pc = "password"
       /\ shell.is_login <=> shell.pc # "command"

LEMMA Cells ==
  /\ Space \in Cell /\ Printable \subseteq Cell /\ "*" \in Cell
  /\ \A s \in Line : s \in Seq(Cell) /\ Len(s) \in 0..SHELL_BUF_LEN
  /\ <<>> \in Line
<1>1. Space \in Cell /\ Printable \subseteq Cell /\ "*" \in Cell
  BY ShellLineAssumption DEF ShellLineAssumption, Cell
<1>2. ASSUME NEW s \in Line PROVE s \in Seq(Cell) /\ Len(s) \in 0..SHELL_BUF_LEN
  BY <1>1, SeqMonotonic, LenProperties, ShellLineAssumption DEF ShellLineAssumption, Line
<1>3. <<>> \in Line
  BY EmptySeq, ShellLineAssumption DEF ShellLineAssumption, Line
<1> QED BY <1>1, <1>2, <1>3

LEMMA SeenIsMasked ==
  /\ Prompt = PromptOf(shell) /\ PromptOf(shell) \in Cell
  /\ \A s : Seen(s) = Masked(shell, s)
BY DEF Prompt, PromptOf, Seen, Masked, Cell

LEMMA MaskedSeq ==
  ASSUME NEW sh, sh.is_password \in BOOLEAN
  PROVE  /\ \A s \in Line : Masked(sh, s) \in Seq(Cell) /\ Len(Masked(sh, s)) = Len(s)
         /\ Masked(sh, <<>>) = <<>>
<1>1. ASSUME NEW s \in Line PROVE Masked(sh, s) \in Seq(Cell) /\ Len(Masked(sh, s)) = Len(s)
  <2>1. s \in Seq(Cell) /\ Len(s) \in Nat /\ DOMAIN s = 1..Len(s) BY Cells, LenProperties DEF Line
  <2>2. CASE sh.is_password
    <3>1. Masked(sh, s) \in [1..Len(s) -> Cell] BY <2>1, <2>2, Cells DEF Masked
    <3> QED BY <3>1, <2>1, LenOfFunction
  <2>3. CASE ~sh.is_password BY <2>1, <2>3 DEF Masked
  <2> QED BY <2>2, <2>3
<1>2. Masked(sh, <<>>) = <<>>
  <2>1. Masked(sh, <<>>) \in Seq(Cell) /\ Len(Masked(sh, <<>>)) = 0 BY <1>1, Cells, EmptySeq
  <2> QED BY <2>1, EmptySeq
<1> QED BY <1>1, <1>2

\* One more character is shown as one more cell.
LEMMA MaskedAppend ==
  ASSUME NEW sh, sh.is_password \in BOOLEAN, NEW s \in Line, NEW c \in Printable
  PROVE  \E k \in Cell : Masked(sh, <<c>>) = <<k>> /\ Masked(sh, Append(s, c)) = Append(Masked(sh, s), k)
<1>1. CASE ~sh.is_password BY <1>1, Cells DEF Masked
<1>2. CASE sh.is_password
  <2>1. DOMAIN <<c>> = 1..1 /\ <<"*">> = [i \in 1..1 |-> "*"] OBVIOUS
  <2>2. Masked(sh, <<c>>) = <<"*">> BY <1>2, <2>1 DEF Masked
  <2>3. /\ s \in Seq(Printable) /\ Len(s) \in Nat /\ DOMAIN s = 1..Len(s)
        /\ Append(s, c) \in Seq(Printable) /\ Len(Append(s, c)) = Len(s) + 1
        /\ DOMAIN Append(s, c) = 1..(Len(s) + 1)
    BY AppendProperties, LenProperties DEF Line
  <2> DEFINE a == Masked(sh, Append(s, c))
             m == Masked(sh, s)
  <2>4. /\ a \in Seq(Cell) /\ Len(a) = Len(s) + 1 /\ \A i \in 1..(Len(s) + 1) : a[i] = "*"
        /\ m \in Seq(Cell) /\ Len(m) = Len(s) /\ \A i \in 1..Len(s) : m[i] = "*"
    <3>1. a = [i \in 1..(Len(s) + 1) |-> "*"] /\ m = [i \in 1..Len(s) |-> "*"]
      BY <1>2, <2>3 DEF Masked
    <3>2. a \in [1..(Len(s) + 1) -> Cell] /\ m \in [1..Len(s) -> Cell] BY <3>1, Cells
    <3>3. a \in Seq(Cell) /\ Len(a) = Len(s) + 1 /\ m \in Seq(Cell) /\ Len(m) = Len(s)
      <4> HIDE DEF a, m
      <4>1. Len(s) + 1 \in Nat BY <2>3
      <4> QED BY <2>3, <3>2, <4>1, LenOfFunction
    <3> QED BY <3>1, <3>3
  <2> HIDE DEF a, m
  <2>5. /\ Append(m, "*") \in Seq(Cell) /\ Len(Append(m, "*")) = Len(m) + 1
        /\ \A i \in 1..Len(m) : Append(m, "*")[i] = m[i]
        /\ Append(m, "*")[Len(m) + 1] = "*"
    BY <2>4, Cells, AppendProperties
  <2>6. \A i \in 1..Len(a) : a[i] = Append(m, "*")[i]
    BY <2>3, <2>4, <2>5
  <2>7. a = Append(m, "*") BY <2>4, <2>5, <2>6, SeqEqual
  <2> QED BY <2>2, <2>7, Cells DEF a, m
<1> QED BY <1>1, <1>2

\* Printing s after m cells.
LEMMA Printed ==
  ASSUME NEW x, NEW m \in Nat, NEW s \in Seq(Cell)
  PROVE  printf_to_fd([cells |-> x, col |-> m], s)
           = [cells |-> [c \in 1..Width |-> IF c \in (m + 1)..(m + Len(s)) THEN s[c - m] ELSE x[c]],
              col |-> m + Len(s)]
BY DEF printf_to_fd

\* Printing the prompt and a line from the left.
LEMMA PromptPrinted ==
  ASSUME NEW p \in Cell, NEW s \in Seq(Cell), NEW x, NEW n
  PROVE  printf_to_fd(CarriageReturn([cells |-> x, col |-> n]), <<p>> \o s)
           = [cells |-> [c \in 1..Width |-> IF c = 1 THEN p ELSE IF c <= Len(s) + 1 THEN s[c - 1]
                                            ELSE x[c]],
              col |-> 1 + Len(s)]
<1>1. /\ <<p>> \in Seq(Cell) /\ Len(<<p>>) = 1 /\ <<p>>[1] = p /\ Len(s) \in Nat
      /\ Width \in Nat
  BY LenProperties, ShellLineAssumption DEF ShellLineAssumption, Width
<1>2. /\ <<p>> \o s \in Seq(Cell) /\ Len(<<p>> \o s) = 1 + Len(s)
      /\ \A i \in 1..(1 + Len(s)) : (<<p>> \o s)[i] = IF i <= 1 THEN <<p>>[i] ELSE s[i - 1]
  BY <1>1, ConcatProperties
<1> DEFINE t == <<p>> \o s
<1>3. CarriageReturn([cells |-> x, col |-> n]) = [cells |-> x, col |-> 0]
  BY DEF CarriageReturn
<1>4. printf_to_fd([cells |-> x, col |-> 0], t)
        = [cells |-> [c \in 1..Width |-> IF c \in 1..Len(t) THEN t[c] ELSE x[c]], col |-> Len(t)]
  <2> HIDE DEF t
  <2>1. printf_to_fd([cells |-> x, col |-> 0], t)
          = [cells |-> [c \in 1..Width |-> IF c \in (0 + 1)..(0 + Len(t)) THEN t[c - 0] ELSE x[c]],
             col |-> 0 + Len(t)]
    BY <1>2, Printed DEF t
  <2>2. Len(t) \in Nat BY <1>1, <1>2 DEF t
  <2>3. 0 + Len(t) = Len(t) /\ 0 + 1 = 1 BY <2>2
  <2>4. \A c \in 1..Width : c - 0 = c BY <1>1
  <2>5. [c \in 1..Width |-> IF c \in 1..Len(t) THEN t[c - 0] ELSE x[c]]
          = [c \in 1..Width |-> IF c \in 1..Len(t) THEN t[c] ELSE x[c]]
    BY <2>4
  <2> QED BY <2>1, <2>3, <2>5
<1>5. ASSUME NEW c \in 1..Width
      PROVE  (IF c \in 1..Len(t) THEN t[c] ELSE x[c])
               = (IF c = 1 THEN p ELSE IF c <= Len(s) + 1 THEN s[c - 1] ELSE x[c])
  <2> HIDE DEF t
  <2>1. Len(t) = 1 + Len(s) /\ \A i \in 1..(1 + Len(s)) : t[i] = IF i <= 1 THEN p ELSE s[i - 1]
    <3>1. \A i \in 1..(1 + Len(s)) : i <= 1 => i = 1 BY <1>1
    <3> QED BY <1>1, <1>2, <3>1 DEF t
  <2> QED BY <1>1, <2>1
<1> HIDE DEF t
<1>6. Len(t) = 1 + Len(s) BY <1>2 DEF t
<1>7. printf_to_fd(CarriageReturn([cells |-> x, col |-> n]), t)
        = [cells |-> [c \in 1..Width |-> IF c \in 1..Len(t) THEN t[c] ELSE x[c]], col |-> Len(t)]
  BY <1>3, <1>4
<1> QED BY <1>5, <1>6, <1>7 DEF t

\* What is not blank where nothing is printed stays.
LEMMA Refreshed ==
  ASSUME NEW p \in Cell, NEW s \in Seq(Cell), NEW x, NEW n,
         \A c \in 1..Width : c > Len(s) + 1 => x[c] = Space
  PROVE  printf_to_fd(CarriageReturn([cells |-> x, col |-> n]), <<p>> \o s)
           = Screen(p, s)
<1>1. Width \in Nat /\ Len(s) \in Nat
  BY LenProperties, ShellLineAssumption DEF ShellLineAssumption, Width
<1>2. ASSUME NEW c \in 1..Width
      PROVE  (IF c = 1 THEN p ELSE IF c <= Len(s) + 1 THEN s[c - 1] ELSE x[c])
               = (IF c = 1 THEN p ELSE IF c <= Len(s) + 1 THEN s[c - 1] ELSE Space)
  BY <1>1
<1>3. [c \in 1..Width |-> IF c = 1 THEN p ELSE IF c <= Len(s) + 1 THEN s[c - 1] ELSE x[c]]
        = Shown(p, s)
  BY <1>2 DEF Shown
<1> QED BY <1>3, PromptPrinted DEF Screen

LEMMA NewLineShows ==
  ASSUME NEW p \in Cell
  PROVE  /\ \A s \in Seq(Cell) : NewLine(<<p>> \o s) = Screen(p, s)
         /\ NewLine(<<p>>) = Screen(p, <<>>)
<1> DEFINE x == [c \in 1..Width |-> Space]
<1>1. Clear = [cells |-> x, col |-> 0] BY DEF Clear
<1>2. \A c \in 1..Width : x[c] = Space OBVIOUS
<1> HIDE DEF x
<1>3. CarriageReturn([cells |-> x, col |-> 0]) = [cells |-> x, col |-> 0] BY DEF CarriageReturn
<1>4. ASSUME NEW s \in Seq(Cell)
      PROVE  NewLine(<<p>> \o s) = Screen(p, s)
  BY <1>1, <1>2, <1>3, Refreshed DEF NewLine
<1>5. <<p>> \o <<>> = <<p>> /\ <<>> \in Seq(Cell)
  BY ConcatEmptySeq, EmptySeq
<1> QED BY <1>4, <1>5

\* A key after a line.
LEMMA KeyShown ==
  ASSUME NEW p \in Cell, NEW s \in Seq(Cell), NEW k \in Cell, Len(s) < SHELL_BUF_LEN
  PROVE  printf_to_fd(Screen(p, s), <<k>>) = Screen(p, Append(s, k))
<1>1. Width \in Nat /\ Len(s) \in Nat /\ Len(<<k>>) = 1 /\ <<k>>[1] = k /\ <<k>> \in Seq(Cell)
  BY LenProperties, ShellLineAssumption DEF ShellLineAssumption, Width
<1>2. /\ Len(Append(s, k)) = Len(s) + 1 /\ Append(s, k)[Len(s) + 1] = k
      /\ \A i \in 1..Len(s) : Append(s, k)[i] = s[i]
  BY AppendProperties
<1> DEFINE x == Shown(p, s)
           m == 1 + Len(s)
           a == Append(s, k)
<1>3. printf_to_fd([cells |-> x, col |-> m], <<k>>)
           = [cells |-> [c \in 1..Width |-> IF c \in (m + 1)..(m + 1) THEN <<k>>[c - m] ELSE x[c]],
              col |-> m + 1]
  <2>1. m \in Nat BY <1>1
  <2> HIDE DEF x, m
  <2> QED BY <1>1, <2>1, Printed, ZenonT(60)
<1>4. ASSUME NEW c \in 1..Width
      PROVE  (IF c \in (m + 1)..(m + 1) THEN <<k>>[c - m] ELSE x[c])
               = (IF c = 1 THEN p ELSE IF c <= Len(a) + 1 THEN a[c - 1] ELSE Space)
  <2>1. x[c] = IF c = 1 THEN p ELSE IF c <= Len(s) + 1 THEN s[c - 1] ELSE Space BY DEF Shown
  <2> HIDE DEF a, x
  <2>2. CASE c = Len(s) + 2 BY <1>1, <1>2, <2>2 DEF a
  <2>3. CASE c # Len(s) + 2 BY <1>1, <1>2, <2>1, <2>3 DEF a
  <2> QED BY <2>2, <2>3
<1> HIDE DEF a, x, m
<1>5. [c \in 1..Width |-> IF c \in (m + 1)..(m + 1) THEN <<k>>[c - m] ELSE x[c]] = Shown(p, a)
  BY <1>4 DEF Shown
<1>6. m + 1 = 1 + Len(a) BY <1>1, <1>2 DEF a, m
<1> QED BY <1>3, <1>5, <1>6 DEF a, x, m, Screen

\* The line is blanked before a shorter one is shown.
LEMMA BackInput ==
  ASSUME NEW len \in 0..SHELL_BUF_LEN, NEW s \in Line, Len(s) <= len, NEW x, NEW n,
         shell.is_password \in BOOLEAN, \A c \in 1..Width : c > len + 1 => x[c] = Space
  PROVE  back_input([cells |-> x, col |-> n], len, s) = Screen(PromptOf(shell), Masked(shell, s))
<1> DEFINE blanks == [i \in 1..len |-> Space]
           p == PromptOf(shell)
           y == [c \in 1..Width |-> IF c = 1 THEN p ELSE IF c <= Len(blanks) + 1 THEN blanks[c - 1] ELSE x[c]]
           m == 1 + Len(blanks)
<1>0. len \in Nat /\ Width \in Nat BY ShellLineAssumption DEF ShellLineAssumption, Width
<1>1. blanks \in Seq(Cell) /\ Len(blanks) = len
  <2>1. blanks \in [1..len -> Cell] BY Cells
  <2> HIDE DEF blanks
  <2> QED BY <1>0, <2>1, LenOfFunction
<1>2. \A i \in 1..len : blanks[i] = Space OBVIOUS
<1> HIDE DEF blanks
<1>3. p \in Cell BY SeenIsMasked
<1>4. printf_to_fd(CarriageReturn([cells |-> x, col |-> n]), <<p>> \o blanks) = [cells |-> y, col |-> m]
  <2> HIDE DEF p
  <2> QED BY <1>1, <1>3, PromptPrinted
<1>5. ASSUME NEW c \in 1..Width, c > Len(Masked(shell, s)) + 1 PROVE y[c] = Space
  <2>1. Len(Masked(shell, s)) = Len(s) /\ Len(s) \in Nat BY MaskedSeq, Cells
  <2>2. y[c] = IF c = 1 THEN p ELSE IF c <= len + 1 THEN blanks[c - 1] ELSE x[c] BY <1>1
  <2>3. c \in Nat /\ c # 1 BY <1>0, <1>5, <2>1
  <2> QED BY <1>0, <1>2, <2>2, <2>3
<1> HIDE DEF y, m
<1>6. printf_to_fd(CarriageReturn([cells |-> y, col |-> m]), <<p>> \o Masked(shell, s)) = Screen(p, Masked(shell, s))
  BY <1>3, <1>5, MaskedSeq, Refreshed
<1> QED BY <1>4, <1>6, SeenIsMasked DEF back_input, refresh_shell_buf_display, blanks, p
-----------------------------------------------------------------------------
LEMMA ShellLineInitially == ShellLineInit => ShellInv
<1> SUFFICES ASSUME ShellLineInit PROVE ShellInv
  OBVIOUS
<1>1. cur_histotry_cmds_num = 0 BY EmptySeq DEF ShellLineInit, cur_histotry_cmds_num
<1>2. history \in [cmds : Seq(Line), roll_idx : Nat] BY EmptySeq DEF ShellLineInit
<1>3. shell \in [pc : {"start", "user", "password", "command", "overrun"}, line : Line, user : Line,
                 is_login : BOOLEAN, is_password : BOOLEAN]
  BY Cells DEF ShellLineInit
<1>4. ~Reads BY DEF ShellLineInit, Reads
<1> QED BY <1>1, <1>2, <1>3, <1>4, ShellLineAssumption DEF ShellInv, ShellTypes, ShellLineAssumption

LEMMA ShellLineHolds == ShellInv => ShellShows
<1> SUFFICES ASSUME ShellInv, Reads PROVE ShellShows
  BY DEF ShellShows
<1>1. shell.line \in Line /\ shell.is_password \in BOOLEAN BY DEF ShellInv, ShellTypes
<1>2. Seen(shell.line) \in Seq(Cell) /\ Len(Seen(shell.line)) = Len(shell.line)
  BY <1>1, SeenIsMasked, MaskedSeq
<1>3. NewLine(<<Prompt>> \o Seen(shell.line)) = Screen(Prompt, Seen(shell.line))
  BY <1>2, SeenIsMasked, NewLineShows
<1>4. display = Screen(Prompt, Seen(shell.line)) /\ (shell.is_password <=> shell.pc = "password")
  BY SeenIsMasked DEF ShellInv
<1> QED BY <1>3, <1>4 DEF ShellInv, ShellTypes, ShellShows, Reads

LEMMA ShellTyping ==
  ASSUME ShellInv, ReadsBackspace \/ history_cmd_roll_prev \/ history_cmd_roll_next
                  \/ \E c \in Printable : ReadsKey(c)
  PROVE  ShellInv'
<1> DEFINE p == PromptOf(shell)
           s == Masked(shell, shell.line)
<1>1. /\ shell \in [pc : {"start", "user", "password", "command", "overrun"}, line : Line, user : Line,
                    is_login : BOOLEAN, is_password : BOOLEAN]
      /\ shell.line \in Line /\ shell.is_password \in BOOLEAN
      /\ history \in [cmds : Seq(Line), roll_idx : Nat]
      /\ cur_histotry_cmds_num <= MAX_HISTORY_CMD_NUM
      /\ cur_histotry_cmds_num > 0 => history.roll_idx <= cur_histotry_cmds_num
      /\ shell.is_password <=> shell.pc = "password"
      /\ shell.is_login <=> shell.pc # "command"
      /\ display = Screen(p, s) /\ Reads
  BY DEF ShellInv, ShellTypes, ReadsBackspace, history_cmd_roll_prev, history_cmd_roll_next, ReadsKey
<1>2. /\ s \in Seq(Cell) /\ Len(s) = Len(shell.line) /\ p \in Cell
      /\ Len(s) \in 0..SHELL_BUF_LEN /\ Width \in Nat /\ SHELL_BUF_LEN \in Nat
  BY <1>1, MaskedSeq, SeenIsMasked, Cells, ShellLineAssumption, SMTT(60) DEF ShellLineAssumption, Width
<1>3. display = [cells |-> Shown(p, s), col |-> 1 + Len(s)]
      /\ \A c \in 1..Width : c > Len(s) + 1 => Shown(p, s)[c] = Space
  BY <1>1, <1>2 DEF Screen, Shown
<1> HIDE DEF p, s
\* A step that puts another line and shows it.
<1>4. ASSUME NEW line \in Line, shell' = [shell EXCEPT !.line = line],
             display' = Screen(p, Masked(shell, line)),
             history' \in [cmds : Seq(Line), roll_idx : Nat],
             history'.cmds = history.cmds,
             cur_histotry_cmds_num > 0 => history'.roll_idx <= cur_histotry_cmds_num
      PROVE  ShellInv'
  <2>1. shell' \in [pc : {"start", "user", "password", "command", "overrun"}, line : Line, user : Line,
                    is_login : BOOLEAN, is_password : BOOLEAN]
    BY <1>1, <1>4
  <2>2. /\ shell'.line = line /\ shell'.is_password = shell.is_password /\ shell'.pc = shell.pc
        /\ shell'.is_login = shell.is_login
    BY <1>1, <1>4
  <2>3. PromptOf(shell') = p /\ Masked(shell', line) = Masked(shell, line)
    BY <2>2 DEF PromptOf, Masked, p
  <2>4. cur_histotry_cmds_num' = cur_histotry_cmds_num BY <1>4 DEF cur_histotry_cmds_num
  <2>5. ShellTypes' BY <1>1, <1>4, <2>1, <2>4 DEF ShellTypes
  <2> QED BY <1>1, <1>4, <2>2, <2>3, <2>5 DEF ShellInv
<1>5. ASSUME NEW c \in Printable, ReadsKey(c) PROVE ShellInv'
  <2>1. PICK k \in Cell : Masked(shell, <<c>>) = <<k>> /\ Masked(shell, Append(shell.line, c)) = Append(s, k)
    BY <1>1, MaskedAppend DEF s
  <2>2. display' = Screen(p, Append(s, k))
    <3>1. Len(s) < SHELL_BUF_LEN BY <1>2, <1>5 DEF ReadsKey, Full
    <3> QED BY <1>1, <1>2, <1>5, <2>1, <3>1, SeenIsMasked, KeyShown DEF ReadsKey
  <2>3. Append(shell.line, c) \in Line
    BY <1>1, <1>2, <1>5, AppendProperties DEF ReadsKey, Full, Line
  <2> QED BY <1>1, <1>4, <1>5, <2>1, <2>2, <2>3 DEF ReadsKey
<1>6. CASE ReadsBackspace
  <2> DEFINE f == Front(shell.line)
  <2>1. f \in Line /\ Len(f) = Len(shell.line) - 1
    <3>1. /\ shell.line \in Seq(Printable) /\ Len(shell.line) \in 0..SHELL_BUF_LEN
          /\ Len(shell.line) # 0
      BY <1>1, <1>6, Cells, EmptySeq DEF ReadsBackspace, Line
    <3>2. \A i \in 1..(Len(shell.line) - 1) : shell.line[i] \in Printable
      BY <3>1, ElementOfSeq
    <3>3. f \in Seq(Printable) /\ Len(f) = Len(shell.line) - 1
      BY <3>1, <3>2, SubSeqProperties DEF Front
    <3> QED BY <1>2, <3>1, <3>3 DEF Line
  <2> HIDE DEF f
  <2>2. display' = Screen(p, Masked(shell, f))
    <3>1. display' = back_input(display, Len(s), f) BY <1>2, <1>6 DEF ReadsBackspace, f
    <3>2. Len(f) <= Len(s) BY <1>2, <2>1
    <3> QED BY <1>1, <1>2, <1>3, <2>1, <3>1, <3>2, BackInput DEF p
  <2> QED BY <1>1, <1>4, <1>6, <2>1, <2>2 DEF ReadsBackspace, f
<1>7. ASSUME NEW idx \in Nat, idx < cur_histotry_cmds_num, Roll(idx) PROVE ShellInv'
  <2> DEFINE name == history.cmds[idx + 1]
             len == Len(shell.line)
             blanked == IF Len(name) < len THEN back_input(display, len, name) ELSE display
  <2>1. name \in Line
    <3>1. history.cmds \in Seq(Line) /\ Len(history.cmds) \in Nat BY <1>1, LenProperties
    <3>2. idx + 1 \in 1..Len(history.cmds) BY <1>7, <3>1 DEF cur_histotry_cmds_num
    <3> QED BY <3>1, <3>2, ElementOfSeq
  <2>2. /\ shell' = [shell EXCEPT !.line = name] /\ history' = [history EXCEPT !.roll_idx = idx]
        /\ display' = refresh_shell_buf_display(blanked, name)
    BY <1>7 DEF Roll
  <2> HIDE DEF name
  <2>3. Masked(shell, name) \in Seq(Cell) /\ Len(Masked(shell, name)) = Len(name) /\ Len(name) \in Nat
    <3>1. Len(name) \in 0..SHELL_BUF_LEN BY <2>1, Cells
    <3>2. Masked(shell, name) \in Seq(Cell) /\ Len(Masked(shell, name)) = Len(name)
      BY <1>1, <2>1, MaskedSeq
    <3> QED BY <1>2, <3>1, <3>2
  <2>4. display' = Screen(p, Masked(shell, name))
    <3>1. refresh_shell_buf_display(blanked, name)
            = printf_to_fd(CarriageReturn(blanked), <<p>> \o Masked(shell, name))
      BY SeenIsMasked DEF refresh_shell_buf_display, p
    <3>2. CASE Len(name) < len
      <4>1. blanked = Screen(p, Masked(shell, name))
        <5>1. Len(name) <= Len(s) BY <1>2, <2>3, <3>2
        <5> QED BY <1>1, <1>2, <1>3, <2>1, <3>2, <5>1, BackInput DEF p
      <4>2. \A c \in 1..Width : c > Len(Masked(shell, name)) + 1
              => Shown(p, Masked(shell, name))[c] = Space
        BY <1>2, <2>3 DEF Shown
      <4> HIDE DEF blanked
      <4> QED BY <1>2, <2>2, <2>3, <3>1, <4>1, <4>2, Refreshed DEF Screen
    <3>3. CASE ~(Len(name) < len)
      <4>1. blanked = [cells |-> Shown(p, s), col |-> 1 + Len(s)] BY <1>3, <3>3
      <4>2. \A c \in 1..Width : c > Len(Masked(shell, name)) + 1 => Shown(p, s)[c] = Space
        BY <1>2, <1>3, <2>3, <3>3
      <4> HIDE DEF blanked
      <4> QED BY <1>2, <2>2, <2>3, <3>1, <4>1, <4>2, Refreshed
    <3> QED BY <3>2, <3>3
  <2>5. history' \in [cmds : Seq(Line), roll_idx : Nat] /\ history'.cmds = history.cmds /\ history'.roll_idx = idx
    BY <1>1, <2>2
  <2>6. cur_histotry_cmds_num \in Nat BY <1>1, LenProperties DEF cur_histotry_cmds_num
  <2> QED BY <1>4, <1>7, <2>1, <2>2, <2>4, <2>5, <2>6
<1>8. cur_histotry_cmds_num \in Nat /\ history.roll_idx \in Nat
  BY <1>1, LenProperties DEF cur_histotry_cmds_num
<1>9. CASE history_cmd_roll_prev
  <2>1. history.roll_idx - 1 \in Nat /\ history.roll_idx - 1 < cur_histotry_cmds_num
    BY <1>1, <1>8, <1>9 DEF history_cmd_roll_prev
  <2> QED BY <1>7, <1>9, <2>1 DEF history_cmd_roll_prev
<1>10. CASE history_cmd_roll_next
  <2>1. history.roll_idx + 1 \in Nat /\ history.roll_idx + 1 < cur_histotry_cmds_num
    BY <1>1, <1>8, <1>10 DEF history_cmd_roll_next
  <2> QED BY <1>7, <1>10, <2>1 DEF history_cmd_roll_next
<1> QED BY <1>5, <1>6, <1>9, <1>10

\* The line is empty after a step of the thread.
LEMMA ShellThread ==
  ASSUME ShellInv, ShellBegins \/ UserGiven \/ PasswordGiven \/ CommandGiven
  PROVE  ShellInv'
<1>1. /\ shell \in [pc : {"start", "user", "password", "command", "overrun"}, line : Line, user : Line,
                    is_login : BOOLEAN, is_password : BOOLEAN]
      /\ history \in [cmds : Seq(Line), roll_idx : Nat]
      /\ cur_histotry_cmds_num <= MAX_HISTORY_CMD_NUM
      /\ cur_histotry_cmds_num > 0 => history.roll_idx <= cur_histotry_cmds_num
      /\ Reads => (shell.is_password <=> shell.pc = "password") /\ (shell.is_login <=> shell.pc # "command")
  BY DEF ShellInv, ShellTypes
<1>2. ASSUME shell' \in [pc : {"start", "user", "password", "command", "overrun"}, line : Line, user : Line,
                         is_login : BOOLEAN, is_password : BOOLEAN],
             history' \in [cmds : Seq(Line), roll_idx : Nat],
             cur_histotry_cmds_num' <= MAX_HISTORY_CMD_NUM,
             cur_histotry_cmds_num' > 0 => history'.roll_idx <= cur_histotry_cmds_num',
             shell'.line = <<>>,
             Reads' => /\ display' = NewLine(<<PromptOf(shell')>>)
                       /\ shell'.is_password <=> shell'.pc = "password"
                       /\ shell'.is_login <=> shell'.pc # "command"
      PROVE  ShellInv'
  <2>1. Masked(shell', <<>>) = <<>> BY <1>2, MaskedSeq
  <2>2. PromptOf(shell') \in Cell BY DEF PromptOf, Cell
  <2>3. NewLine(<<PromptOf(shell')>>) = Screen(PromptOf(shell'), <<>>) BY <2>2, NewLineShows
  <2> QED BY <1>2, <2>1, <2>3 DEF ShellInv, ShellTypes
<1>3. CASE ShellBegins
  <2>1. /\ shell' = [pc |-> "user", line |-> <<>>, user |-> <<>>, is_login |-> TRUE, is_password |-> FALSE]
        /\ history' = [history EXCEPT !.cmds = <<>>] /\ display' = NewLine(<<"login:">>)
    BY <1>3 DEF ShellBegins
  <2>2. cur_histotry_cmds_num' = 0 /\ history' \in [cmds : Seq(Line), roll_idx : Nat]
    BY <1>1, <2>1, EmptySeq DEF cur_histotry_cmds_num
  <2>3. PromptOf(shell') = "login:" BY <2>1 DEF PromptOf
  <2>4. shell' \in [pc : {"start", "user", "password", "command", "overrun"}, line : Line, user : Line,
                    is_login : BOOLEAN, is_password : BOOLEAN]
    BY <2>1, Cells
  <2> QED BY <1>2, <2>1, <2>2, <2>3, <2>4, ShellLineAssumption DEF ShellLineAssumption
<1>4. CASE UserGiven
  <2>1. /\ shell' = [shell EXCEPT !.pc = "password", !.user = shell.line, !.line = <<>>, !.is_password = TRUE]
        /\ display' = NewLine(<<"password:">>) /\ UNCHANGED history /\ shell.pc = "user" /\ Reads
    BY <1>4 DEF UserGiven, Enter, Reads
  <2>2. shell'.is_login /\ shell'.is_password /\ shell'.pc = "password" BY <1>1, <2>1
  <2>3. PromptOf(shell') = "password:" BY <2>2 DEF PromptOf
  <2>4. shell' \in [pc : {"start", "user", "password", "command", "overrun"}, line : Line, user : Line,
                    is_login : BOOLEAN, is_password : BOOLEAN] /\ shell'.line = <<>>
    BY <1>1, <2>1, Cells
  <2> QED BY <1>1, <1>2, <2>1, <2>2, <2>3, <2>4 DEF cur_histotry_cmds_num
<1>5. CASE PasswordGiven
  <2>1. /\ shell' = [shell EXCEPT !.line = <<>>, !.is_password = FALSE, !.is_login = (shell.user # Admin),
                                  !.pc = IF shell.user = Admin THEN "command" ELSE "user"]
        /\ display' = NewLine(IF shell.user = Admin THEN <<"hint">> ELSE <<"login:">>) /\ UNCHANGED history
    BY <1>5 DEF PasswordGiven
  <2>2. /\ shell' \in [pc : {"start", "user", "password", "command", "overrun"}, line : Line, user : Line,
                    is_login : BOOLEAN, is_password : BOOLEAN] /\ shell'.line = <<>>
        /\ shell'.is_login = (shell.user # Admin) /\ shell'.is_password = FALSE
        /\ shell'.pc = IF shell.user = Admin THEN "command" ELSE "user"
    BY <1>1, <2>1, Cells
  <2>3. display' = NewLine(<<PromptOf(shell')>>) BY <2>1, <2>2 DEF PromptOf
  <2>4. shell'.is_password <=> shell'.pc = "password" BY <2>2
  <2>5. shell'.is_login <=> shell'.pc # "command" BY <2>2
  <2> QED BY <1>1, <1>2, <2>1, <2>2, <2>3, <2>4, <2>5 DEF cur_histotry_cmds_num
<1>6. CASE CommandGiven
  <2> DEFINE pc == IF str_trim_all(shell.line) = Quit THEN "start" ELSE shell.pc
  <2>1. shell' = [shell EXCEPT !.line = <<>>, !.pc = pc] /\ display' = NewLine(<<"hint">>)
        /\ shell.pc = "command" /\ Reads
    BY <1>6 DEF CommandGiven, Enter, Reads
  <2>2. pc \in {"start", "command"} BY <2>1
  <2> HIDE DEF pc
  <2>3. /\ shell' \in [pc : {"start", "user", "password", "command", "overrun"}, line : Line, user : Line,
                    is_login : BOOLEAN, is_password : BOOLEAN] /\ shell'.line = <<>>
        /\ shell'.is_login = FALSE /\ shell'.is_password = FALSE /\ shell'.pc \in {"start", "command"}
    BY <1>1, <2>1, <2>2, Cells
  <2>4. PromptOf(shell') = "hint" BY <2>3 DEF PromptOf
  <2>5. Reads' => shell'.pc = "command" BY <2>3 DEF Reads
  <2>6. /\ history' \in [cmds : Seq(Line), roll_idx : Nat]
        /\ cur_histotry_cmds_num' <= MAX_HISTORY_CMD_NUM
        /\ cur_histotry_cmds_num' > 0 => history'.roll_idx <= cur_histotry_cmds_num'
    <3>1. CASE UNCHANGED history BY <1>1, <3>1 DEF cur_histotry_cmds_num
    <3>2. CASE LET cmds == update_histotry_cmds(history.cmds, shell.line)
               IN  history' = [cmds |-> cmds, roll_idx |-> Len(cmds)]
      <4> DEFINE old == IF Len(history.cmds) = MAX_HISTORY_CMD_NUM THEN Tail(history.cmds) ELSE history.cmds
                 new == Append(old, shell.line)
      <4>1. history' = [cmds |-> new, roll_idx |-> Len(new)] BY <3>2 DEF update_histotry_cmds
      <4>2. old \in Seq(Line) /\ Len(old) \in Nat /\ Len(old) < MAX_HISTORY_CMD_NUM
        <5>1. /\ history.cmds \in Seq(Line) /\ Len(history.cmds) \in Nat
              /\ Len(history.cmds) <= MAX_HISTORY_CMD_NUM /\ MAX_HISTORY_CMD_NUM \in Nat \ {0}
          BY <1>1, LenProperties, ShellLineAssumption DEF ShellLineAssumption, cur_histotry_cmds_num
        <5>2. CASE Len(history.cmds) = MAX_HISTORY_CMD_NUM
          <6>1. history.cmds # <<>> BY <5>1, <5>2, EmptySeq
          <6> QED BY <5>1, <5>2, <6>1, HeadTailProperties
        <5>3. CASE Len(history.cmds) # MAX_HISTORY_CMD_NUM BY <5>1, <5>3
        <5> QED BY <5>2, <5>3
      <4> HIDE DEF old
      <4>3. new \in Seq(Line) /\ Len(new) = Len(old) + 1 BY <1>1, <4>2, AppendProperties
      <4> HIDE DEF new
      <4>4. Len(new) \in Nat /\ Len(new) <= MAX_HISTORY_CMD_NUM
        BY <4>2, <4>3, ShellLineAssumption DEF ShellLineAssumption
      <4> QED BY <4>1, <4>3, <4>4 DEF cur_histotry_cmds_num
    <3> QED BY <1>6, <3>1, <3>2 DEF CommandGiven
  <2> QED BY <1>2, <2>1, <2>3, <2>4, <2>5, <2>6
<1> QED BY <1>3, <1>4, <1>5, <1>6

LEMMA ShellLineStep == ASSUME ShellInv, ShellLineNext PROVE ShellInv'
<1>1. CASE Overruns
  <2>1. /\ shell' = [shell EXCEPT !.pc = "overrun"] /\ UNCHANGED <<history, display>>
        /\ ShellTypes
    BY <1>1 DEF Overruns, ShellInv
  <2>2. shell'.pc = "overrun" /\ ShellTypes' BY <2>1 DEF ShellTypes, cur_histotry_cmds_num
  <2> QED BY <2>2 DEF ShellInv, Reads
<1>2. CASE ~Overruns BY <1>2, ShellTyping, ShellThread DEF ShellLineNext
<1> QED BY <1>1, <1>2

LEMMA ShellLineStays == ASSUME ShellInv, UNCHANGED shellLine PROVE ShellInv'
BY DEF shellLine, ShellInv, ShellTypes, Reads, cur_histotry_cmds_num
-----------------------------------------------------------------------------
(* AudioModem: a sound that nothing disturbed is of the bytes one after    *)
(* the other, each bit of each at its place. A receiver that has taken k   *)
(* of them rests where the next start bit is the first one it can find,    *)
(* and finds it less than half a window too early, and less than a window  *)
(* too late: then more than half of each of its windows is the one bit's.  *)

Samples == (1 + BITS + STOP_BITS) * BIT
Begin(i) == SILENCE + PREAMBLE + (i - 1) * Samples
DataEnd(i) == Begin(i) + (1 + BITS) * BIT

(* The sound of the preamble and of the first n bytes, bit after bit.      *)
Sounded(n) ==
  /\ Len(air) = Begin(n + 1)
  /\ \A u \in 1..SILENCE : air[u] = "silence"
  /\ \A u \in (SILENCE + 1)..(SILENCE + PREAMBLE) : air[u] = "mark"
  /\ \A i \in 1..n, j \in 0..BITS, r \in 1..BIT : air[Begin(i) + j * BIT + r] = Level(ToSend[i], j)
  /\ \A i \in 1..n, u \in 1..(STOP_BITS * BIT) : air[DataEnd(i) + u] = "mark"

ServerTypes ==
  /\ file \in Seq(Byte) /\ air \in Seq({"mark", "space", "silence"})
  /\ server \in [pc : {"start", "plays", "done"}, sent : Nat] /\ troubles \in Nat

ServerInv ==
  /\ ServerTypes
  /\ server.sent <= Len(ToSend)
  /\ server.pc = "start" => server.sent = 0 /\ air = Tone("silence", SILENCE)
  /\ (server.pc = "plays" /\ troubles = 0) => Sounded(server.sent)
  /\ (server.pc = "done" /\ troubles = 0) =>
       Sounded(Len(ToSend)) \/ air = Tone("silence", SILENCE)

(* How many bytes the receiver has taken from the sound, and where it may  *)
(* be after k of them: less than half a window before the end of the last  *)
(* one's data, and before the next one.                                    *)
Heard ==
  CASE receiver.pc = "sync" -> IF receiver.first THEN 1 ELSE 0
    [] receiver.pc = "size" -> 2 + receiver.n
    [] OTHER -> 2 + SIZE_LEN + Len(receiver.file)
Resting(at, k) ==
  /\ at \in Nat /\ at <= Begin(k + 1)
  /\ IF k = 0 THEN SILENCE <= at ELSE 2 * (DataEnd(k) - at) < check_size

ReceiverTypes ==
  receiver \in [pc : {"start", "sync", "size", "data", "complete", "failed"}, at : Nat, first : BOOLEAN,
                n : Nat, fsize : Nat, file : Seq(Byte), late : BOOLEAN]

Well == ~receiver.late /\ troubles = 0 /\ Len(file) < Power[SIZE_LEN]

Follows ==
  /\ receiver.pc \in {"sync", "size", "data"} => Sounded(Len(ToSend)) /\ Resting(receiver.at, Heard)
  /\ receiver.pc = "sync" => receiver.n = 0 /\ receiver.fsize = 0
  /\ receiver.pc = "size" =>
       receiver.n < SIZE_LEN /\ receiver.fsize = Len(file) \div Power[SIZE_LEN - receiver.n]
  /\ receiver.pc = "data" => receiver.fsize = Len(file)
  /\ receiver.pc = "complete" => receiver.file = file

AudioInv ==
  /\ ServerInv /\ ReceiverTypes
  /\ receiver.pc # "start" => server.pc = "done"
  /\ receiver.pc \in {"start", "sync", "size"} => receiver.file = <<>>
  /\ receiver.pc = "start" => receiver.n = 0 /\ receiver.fsize = 0 /\ ~receiver.first
  /\ Well => Follows /\ IsPrefix(receiver.file, file)

Tones == {"mark", "space", "silence"}

\* A set of naturals that is not empty has a least member.
LEMMA Least ==
  ASSUME NEW S \in SUBSET Nat, S # {}
  PROVE  \E x \in S : \A y \in S : x <= y
<1>1. IsWellFoundedOn(OpToRel(<, Nat), Nat) BY NatLessThanWellFounded
<1>2. PICK x \in S : \A y \in S : ~(<<y, x>> \in OpToRel(<, Nat)) BY <1>1, WFMin, Zenon
<1>3. \A y \in S : ~(y < x) BY <1>2 DEF OpToRel
<1> QED BY <1>3

\* Samples and windows.
LEMMA Sizes ==
  /\ BIT \in Nat /\ check_size \in Nat /\ 1 <= check_size /\ 2 * check_size <= BIT
  /\ BITS \in Nat /\ BITS * BIT \in Nat /\ STOP_BITS * BIT \in Nat /\ BIT <= STOP_BITS * BIT
  /\ SILENCE \in Nat /\ PREAMBLE \in Nat
<1>1. BIT \in Nat /\ BIT >= 2 /\ BITS \in Nat /\ STOP_BITS \in Nat /\ 1 <= STOP_BITS
  BY AudioAssumption DEF AudioAssumption
<1>2. BITS * BIT \in Nat /\ STOP_BITS * BIT \in Nat /\ 1 * BIT <= STOP_BITS * BIT BY <1>1, Multiples
<1>3. SILENCE \in Nat /\ PREAMBLE \in Nat BY AudioAssumption DEF AudioAssumption
<1> QED BY <1>1, <1>2, <1>3 DEF check_size

\* What is heard of two tones in a window, of a tone that fills a part of it
\* or all of it, and what the receiver makes of that.
LEMMA ShareCounts ==
  ASSUME NEW at \in Int, NEW len \in Nat, NEW x, NEW y, x # y, air \in Seq({"mark", "space", "silence"})
  PROVE  /\ Share(at, len, x) \in Nat /\ Share(at, len, y) \in Nat
         /\ Share(at, len, x) + Share(at, len, y) <= len
<1> DEFINE W == (at + 1)..(at + len)
           X == {u \in W : u <= Len(air) /\ air[u] = x}
           Y == {u \in W : u <= Len(air) /\ air[u] = y}
<1>1. IsFiniteSet(W) /\ Cardinality(W) = len BY FS_Interval
<1>2. X \in SUBSET W /\ Y \in SUBSET W /\ X \cap Y = {} OBVIOUS
<1> HIDE DEF W, X, Y
<1>3. IsFiniteSet(X) /\ IsFiniteSet(Y) BY <1>1, <1>2, FS_Subset
<1>4. IsFiniteSet(X \cup Y) /\ Cardinality(X \cup Y) = Cardinality(X) + Cardinality(Y) - Cardinality(X \cap Y)
  BY <1>3, FS_Union
<1>5. Cardinality(X \cap Y) = 0 BY <1>2, FS_EmptySet
<1>6. Cardinality(X \cup Y) <= Cardinality(W) BY <1>1, <1>2, FS_Subset
<1>7. Cardinality(X) \in Nat /\ Cardinality(Y) \in Nat BY <1>3, FS_CardinalityType
<1>8. Share(at, len, x) = Cardinality(X) /\ Share(at, len, y) = Cardinality(Y) BY DEF Share, X, Y, W
<1> QED BY <1>1, <1>4, <1>5, <1>6, <1>7, <1>8

\* What sounds from l to h counts.
LEMMA ShareOf ==
  ASSUME NEW at \in Int, NEW len \in Nat, NEW x, NEW l \in Int, NEW h \in Int,
         at < l, h <= at + len, l <= h + 1, \A u \in l..h : u <= Len(air) /\ air[u] = x
  PROVE  h - l + 1 <= Share(at, len, x)
<1> DEFINE W == (at + 1)..(at + len)
           X == {u \in W : u <= Len(air) /\ air[u] = x}
           I == l..h
<1>1. IsFiniteSet(W) BY FS_Interval
<1>2. X \in SUBSET W /\ I \in SUBSET X OBVIOUS
<1>3. Cardinality(I) = h - l + 1 BY FS_Interval
<1> HIDE DEF W, X, I
<1>4. IsFiniteSet(X) BY <1>1, <1>2, FS_Subset
<1>5. Cardinality(I) <= Cardinality(X) BY <1>2, <1>4, FS_Subset
<1>6. Share(at, len, x) = Cardinality(X) BY DEF Share, X, W
<1> QED BY <1>3, <1>5, <1>6

LEMMA LouderOf ==
  ASSUME NEW at \in Int, NEW len \in Nat, NEW x, NEW y, x # y, NEW l \in Int, NEW h \in Int,
         air \in Seq({"mark", "space", "silence"}),
         at < l, h <= at + len, len < 2 * (h - l + 1), \A u \in l..h : u <= Len(air) /\ air[u] = x
  PROVE  Louder(x, y, at, len) /\ ~Louder(y, x, at, len)
<1>1. h - l + 1 <= Share(at, len, x) BY ShareOf
<1>2. Share(at, len, x) \in Nat /\ Share(at, len, y) \in Nat /\ Share(at, len, x) + Share(at, len, y) <= len
  BY ShareCounts
<1> QED BY <1>1, <1>2 DEF Louder

LEMMA NoSpace ==
  ASSUME NEW at \in Int, NEW l \in Int, NEW h \in Int, air \in Seq({"mark", "space", "silence"}),
         at < l, h <= at + check_size, check_size <= 2 * (h - l + 1),
         \A u \in l..h : u <= Len(air) /\ air[u] = "mark"
  PROVE  ~IsSpace(at)
<1> DEFINE space == Share(at, check_size, "space")
           mark == Share(at, check_size, "mark")
<1>0. check_size \in Nat /\ "space" # "mark" /\ l <= h + 1 BY Sizes
<1>1. h - l + 1 <= mark BY <1>0, ShareOf
<1>2. space \in Nat /\ mark \in Nat /\ space + mark <= check_size BY <1>0, ShareCounts
<1>3. IsSpace(at) <=> space * space > 2 * (mark * mark) BY DEF IsSpace
<1> HIDE DEF space, mark
<1>4. space <= mark BY <1>0, <1>1, <1>2
<1>5. space * space \in Nat /\ space * space <= mark * space BY <1>2, <1>4, Multiples
<1>6. space * mark \in Nat /\ mark * mark \in Nat /\ space * mark <= mark * mark BY <1>2, <1>4, Multiples
<1>7. space * mark = mark * space BY <1>2
<1> QED BY <1>3, <1>5, <1>6, <1>7

LEMMA AllSpace ==
  ASSUME NEW at \in Int, air \in Seq({"mark", "space", "silence"}),
         \A u \in (at + 1)..(at + check_size) : u <= Len(air) /\ air[u] = "space"
  PROVE  IsSpace(at)
<1> DEFINE space == Share(at, check_size, "space")
           mark == Share(at, check_size, "mark")
<1>0. check_size \in Nat /\ 1 <= check_size /\ "space" # "mark" BY Sizes
<1>1. check_size <= space
  <2> DEFINE l == at + 1
             h == at + check_size
  <2>1. l \in Int /\ h \in Int /\ at < l /\ h <= at + check_size /\ l <= h + 1 /\ h - l + 1 = check_size
    BY <1>0
  <2>2. \A u \in l..h : u <= Len(air) /\ air[u] = "space" OBVIOUS
  <2> HIDE DEF l, h, space
  <2>3. h - l + 1 <= Share(at, check_size, "space") BY <1>0, <2>1, <2>2, ShareOf
  <2> QED BY <2>1, <2>3 DEF space
<1>2. space \in Nat /\ mark \in Nat /\ space + mark <= check_size BY <1>0, ShareCounts
<1>3. IsSpace(at) <=> space * space > 2 * (mark * mark) BY DEF IsSpace
<1> HIDE DEF space, mark
<1>4. mark = 0 /\ 1 <= space BY <1>0, <1>1, <1>2
<1>5. 1 * space <= space * space BY <1>2, <1>4, Multiples
<1> QED BY <1>2, <1>3, <1>4, <1>5

\* Division, and the powers of BASE. Power is what its equation says it is:
\* there is no least number up to which it is not.
LEMMA QuotientIs ==
  ASSUME NEW n \in Nat, NEW d \in Nat \ {0}, NEW q \in Nat, q * d <= n, n < (q + 1) * d
  PROVE  n \div d = q
<1> DEFINE p == n \div d
<1>1. q <= p BY Fits
<1>2. p \in Nat /\ n % d \in 0..(d - 1) /\ p * d + (n % d) = n BY Division
<1> HIDE DEF p
<1>3. SUFFICES ASSUME q + 1 <= p PROVE FALSE BY <1>1, <1>2 DEF p
<1>4. (q + 1) * d <= p * d /\ p * d \in Nat /\ (q + 1) * d \in Nat BY <1>2, <1>3, Multiples
<1> QED BY <1>2, <1>4

LEMMA QuotientOfQuotient ==
  ASSUME NEW n \in Nat, NEW p \in Nat \ {0}, NEW b \in Nat \ {0}
  PROVE  b * p \in Nat \ {0} /\ n \div p \in Nat /\ n \div (b * p) = (n \div p) \div b
<1> DEFINE a == n \div p
           q == a \div b
           s == a % b
           r == n % p
<1>1. a \in Nat /\ r \in 0..(p - 1) /\ a * p + r = n BY Division
<1>2. q \in Nat /\ s \in 0..(b - 1) /\ q * b + s = a
  <2> HIDE DEF a
  <2> QED BY <1>1, Division
<1> HIDE DEF a, q, s, r
<1>3. b * p \in Nat /\ 1 * p <= b * p BY Multiples
<1>4. q * b \in Nat /\ (q * b) * p \in Nat /\ s * p \in Nat BY <1>2, Multiples
<1>5. a * p = (q * b) * p + s * p
  <2>1. \A x, y, z \in Nat : (x + y) * z = x * z + y * z OBVIOUS
  <2> QED BY <1>2, <1>4, <2>1
<1>6. (q * b) * p = q * (b * p) BY <1>2
<1>7. s * p + p <= b * p
  <2>1. (s + 1) * p <= b * p BY <1>2, Multiples
  <2>2. (s + 1) * p = s * p + p BY <1>2, OneMore
  <2> QED BY <2>1, <2>2
<1>8. (q + 1) * (b * p) = q * (b * p) + b * p BY <1>2, <1>3, OneMore
<1>9. q * (b * p) <= n /\ n < (q + 1) * (b * p) BY <1>1, <1>3, <1>4, <1>5, <1>6, <1>7, <1>8
<1>10. n \div (b * p) = q BY <1>2, <1>3, <1>9, QuotientIs
<1> QED BY <1>1, <1>3, <1>10 DEF a, q

\* The recursive definition of Power defines a function.
LEMMA PowerDefined == Power = [k \in 0..SIZE_LEN |-> IF k = 0 THEN 1 ELSE BASE * Power[k - 1]]
<1> DEFINE Defines(p, m) == p = [k \in 0..m |-> IF k = 0 THEN 1 ELSE BASE * p[k - 1]]
           S == {m \in Nat : ~\E p : Defines(p, m)}
<1>1. S = {}
  <2> SUFFICES ASSUME S # {} PROVE FALSE OBVIOUS
  <2>0. S \in SUBSET Nat OBVIOUS
  <2>1. PICK m \in S : \A y \in S : m <= y
    <3> HIDE DEF S
    <3> QED BY <2>0, Least
  <2>2. CASE m = 0
    <3> DEFINE p == [k \in 0..0 |-> 1]
    <3>1. \A k \in 0..0 : (IF k = 0 THEN 1 ELSE BASE * p[k - 1]) = 1 OBVIOUS
    <3>2. Defines(p, 0) BY <3>1
    <3> QED BY <2>1, <2>2, <3>2
  <2>3. CASE m # 0
    <3>1. m \in Nat /\ m - 1 \in Nat /\ m - 1 \notin S
      <4>1. m \in Nat OBVIOUS
      <4> HIDE DEF S
      <4> QED BY <2>1, <2>3, <4>1
    <3>2. PICK p : Defines(p, m - 1) BY <3>1
    <3> DEFINE q == [k \in 0..m |-> IF k = m THEN BASE * p[m - 1] ELSE p[k]]
    <3>3. \A k \in 0..m : q[k] = IF k = 0 THEN 1 ELSE BASE * q[k - 1]
      <4> SUFFICES ASSUME NEW k \in 0..m PROVE q[k] = IF k = 0 THEN 1 ELSE BASE * q[k - 1] OBVIOUS
      <4>1. CASE k = m
        <5>1. q[k] = BASE * p[m - 1] /\ q[k - 1] = p[m - 1] /\ k # 0 BY <2>3, <3>1, <4>1
        <5> QED BY <4>1, <5>1
      <4>2. CASE k # m
        <5>1. k \in 0..(m - 1) BY <3>1, <4>2
        <5>2. p[k] = IF k = 0 THEN 1 ELSE BASE * p[k - 1] BY <3>2, <5>1
        <5>3. q[k] = p[k] BY <4>2
        <5>4. k # 0 => q[k - 1] = p[k - 1] BY <3>1, <5>1
        <5> QED BY <5>2, <5>3, <5>4
      <4> QED BY <4>1, <4>2
    <3>4. Defines(q, m)
      <4>1. q = [k \in 0..m |-> q[k]] OBVIOUS
      <4> HIDE DEF q
      <4> QED BY <3>3, <4>1, Zenon
    <3> QED BY <2>1, <3>4
  <2> QED BY <2>2, <2>3
<1>2. SIZE_LEN \in Nat BY AudioAssumption DEF AudioAssumption
<1>3. PICK p : Defines(p, SIZE_LEN) BY <1>1, <1>2
<1> HIDE DEF S
<1> QED BY <1>3, Zenon DEF Power

LEMMA Powers ==
  /\ Power[0] = 1
  /\ \A k \in 0..SIZE_LEN : Power[k] \in Nat \ {0}
  /\ \A k \in 1..SIZE_LEN : Power[k] = BASE * Power[k - 1]
<1>0. SIZE_LEN \in Nat \ {0} /\ BASE \in Nat \ {0} BY AudioAssumption DEF AudioAssumption
<1>1. Power[0] = 1 BY <1>0, PowerDefined
<1>2. \A k \in 1..SIZE_LEN : Power[k] = BASE * Power[k - 1]
  <2> SUFFICES ASSUME NEW k \in 1..SIZE_LEN PROVE Power[k] = BASE * Power[k - 1] OBVIOUS
  <2>1. k \in 0..SIZE_LEN /\ k # 0 BY <1>0
  <2>2. \A i \in 0..SIZE_LEN : Power[i] = IF i = 0 THEN 1 ELSE BASE * Power[i - 1]
    <3> DEFINE f == Power
    <3>1. f = [i \in 0..SIZE_LEN |-> IF i = 0 THEN 1 ELSE BASE * f[i - 1]] BY PowerDefined, Zenon
    <3> HIDE DEF f
    <3>2. \A i \in 0..SIZE_LEN : f[i] = IF i = 0 THEN 1 ELSE BASE * f[i - 1] BY <3>1
    <3> QED BY <3>2, Zenon DEF f
  <2> QED BY <2>1, <2>2
<1>3. \A k \in 0..SIZE_LEN : Power[k] \in Nat \ {0}
  <2> DEFINE S == {k \in 0..SIZE_LEN : Power[k] \notin Nat \ {0}}
  <2> SUFFICES ASSUME S # {} PROVE FALSE OBVIOUS
  <2>0. S \in SUBSET Nat BY <1>0
  <2>1. PICK k \in S : \A y \in S : k <= y
    <3> HIDE DEF S
    <3> QED BY <2>0, Least
  <2>2. k # 0 BY <1>1, <2>1
  <2>3. k \in 1..SIZE_LEN /\ k - 1 \in 0..SIZE_LEN /\ k - 1 \notin S BY <1>0, <2>1, <2>2
  <2>4. Power[k - 1] \in Nat \ {0} BY <2>3
  <2>5. BASE * Power[k - 1] \in Nat \ {0}
    <3>1. 1 * Power[k - 1] <= BASE * Power[k - 1] /\ BASE * Power[k - 1] \in Nat
      BY <1>0, <2>4, Multiples
    <3> QED BY <2>4, <3>1
  <2> QED BY <1>2, <2>1, <2>3, <2>5
<1> QED BY <1>1, <1>2, <1>3

\* The size with one more of its bytes.
\* What demodulate adds to the size for each of its bytes.
LEMMA Digit ==
  ASSUME NEW n \in Nat, NEW k \in 1..SIZE_LEN
  PROVE  /\ n \div Power[k] \in Nat
         /\ n \div Power[k - 1] = (n \div Power[k]) * BASE + ((n \div Power[k - 1]) % BASE)
         /\ (n \div Power[k - 1]) % BASE \in 0..(BASE - 1)
<1>1. SIZE_LEN \in Nat /\ BASE \in Nat \ {0} BY AudioAssumption DEF AudioAssumption
<1>2. Power[k - 1] \in Nat \ {0} /\ Power[k] = BASE * Power[k - 1] BY <1>1, Powers
<1> DEFINE P == Power[k - 1]
<1> HIDE DEF P
<1>3. P \in Nat \ {0} /\ Power[k] = BASE * P BY <1>2 DEF P
<1>4. n \div P \in Nat BY <1>3, Division
<1>5. n \div (BASE * P) = (n \div P) \div BASE
  <2>1. PICK p \in Nat \ {0} : p = P BY <1>3, Zenon
  <2>2. PICK b \in Nat \ {0} : b = BASE BY <1>1, Zenon
  <2>3. n \div (b * p) = (n \div p) \div b BY QuotientOfQuotient, ZenonT(60)
  <2> QED BY <2>1, <2>2, <2>3, Zenon
<1> DEFINE a == n \div P
<1>6. a \in Nat BY <1>4
<1> HIDE DEF a
<1>7. a \div BASE \in Nat /\ a % BASE \in 0..(BASE - 1) /\ (a \div BASE) * BASE + (a % BASE) = a
  BY <1>1, <1>6, Division
<1> QED BY <1>3, <1>4, <1>7, <1>5 DEF a, P

\* Where the bytes are in the sound.
LEMMA SamplesIs == Samples = BIT + BITS * BIT + STOP_BITS * BIT /\ Samples \in Nat /\ (1 + BITS) * BIT = BIT + BITS * BIT
<1>1. BIT \in Nat /\ BITS \in Nat /\ STOP_BITS \in Nat /\ BITS * BIT \in Nat /\ STOP_BITS * BIT \in Nat
  BY Sizes, AudioAssumption DEF AudioAssumption
<1>2. \A x, y, z \in Nat : (1 + x + y) * z = z + x * z + y * z /\ (1 + x) * z = z + x * z OBVIOUS
<1> QED BY <1>1, <1>2 DEF Samples

LEMMA BytePlaces ==
  ASSUME NEW i \in Nat \ {0}
  PROVE  /\ Begin(i) \in Nat /\ Begin(1) = SILENCE + PREAMBLE /\ Begin(i + 1) = Begin(i) + Samples
         /\ DataEnd(i) = Begin(i) + BIT + BITS * BIT /\ Begin(i + 1) = DataEnd(i) + STOP_BITS * BIT
<1>1. i - 1 \in Nat /\ i = (i - 1) + 1 OBVIOUS
<1>2. (i - 1) * Samples \in Nat /\ i * Samples = (i - 1) * Samples + Samples BY <1>1, SamplesIs, OneMore
<1>3. (i + 1) - 1 = i /\ (1 - 1) * Samples = 0 BY SamplesIs
<1> HIDE DEF Samples
<1> QED BY <1>2, <1>3, Sizes, SamplesIs DEF Begin, DataEnd

LEMMA Order ==
  ASSUME NEW i \in Nat \ {0}, NEW n \in Nat, i <= n
  PROVE  Begin(i) <= Begin(n) /\ Begin(i + 1) <= Begin(n + 1)
<1>1. i - 1 \in Nat /\ n - 1 \in Nat /\ (i + 1) - 1 = i /\ (n + 1) - 1 = n OBVIOUS
<1>2. (i - 1) * Samples <= (n - 1) * Samples /\ (i - 1) * Samples \in Nat /\ (n - 1) * Samples \in Nat
  BY <1>1, SamplesIs, Multiples
<1>3. i * Samples <= n * Samples /\ i * Samples \in Nat /\ n * Samples \in Nat BY SamplesIs, Multiples
<1> QED BY <1>1, <1>2, <1>3, Sizes DEF Begin

\* What is sent.
LEMMA Numbered ==
  ASSUME NEW d \in 0..(BASE - 1)
  PROVE  /\ (CHOOSE b \in Byte : Number[b] = d) \in Byte
         /\ Number[CHOOSE b \in Byte : Number[b] = d] = d
<1>1. \E b \in Byte : Number[b] = d
  BY AudioAssumption DEF AudioAssumption, Bijection, Surjection
<1> QED BY <1>1

LEMMA Sent ==
  ASSUME file \in Seq(Byte)
  PROVE  /\ ToSend \in Seq(Byte) /\ Len(ToSend) = 2 + SIZE_LEN + Len(file)
         /\ ToSend[1] = SYNC_HI /\ ToSend[2] = SYNC_LO
         /\ \A i \in 1..SIZE_LEN : Number[ToSend[2 + i]] = (Len(file) \div Power[SIZE_LEN - i]) % BASE
         /\ \A i \in 1..Len(file) : ToSend[2 + SIZE_LEN + i] = file[i]
<1> DEFINE size == SizeBytes(Len(file))
           sync == <<SYNC_HI, SYNC_LO>>
<1>1. SIZE_LEN \in Nat /\ Len(file) \in Nat BY AudioAssumption, LenProperties DEF AudioAssumption
<1>2. \A i \in 1..SIZE_LEN : (Len(file) \div Power[SIZE_LEN - i]) % BASE \in 0..(BASE - 1)
  <2> SUFFICES ASSUME NEW i \in 1..SIZE_LEN
               PROVE  (Len(file) \div Power[SIZE_LEN - i]) % BASE \in 0..(BASE - 1)
    OBVIOUS
  <2> DEFINE k == SIZE_LEN - i + 1
  <2>1. k \in 1..SIZE_LEN /\ k - 1 = SIZE_LEN - i BY <1>1
  <2> HIDE DEF k
  <2>2. (Len(file) \div Power[k - 1]) % BASE \in 0..(BASE - 1) BY <1>1, <2>1, Digit
  <2> QED BY <2>1, <2>2
<1>3. size \in [1..SIZE_LEN -> Byte] BY <1>2, Numbered DEF SizeBytes
<1>4. size \in Seq(Byte) /\ Len(size) = SIZE_LEN
  <2> HIDE DEF size
  <2>1. size \in Seq(Byte) BY <1>1, <1>3, SeqDef
  <2>2. Len(size) = SIZE_LEN BY <1>1, <1>3, <2>1, LenProperties
  <2> QED BY <2>1, <2>2
<1>5. sync \in Seq(Byte) /\ Len(sync) = 2 /\ sync[1] = SYNC_HI /\ sync[2] = SYNC_LO
  BY AudioAssumption DEF AudioAssumption
<1>6. \A i \in 1..SIZE_LEN : Number[size[i]] = (Len(file) \div Power[SIZE_LEN - i]) % BASE
  <2> SUFFICES ASSUME NEW i \in 1..SIZE_LEN
               PROVE  Number[size[i]] = (Len(file) \div Power[SIZE_LEN - i]) % BASE
    OBVIOUS
  <2> DEFINE d == (Len(file) \div Power[SIZE_LEN - i]) % BASE
  <2>1. d \in 0..(BASE - 1) BY <1>2
  <2>2. size[i] = CHOOSE b \in Byte : Number[b] = d BY DEF SizeBytes
  <2> HIDE DEF d, size
  <2> QED BY <2>1, <2>2, Numbered DEF d
<1>7. ToSend = (sync \o size) \o file BY DEF ToSend
<1> HIDE DEF size, sync
<1> DEFINE head == sync \o size
<1>8. /\ head \in Seq(Byte) /\ Len(head) = 2 + SIZE_LEN /\ head[1] = SYNC_HI /\ head[2] = SYNC_LO
      /\ \A i \in 1..SIZE_LEN : head[2 + i] = size[i]
  <2>1. /\ head \in Seq(Byte) /\ Len(head) = Len(sync) + Len(size)
        /\ \A i \in 1..(Len(sync) + Len(size)) : head[i] = IF i <= Len(sync) THEN sync[i] ELSE size[i - Len(sync)]
    BY <1>4, <1>5, ConcatProperties
  <2> HIDE DEF head
  <2>2. head[1] = sync[1] /\ head[2] = sync[2] BY <1>1, <1>4, <1>5, <2>1
  <2>3. \A i \in 1..SIZE_LEN : 2 + i \in 1..(Len(sync) + Len(size)) /\ ~(2 + i <= Len(sync)) /\ (2 + i) - Len(sync) = i
    BY <1>1, <1>4, <1>5
  <2> QED BY <1>4, <1>5, <2>1, <2>2, <2>3
<1>9. ToSend = head \o file BY <1>7
<1> HIDE DEF head
<1>10. /\ ToSend \in Seq(Byte) /\ Len(ToSend) = Len(head) + Len(file)
       /\ \A i \in 1..(Len(head) + Len(file)) :
            ToSend[i] = IF i <= Len(head) THEN head[i] ELSE file[i - Len(head)]
  BY <1>8, <1>9, ConcatProperties
<1>11. \A i \in 1..(2 + SIZE_LEN) : ToSend[i] = head[i] BY <1>1, <1>8, <1>10
<1>12. \A i \in 1..Len(file) : ToSend[2 + SIZE_LEN + i] = file[i]
  <2> SUFFICES ASSUME NEW i \in 1..Len(file) PROVE ToSend[2 + SIZE_LEN + i] = file[i] OBVIOUS
  <2>1. 2 + SIZE_LEN + i \in 1..(Len(head) + Len(file)) /\ ~(2 + SIZE_LEN + i <= Len(head))
        /\ (2 + SIZE_LEN + i) - Len(head) = i
    BY <1>1, <1>8
  <2> QED BY <1>10, <2>1
<1>13. \A i \in 1..SIZE_LEN : Number[ToSend[2 + i]] = (Len(file) \div Power[SIZE_LEN - i]) % BASE
  <2>1. \A i \in 1..SIZE_LEN : 2 + i \in 1..(2 + SIZE_LEN) BY <1>1
  <2>2. \A i \in 1..SIZE_LEN : ToSend[2 + i] = size[i] BY <1>8, <1>11, <2>1, Zenon
  <2> QED BY <1>6, <2>2, Zenon
<1> QED BY <1>1, <1>8, <1>10, <1>11, <1>12, <1>13

\* The tones of a byte.
LEMMA Modulated ==
  ASSUME NEW byte \in Byte
  PROVE  /\ modulate_byte(byte) \in Seq(Tones) /\ Len(modulate_byte(byte)) = Samples
         /\ \A j \in 0..BITS, r \in 1..BIT : /\ j * BIT + r \in 1..Samples /\ j * BIT \in Nat
                                            /\ modulate_byte(byte)[j * BIT + r] = Level(byte, j)
         /\ \A u \in 1..(STOP_BITS * BIT) : /\ BIT + BITS * BIT + u \in 1..Samples
                                            /\ modulate_byte(byte)[BIT + BITS * BIT + u] = "mark"
<1> DEFINE m == modulate_byte(byte)
<1>0. BIT \in Nat \ {0} /\ BITS \in Nat /\ STOP_BITS * BIT \in Nat /\ BITS * BIT \in Nat /\ Samples \in Nat
  BY Sizes, SamplesIs
<1>1. m = [u \in 1..Samples |-> Level(byte, (u - 1) \div BIT)] BY DEF modulate_byte, Samples
<1> HIDE DEF m
<1>2. m \in [1..Samples -> Tones] BY <1>1 DEF Level, Tones
<1>3. m \in Seq(Tones) BY <1>0, <1>2, SeqDef
<1>4. Len(m) = Samples BY <1>0, <1>2, <1>3, LenProperties
<1>5. ASSUME NEW j \in 0..BITS, NEW r \in 1..BIT
      PROVE  j * BIT + r \in 1..Samples /\ j * BIT \in Nat /\ m[j * BIT + r] = Level(byte, j)
  <2>1. j * BIT \in Nat /\ j * BIT <= BITS * BIT BY <1>0, Multiples
  <2>2. j * BIT + r \in 1..Samples BY <1>0, <2>1, SamplesIs
  <2> DEFINE n == (j * BIT + r) - 1
  <2>3. n \in Nat /\ j * BIT <= n /\ n < j * BIT + BIT BY <1>0, <2>1
  <2>4. (j + 1) * BIT = j * BIT + BIT BY <1>0, OneMore
  <2>5. n \div BIT = j
    <3> HIDE DEF n
    <3>1. j \in Nat /\ n < (j + 1) * BIT BY <2>3, <2>4
    <3> QED BY <1>0, <2>3, <3>1, QuotientIs
  <2> QED BY <1>1, <2>1, <2>2, <2>5
<1>6. ASSUME NEW u \in 1..(STOP_BITS * BIT)
      PROVE  BIT + BITS * BIT + u \in 1..Samples /\ m[BIT + BITS * BIT + u] = "mark"
  <2> DEFINE n == (BIT + BITS * BIT + u) - 1
  <2>1. BIT + BITS * BIT + u \in 1..Samples BY <1>0, SamplesIs
  <2>2. n \in Nat /\ (1 + BITS) * BIT <= n BY <1>0, SamplesIs
  <2>3. 1 + BITS <= n \div BIT /\ n \div BIT \in Nat
    <3> DEFINE k == 1 + BITS
    <3>1. k \in Nat /\ k * BIT <= n BY <1>0, <2>2
    <3> HIDE DEF n, k
    <3>2. k <= n \div BIT /\ n \div BIT \in Nat BY <1>0, <2>2, <3>1, Fits, Division
    <3> QED BY <3>2 DEF k
  <2>4. Level(byte, n \div BIT) = "mark"
    <3> HIDE DEF n
    <3> QED BY <1>0, <2>3 DEF Level
  <2> QED BY <1>1, <2>1, <2>4
<1> QED BY <1>3, <1>4, <1>5, <1>6 DEF m

\* A byte more of the sound.
LEMMA SoundsOn ==
  ASSUME ServerTypes, NEW n \in Nat, n < Len(ToSend), file' = file,
         air' = air \o modulate_byte(ToSend[n + 1])
  PROVE  air' \in Seq(Tones) /\ (Sounded(n) => Sounded(n + 1)')
<1> DEFINE m == modulate_byte(ToSend[n + 1])
<1>1. file \in Seq(Byte) /\ air \in Seq(Tones) BY DEF ServerTypes, Tones
<1>2. ToSend[n + 1] \in Byte /\ n + 1 \in 1..Len(ToSend)
  <2>1. ToSend \in Seq(Byte) /\ Len(ToSend) \in Nat BY <1>1, Sent, LenProperties
  <2> QED BY <1>1, <2>1
<1>5. m \in Seq(Tones) /\ Len(m) = Samples BY <1>2, Modulated
<1>8. air' = air \o m OBVIOUS
<1> HIDE DEF m
<1>9. air' \in Seq(Tones) /\ Len(air') = Len(air) + Len(m)
      /\ \A u \in 1..(Len(air) + Len(m)) : air'[u] = IF u <= Len(air) THEN air[u] ELSE m[u - Len(air)]
  BY <1>1, <1>5, <1>8, ConcatProperties, ZenonT(60)
<1>10. ASSUME Sounded(n) PROVE Sounded(n + 1)'
  <2>0. Samples \in Nat /\ Len(air) = Begin(n + 1) /\ Begin(n + 1) \in Nat
        /\ Begin(n + 2) = Begin(n + 1) + Samples /\ DataEnd(n + 1) = Begin(n + 1) + BIT + BITS * BIT
    <3>1. n + 1 \in Nat \ {0} /\ (n + 1) + 1 = n + 2 BY <1>1
    <3>2. Begin(n + 1) \in Nat /\ Begin((n + 1) + 1) = Begin(n + 1) + Samples
          /\ DataEnd(n + 1) = Begin(n + 1) + BIT + BITS * BIT
      BY <3>1, BytePlaces
    <3> QED BY <1>10, <3>1, <3>2, SamplesIs DEF Sounded
  <2>2. \A u \in 1..Len(air) : air'[u] = air[u] BY <1>5, <1>9, <2>0
  <2>3. \A u \in 1..Samples : air'[Begin(n + 1) + u] = m[u]
    <3> SUFFICES ASSUME NEW u \in 1..Samples PROVE air'[Begin(n + 1) + u] = m[u] OBVIOUS
    <3>1. Begin(n + 1) + u \in 1..(Len(air) + Len(m)) /\ ~(Begin(n + 1) + u <= Len(air))
          /\ (Begin(n + 1) + u) - Len(air) = u
      BY <1>5, <2>0
    <3> QED BY <1>9, <3>1
  <2>4. Len(air') = Begin(n + 2) BY <1>5, <1>9, <2>0
  <2>5. ToSend' = ToSend BY DEF ToSend
  <2>6. /\ \A u \in 1..SILENCE : air'[u] = "silence"
        /\ \A u \in (SILENCE + 1)..(SILENCE + PREAMBLE) : air'[u] = "mark"
    <3>0. 1 \in Nat \ {0} /\ n + 1 \in Nat /\ 1 <= n + 1 BY <1>1
    <3>1. Begin(1) = SILENCE + PREAMBLE /\ Begin(1) <= Begin(n + 1)
      <4> QED BY <3>0, BytePlaces, Order
    <3>2. /\ \A u \in 1..SILENCE : u \in 1..Len(air)
          /\ \A u \in (SILENCE + 1)..(SILENCE + PREAMBLE) : u \in 1..Len(air)
      BY <2>0, <3>1, Sizes, SMTT(60)
    <3> QED BY <1>10, <2>2, <3>2 DEF Sounded
  <2>7. ASSUME NEW i \in 1..n
        PROVE  /\ \A j \in 0..BITS, r \in 1..BIT : air'[Begin(i) + j * BIT + r] = Level(ToSend[i], j)
               /\ \A u \in 1..(STOP_BITS * BIT) : air'[DataEnd(i) + u] = "mark"
    <3>0. i \in Nat \ {0} /\ i <= n BY <1>1
    <3>1. Begin(i) \in Nat /\ Begin(i + 1) = Begin(i) + Samples /\ DataEnd(i) = Begin(i) + BIT + BITS * BIT
          /\ Begin(i + 1) <= Len(air)
      BY <1>1, <2>0, <3>0, BytePlaces, Order
    <3>2. \A j \in 0..BITS, r \in 1..BIT : Begin(i) + j * BIT + r \in 1..Len(air)
      <4> SUFFICES ASSUME NEW j \in 0..BITS, NEW r \in 1..BIT PROVE Begin(i) + j * BIT + r \in 1..Len(air)
        OBVIOUS
      <4>1. j * BIT + r \in 1..Samples /\ j * BIT \in Nat BY <1>2, Modulated
      <4> DEFINE p == j * BIT
                 e == Len(air)
      <4>2. /\ p \in Nat /\ p + r \in 1..Samples /\ e \in Nat /\ Begin(i) + Samples <= e /\ Samples \in Nat
            /\ Begin(i) \in Nat
        BY <2>0, <3>1, <4>1, SamplesIs
      <4> HIDE DEF p, e
      <4>3. Begin(i) + p + r \in 1..e BY <4>2
      <4> QED BY <4>3 DEF p, e
    <3>3. \A u \in 1..(STOP_BITS * BIT) : DataEnd(i) + u \in 1..Len(air)
      <4> DEFINE s == STOP_BITS * BIT
                 d == BITS * BIT
                 e == Len(air)
      <4>2. /\ s \in Nat /\ d \in Nat /\ BIT \in Nat /\ e \in Nat /\ Begin(i) + Samples <= e
            /\ Samples = BIT + d + s /\ DataEnd(i) = Begin(i) + BIT + d /\ Begin(i) \in Nat
        BY <2>0, <3>1, Sizes, SamplesIs
      <4> HIDE DEF s, d, e
      <4>3. \A u \in 1..s : DataEnd(i) + u \in 1..e BY <4>2
      <4> QED BY <4>3 DEF s, e
    <3>4. /\ \A j \in 0..BITS, r \in 1..BIT : air[Begin(i) + j * BIT + r] = Level(ToSend[i], j)
          /\ \A u \in 1..(STOP_BITS * BIT) : air[DataEnd(i) + u] = "mark"
      BY <1>10 DEF Sounded
    <3> QED BY <2>2, <3>2, <3>3, <3>4, Zenon
  <2>8. /\ \A j \in 0..BITS, r \in 1..BIT : air'[Begin(n + 1) + j * BIT + r] = Level(ToSend[n + 1], j)
        /\ \A u \in 1..(STOP_BITS * BIT) : air'[DataEnd(n + 1) + u] = "mark"
    <3>1. ASSUME NEW j \in 0..BITS, NEW r \in 1..BIT
          PROVE  air'[Begin(n + 1) + j * BIT + r] = Level(ToSend[n + 1], j)
      <4>1. j * BIT + r \in 1..Samples /\ j * BIT \in Nat /\ m[j * BIT + r] = Level(ToSend[n + 1], j)
        BY <1>2, Modulated DEF m
      <4>2. Begin(n + 1) + j * BIT + r = Begin(n + 1) + (j * BIT + r) BY <2>0, <4>1
      <4> QED BY <2>3, <4>1, <4>2
    <3>2. ASSUME NEW u \in 1..(STOP_BITS * BIT) PROVE air'[DataEnd(n + 1) + u] = "mark"
      <4>1. BIT + BITS * BIT + u \in 1..Samples /\ m[BIT + BITS * BIT + u] = "mark"
        BY <1>2, Modulated DEF m
      <4>2. DataEnd(n + 1) + u = Begin(n + 1) + (BIT + BITS * BIT + u)
        <5> DEFINE d == BITS * BIT
        <5>1. d \in Nat /\ BIT \in Nat /\ u \in Nat BY Sizes
        <5>2. DataEnd(n + 1) = Begin(n + 1) + BIT + d /\ Begin(n + 1) \in Nat BY <2>0
        <5> HIDE DEF d
        <5>3. DataEnd(n + 1) + u = Begin(n + 1) + (BIT + d + u) BY <5>1, <5>2
        <5> QED BY <5>3 DEF d
      <4> QED BY <2>3, <4>1, <4>2
    <3> QED BY <3>1, <3>2
  <2>9. /\ \A i \in 1..(n + 1), j \in 0..BITS, r \in 1..BIT : air'[Begin(i) + j * BIT + r] = Level(ToSend'[i], j)
        /\ \A i \in 1..(n + 1), u \in 1..(STOP_BITS * BIT) : air'[DataEnd(i) + u] = "mark"
    <3>1. \A i \in 1..(n + 1) : i \in 1..n \/ i = n + 1 OBVIOUS
    <3> QED BY <2>5, <2>7, <2>8, <3>1, Zenon
  <2>10. Len(air') = Begin((n + 1) + 1)
    <3>1. (n + 1) + 1 = n + 2 OBVIOUS
    <3> QED BY <2>4, <3>1
  <2> QED BY <2>6, <2>9, <2>10, Zenon DEF Sounded, Begin, DataEnd, Samples
<1> QED BY <1>9, <1>10

\* What sounds where.
LEMMA SoundOf ==
  ASSUME file \in Seq(Byte), NEW N \in Nat, Sounded(N), NEW i \in 1..N
  PROVE  /\ \A u \in (Begin(i) + 1)..(Begin(i) + BIT) : u <= Len(air) /\ air[u] = "space"
         /\ \A j \in 0..(BITS - 1) : /\ j * BIT \in Nat
              /\ \A u \in (Begin(i) + j * BIT + BIT + 1)..(Begin(i) + j * BIT + BIT + BIT) :
                   u <= Len(air) /\ air[u] = IF j \in ToSend[i] THEN "mark" ELSE "space"
         /\ \A u \in (DataEnd(i) + 1)..Begin(i + 1) : u <= Len(air) /\ air[u] = "mark"
<1>0. BIT \in Nat \ {0} /\ BITS \in Nat \ {0} /\ STOP_BITS * BIT \in Nat /\ BITS * BIT \in Nat /\ Samples \in Nat
  BY Sizes, SamplesIs, AudioAssumption DEF AudioAssumption
<1>1. /\ Begin(i) \in Nat /\ Len(air) = Begin(N + 1) /\ Len(air) \in Nat /\ Begin(i + 1) <= Len(air)
      /\ DataEnd(i) = Begin(i) + BIT + BITS * BIT /\ Begin(i + 1) = DataEnd(i) + STOP_BITS * BIT
  <2>1. i \in Nat \ {0} /\ i <= N /\ N + 1 \in Nat \ {0} OBVIOUS
  <2>2. Begin(i) \in Nat /\ Begin(i + 1) <= Begin(N + 1) /\ Begin(N + 1) \in Nat BY <2>1, BytePlaces, Order
  <2>3. DataEnd(i) = Begin(i) + BIT + BITS * BIT /\ Begin(i + 1) = DataEnd(i) + STOP_BITS * BIT BY <2>1, BytePlaces
  <2>4. Len(air) = Begin(N + 1) BY DEF Sounded
  <2> QED BY <2>2, <2>3, <2>4
<1> DEFINE B == Begin(i)
           d == BITS * BIT
           s == STOP_BITS * BIT
           e == Len(air)
<1>2. /\ B \in Nat /\ d \in Nat /\ s \in Nat /\ e \in Nat /\ DataEnd(i) = B + BIT + d
      /\ Begin(i + 1) = B + BIT + d + s /\ B + BIT + d + s <= e
  BY <1>0, <1>1
<1>3. /\ \A j \in 0..BITS, r \in 1..BIT : air[B + j * BIT + r] = Level(ToSend[i], j)
      /\ \A u \in 1..s : air[DataEnd(i) + u] = "mark"
  BY DEF Sounded
<1>4. \A u \in (B + 1)..(B + BIT) : u <= e /\ air[u] = "space"
  <2> SUFFICES ASSUME NEW u \in (B + 1)..(B + BIT) PROVE u <= e /\ air[u] = "space" OBVIOUS
  <2> HIDE DEF B, d, s, e
  <2> DEFINE r == u - B
  <2>1. r \in 1..BIT /\ u <= e BY <1>0, <1>2
  <2>2. air[B + 0 * BIT + r] = Level(ToSend[i], 0) BY <1>0, <1>3, <2>1
  <2>3. B + 0 * BIT + r = u BY <1>0, <1>2
  <2> QED BY <2>1, <2>2, <2>3 DEF Level
<1>5. ASSUME NEW j \in 0..(BITS - 1)
      PROVE  /\ j * BIT \in Nat
             /\ \A u \in (B + j * BIT + BIT + 1)..(B + j * BIT + BIT + BIT) :
                  u <= e /\ air[u] = IF j \in ToSend[i] THEN "mark" ELSE "space"
  <2> DEFINE p == j * BIT
  <2>1. p \in Nat /\ (j + 1) * BIT = p + BIT /\ (j + 1) * BIT <= d BY <1>0, OneMore, Multiples
  <2> SUFFICES ASSUME NEW u \in (B + p + BIT + 1)..(B + p + BIT + BIT)
               PROVE  u <= e /\ air[u] = IF j \in ToSend[i] THEN "mark" ELSE "space"
    BY <2>1
  <2> DEFINE q == (j + 1) * BIT
             r == u - (B + q)
  <2>2. q = p + BIT /\ q <= d /\ q \in Nat BY <1>0, <2>1
  <2> HIDE DEF p, q, B, d, s, e
  <2>3. r \in 1..BIT /\ u <= e /\ B + q + r = u BY <1>0, <1>2, <2>1, <2>2
  <2>4. j + 1 \in 0..BITS BY <1>0
  <2>5. air[B + q + r] = Level(ToSend[i], j + 1) BY <1>3, <2>3, <2>4 DEF q
  <2>6. Level(ToSend[i], j + 1) = IF j \in ToSend[i] THEN "mark" ELSE "space" BY <1>0 DEF Level
  <2> QED BY <2>3, <2>5, <2>6
<1>6. \A u \in (DataEnd(i) + 1)..Begin(i + 1) : u <= e /\ air[u] = "mark"
  <2> SUFFICES ASSUME NEW u \in (DataEnd(i) + 1)..Begin(i + 1) PROVE u <= e /\ air[u] = "mark" OBVIOUS
  <2> DEFINE r == u - DataEnd(i)
  <2> HIDE DEF B, d, s, e
  <2>1. r \in 1..s /\ DataEnd(i) + r = u /\ u <= e BY <1>0, <1>2
  <2> QED BY <1>3, <2>1
<1> QED BY <1>4, <1>5, <1>6

ClearFrom(k) == IF k = 0 THEN SILENCE ELSE DataEnd(k)

\* Before each byte there is only the preamble's tone, the mark.
LEMMA ClearBefore ==
  ASSUME file \in Seq(Byte), NEW N \in Nat, Sounded(N), NEW k \in 0..(N - 1)
  PROVE  /\ Begin(k + 1) \in Nat /\ ClearFrom(k) \in Nat
         /\ (k # 0 => ClearFrom(k) + BIT <= Begin(k + 1))
         /\ \A u \in (ClearFrom(k) + 1)..Begin(k + 1) : u <= Len(air) /\ air[u] = "mark"
<1>0. k + 1 \in Nat \ {0} /\ Begin(k + 1) \in Nat
  <2>1. k + 1 \in Nat \ {0} OBVIOUS
  <2>2. Begin(k + 1) \in Nat BY <2>1, BytePlaces
  <2> QED BY <2>1, <2>2
<1>1. CASE k = 0
  <2>1. Begin(1) = SILENCE + PREAMBLE /\ Begin(1) <= Begin(N + 1) /\ Begin(N + 1) \in Nat
    <3>1. 1 \in Nat \ {0} /\ N + 1 \in Nat \ {0} /\ 1 <= N + 1 OBVIOUS
    <3> QED BY <3>1, BytePlaces, Order
  <2>2. Len(air) = Begin(N + 1) /\ \A u \in (SILENCE + 1)..(SILENCE + PREAMBLE) : air[u] = "mark" BY DEF Sounded
  <2> QED BY <1>0, <1>1, <2>1, <2>2, Sizes DEF ClearFrom
<1>2. CASE k # 0
  <2>1. k \in 1..N /\ k \in Nat \ {0} BY <1>2
  <2>2. /\ Begin(k) \in Nat /\ DataEnd(k) = Begin(k) + BIT + BITS * BIT
        /\ Begin(k + 1) = DataEnd(k) + STOP_BITS * BIT
    BY <2>1, BytePlaces
  <2>3. \A u \in (DataEnd(k) + 1)..Begin(k + 1) : u <= Len(air) /\ air[u] = "mark" BY <2>1, SoundOf
  <2> DEFINE d == BITS * BIT
             s == STOP_BITS * BIT
  <2>4. d \in Nat /\ s \in Nat /\ BIT \in Nat /\ BIT <= s BY Sizes
  <2> HIDE DEF d, s
  <2>5. DataEnd(k) \in Nat /\ DataEnd(k) + BIT <= Begin(k + 1) BY <2>2, <2>4 DEF d, s
  <2> QED BY <1>0, <1>2, <2>3, <2>5 DEF ClearFrom
<1> QED BY <1>1, <1>2

\* Wherever the receiver rests, the first window that has a start bit is
\* less than half a window before the start bit of the next byte, and less
\* than a window after it.
LEMMA StartFound ==
  ASSUME ServerTypes, NEW N \in Nat, Sounded(N), NEW k \in 0..(N - 1),
         NEW at, Resting(at, k), NEW s \in StartBits(at)
  PROVE  s \in Nat /\ 2 * (Begin(k + 1) - s) < check_size /\ s < Begin(k + 1) + check_size
<1> DEFINE B == Begin(k + 1)
           C == ClearFrom(k)
           c == check_size
<1>1. /\ file \in Seq(Byte) /\ air \in Seq({"mark", "space", "silence"})
      /\ c \in Nat /\ 1 <= c /\ 2 * c <= BIT /\ BIT \in Nat
  BY Sizes DEF ServerTypes
<1>2. /\ B \in Nat /\ C \in Nat /\ (k # 0 => C + BIT <= B)
      /\ \A u \in (C + 1)..B : u <= Len(air) /\ air[u] = "mark"
  BY <1>1, ClearBefore
<1>3. at \in Nat /\ at <= B /\ 2 * (C - at) < c /\ (k = 0 => C <= at)
  <2>1. at \in Nat /\ at <= B BY DEF Resting
  <2>2. CASE k = 0 BY <1>1, <1>2, <2>1, <2>2 DEF Resting, ClearFrom
  <2>3. CASE k # 0 BY <1>1, <1>2, <2>1, <2>3 DEF Resting, ClearFrom
  <2> QED BY <2>1, <2>2, <2>3
<1>4. PICK n \in 0..Len(air) : /\ s = Window(at, n) /\ IsSpace(Window(at, n))
                              /\ \A m \in 0..(n - 1) : ~IsSpace(Window(at, m))
  BY DEF StartBits
<1>5. n \in Nat /\ n * c \in Nat /\ s = at + n * c
  <2>1. n \in Nat BY <1>1, <1>4
  <2> QED BY <1>1, <1>4, <2>1, Multiples DEF Window
<1>6. s \in Nat /\ at <= s /\ IsSpace(s)
  <2> DEFINE p == n * c
  <2>1. p \in Nat /\ s = at + p BY <1>5
  <2> HIDE DEF p
  <2> QED BY <1>3, <1>4, <2>1
<1>7. \A u \in (B + 1)..(B + BIT) : u <= Len(air) /\ air[u] = "space"
  <2>1. k + 1 \in 1..N OBVIOUS
  <2> QED BY <1>1, <2>1, SoundOf
<1>8. B < s + c
  <2> SUFFICES ASSUME s + c <= B PROVE FALSE
    <3> HIDE DEF B, c
    <3> QED BY <1>1, <1>2, <1>6
  <2> DEFINE l == IF s < C THEN C + 1 ELSE s + 1
             h == s + c
  <2> HIDE DEF B, C, c
  <2>1. l \in Int /\ h \in Int /\ s < l /\ h <= s + c /\ c <= 2 * (h - l + 1) /\ C + 1 <= l /\ h <= B
    BY <1>1, <1>2, <1>3, <1>6
  <2>2. \A u \in l..h : u <= Len(air) /\ air[u] = "mark" BY <1>2, <2>1
  <2> HIDE DEF l, h
  <2>3. s \in Int /\ h <= s + check_size /\ check_size <= 2 * (h - l + 1) BY <1>6, <2>1 DEF c
  <2>4. ~IsSpace(s) BY <1>1, <2>1, <2>2, <2>3, NoSpace, Zenon
  <2> QED BY <1>6, <2>4
<1>9. 2 * (B - s) < c
  <2> SUFFICES ASSUME c <= 2 * (B - s) PROVE FALSE
    <3> HIDE DEF B, c
    <3> QED BY <1>1, <1>2, <1>6
  <2> HIDE DEF B, C, c
  <2> DEFINE l == s + 1
             h == B
  <2>1. C <= s BY <1>1, <1>2, <1>3, <1>6, <1>8
  <2>2. l \in Int /\ h \in Int /\ s < l /\ h <= s + c /\ c <= 2 * (h - l + 1) /\ C + 1 <= l /\ h <= B
    BY <1>1, <1>2, <1>6, <1>8, <2>1
  <2>3. \A u \in l..h : u <= Len(air) /\ air[u] = "mark" BY <1>2, <2>2
  <2> HIDE DEF l, h
  <2>4. s \in Int /\ h <= s + check_size /\ check_size <= 2 * (h - l + 1) BY <1>6, <2>2 DEF c
  <2>5. ~IsSpace(s) BY <1>1, <2>2, <2>3, <2>4, NoSpace, Zenon
  <2> QED BY <1>6, <2>5
<1>10. s < B + c
  <2> SUFFICES ASSUME B + c <= s PROVE FALSE
    <3> HIDE DEF B, c
    <3> QED BY <1>1, <1>2, <1>6
  <2> DEFINE a == B - at + c - 1
             q == a \div c
             t == at + q * c
  <2> HIDE DEF B, C, c
  <2>1. a \in Nat /\ c \in Nat \ {0} BY <1>1, <1>2, <1>3
  <2>2. q \in Nat /\ a % c \in 0..(c - 1) /\ q * c + (a % c) = a
    <3> HIDE DEF a
    <3> QED BY <2>1, Division
  <2> DEFINE p == q * c
             r == a % c
  <2>3. p \in Nat /\ r \in 0..(c - 1) /\ p + r = B - at + c - 1 /\ t = at + p
    <3>1. p \in Nat
      <4> HIDE DEF q, r
      <4> QED BY <2>1, <2>2, Multiples
    <3>2. p + r = a /\ r \in 0..(c - 1) /\ t = at + p BY <2>2
    <3> HIDE DEF p, r
    <3> QED BY <3>1, <3>2
  <2> HIDE DEF p, q, r, a, t
  <2>4. B <= t /\ t < B + c /\ t \in Nat BY <1>1, <1>2, <1>3, <2>3
  <2>5. \A u \in (t + 1)..(t + c) : u <= Len(air) /\ air[u] = "space"
    <3>1. \A u \in (t + 1)..(t + c) : u \in (B + 1)..(B + BIT) BY <1>1, <1>2, <2>4
    <3> QED BY <1>7, <3>1 DEF B
  <2>6. IsSpace(t) BY <1>1, <2>4, <2>5, AllSpace DEF c
  <2>7. CASE q < n
    <3>1. q \in 0..(n - 1) BY <1>5, <2>2, <2>7
    <3>2. Window(at, q) = t BY DEF Window, t, c
    <3> QED BY <1>4, <2>6, <3>1, <3>2
  <2>8. CASE n <= q
    <3>1. n * c <= p BY <1>1, <1>5, <2>2, <2>8, Multiples DEF p
    <3> DEFINE o == n * c
    <3>2. o \in Nat /\ s = at + o /\ o <= p BY <1>5, <3>1
    <3> HIDE DEF o
    <3> QED BY <1>1, <1>2, <1>3, <2>3, <2>4, <3>2
  <2> QED BY <1>5, <2>2, <2>7, <2>8
<1> QED BY <1>6, <1>9, <1>10

\* A prefix, item by item.
LEMMA PrefixOf ==
  ASSUME NEW S, NEW s \in Seq(S), NEW t \in Seq(S)
  PROVE  IsPrefix(s, t) <=> Len(s) <= Len(t) /\ \A i \in 1..Len(s) : s[i] = t[i]
<1>1. Len(s) \in Nat /\ Len(t) \in Nat BY LenProperties
<1>2. CASE Len(s) <= Len(t)
  <2> DEFINE n == Len(s)
             a == SubSeq(s, 1, n)
             b == SubSeq(t, 1, n)
  <2>0. n \in Nat /\ \A i \in 1..n : i \in 1..Len(s) /\ i \in 1..Len(t) BY <1>1, <1>2
  <2>1. a \in Seq(S) /\ Len(a) = n /\ \A i \in 1..n : a[i] = s[i]
    <3>1. a \in Seq(S) /\ Len(a) = (IF 1 <= n THEN n - 1 + 1 ELSE 0) /\ \A i \in 1..(n - 1 + 1) : a[i] = s[1 + i - 1]
      BY <2>0, SubSeqProperties
    <3> HIDE DEF a
    <3> QED BY <1>1, <3>1
  <2>2. b \in Seq(S) /\ Len(b) = n /\ \A i \in 1..n : b[i] = t[i]
    <3>1. b \in Seq(S) /\ Len(b) = (IF 1 <= n THEN n - 1 + 1 ELSE 0) /\ \A i \in 1..(n - 1 + 1) : b[i] = t[1 + i - 1]
      BY <2>0, SubSeqProperties
    <3> HIDE DEF b
    <3> QED BY <1>1, <3>1
  <2>3. IsPrefix(s, t) <=> a = b BY <1>2 DEF IsPrefix
  <2> HIDE DEF a, b, n
  <2>4. a = b <=> \A i \in 1..n : a[i] = b[i]
    <3>1. (\A i \in 1..n : a[i] = b[i]) => a = b BY <2>1, <2>2, SeqEqual
    <3> QED BY <3>1
  <2> QED BY <1>2, <2>1, <2>2, <2>3, <2>4 DEF n
<1>3. CASE ~(Len(s) <= Len(t)) BY <1>3 DEF IsPrefix
<1> QED BY <1>2, <1>3

\* A tone that is not in a window.
LEMMA ShareNone ==
  ASSUME NEW at \in Int, NEW len \in Nat, NEW x,
         \A u \in (at + 1)..(at + len) : ~(u <= Len(air) /\ air[u] = x)
  PROVE  Share(at, len, x) = 0
<1> DEFINE X == {u \in (at + 1)..(at + len) : u <= Len(air) /\ air[u] = x}
<1>1. X = {} OBVIOUS
<1> HIDE DEF X
<1>2. Cardinality(X) = 0 BY <1>1, FS_EmptySet
<1> QED BY <1>2 DEF Share, X

\* What a receiver finds out of a window that overlaps more than half of a bit.
LEMMA BitHeard ==
  ASSUME air \in Seq({"mark", "space", "silence"}), NEW x, NEW y, x # y,
         NEW b \in Nat, NEW at \in Nat, 2 * (b - at) < BIT, 2 * (at - b) < BIT,
         \A u \in (b + 1)..(b + BIT) : u <= Len(air) /\ air[u] = x
  PROVE  Louder(x, y, at, BIT) /\ ~Louder(y, x, at, BIT)
<1> DEFINE l == IF at < b THEN b + 1 ELSE at + 1
           h == IF at < b THEN at + BIT ELSE b + BIT
<1>0. BIT \in Nat BY Sizes
<1>1. l \in Int /\ h \in Int /\ at < l /\ h <= at + BIT /\ BIT < 2 * (h - l + 1) /\ b + 1 <= l /\ h <= b + BIT
  BY <1>0
<1>2. \A u \in l..h : u <= Len(air) /\ air[u] = x
  <2>1. \A u \in l..h : u \in (b + 1)..(b + BIT)
    <3> HIDE DEF l, h
    <3> QED BY <1>0, <1>1
  <2> QED BY <2>1
<1>3. at \in Int OBVIOUS
<1> HIDE DEF l, h
<1> QED BY <1>0, <1>1, <1>2, <1>3, LouderOf, Zenon

\* A byte that a receiver takes is the next one that was sent, and the
\* receiver rests after it.
LEMMA Demod ==
  ASSUME ServerTypes, NEW N \in Nat, N <= Len(ToSend), Sounded(N), NEW k \in 0..(N - 1),
         NEW at, Resting(at, k), NEW s \in StartBits(at)
  PROVE  Demodulated(s, RestOfBit) = ToSend[k + 1] /\ Resting(Behind(s, RestOfBit), k + 1)
<1> DEFINE B == Begin(k + 1)
           c == check_size
           d == BITS * BIT
           p == STOP_BITS * BIT
           byte == ToSend[k + 1]
<1>1. /\ file \in Seq(Byte) /\ air \in Seq({"mark", "space", "silence"})
      /\ c \in Nat /\ 1 <= c /\ 2 * c <= BIT /\ BIT \in Nat /\ d \in Nat /\ p \in Nat /\ BIT <= p /\ BITS \in Nat
  BY Sizes DEF ServerTypes
<1>2. k + 1 \in 1..N /\ k + 1 \in Nat \ {0} /\ k + 1 # 0 /\ (k + 1) + 1 = k + 2 OBVIOUS
<1>3. /\ B \in Nat /\ DataEnd(k + 1) = B + BIT + d /\ Begin(k + 2) = B + BIT + d + p
  <2>1. /\ Begin(k + 1) \in Nat /\ DataEnd(k + 1) = Begin(k + 1) + BIT + BITS * BIT
        /\ Begin((k + 1) + 1) = DataEnd(k + 1) + STOP_BITS * BIT
    BY <1>2, BytePlaces
  <2> QED BY <1>2, <2>1
<1>4. s \in Nat /\ 2 * (B - s) < c /\ s < B + c BY StartFound
<1>5. FirstBit(s, RestOfBit) = s + BIT
  <2> HIDE DEF c
  <2>1. s + c + (BIT - c) = s + BIT BY <1>1, <1>4
  <2> QED BY <2>1 DEF FirstBit, RestOfBit, c
<1>6. byte \in Byte
  <2>1. ToSend \in Seq(Byte) /\ Len(ToSend) \in Nat BY <1>1, Sent, LenProperties
  <2>2. k + 1 \in 1..Len(ToSend) BY <2>1
  <2> QED BY <2>1, <2>2
<1>7. ASSUME NEW j \in 0..(BITS - 1)
      PROVE  Louder("mark", "space", FirstBit(s, RestOfBit) + j * BIT, BIT) <=> j \in byte
  <2> DEFINE q == j * BIT
             b == B + q + BIT
             w == FirstBit(s, RestOfBit) + q
  <2>1. /\ q \in Nat
        /\ \A u \in (b + 1)..(b + BIT) : u <= Len(air) /\ air[u] = IF j \in byte THEN "mark" ELSE "space"
    BY <1>1, <1>2, SoundOf
  <2>2. b \in Nat /\ w \in Nat /\ w = s + BIT + q
    <3>1. BIT \in Nat /\ B \in Nat /\ s \in Nat /\ q \in Nat BY <1>1, <1>3, <1>4, <2>1
    <3> HIDE DEF q, B
    <3> QED BY <1>5, <3>1
  <2>3. 2 * (b - w) < BIT /\ 2 * (w - b) < BIT
    <3>1. /\ BIT \in Nat /\ c \in Nat /\ B \in Nat /\ s \in Nat /\ q \in Nat
          /\ 2 * c <= BIT /\ 2 * (B - s) < c /\ s < B + c
      BY <1>1, <1>3, <1>4, <2>1
    <3>2. b = B + q + BIT /\ w = s + BIT + q BY <2>2
    <3> HIDE DEF q, B, b, c, w
    <3> QED BY <3>1, <3>2
  <2> HIDE DEF q, b, w, byte
  <2>4. CASE j \in byte
    <3>1. \A u \in (b + 1)..(b + BIT) : u <= Len(air) /\ air[u] = "mark" BY <2>1, <2>4
    <3>2. Louder("mark", "space", w, BIT) BY <1>1, <2>2, <2>3, <3>1, BitHeard
    <3> QED BY <2>4, <3>2 DEF w, q
  <2>5. CASE j \notin byte
    <3>1. \A u \in (b + 1)..(b + BIT) : u <= Len(air) /\ air[u] = "space" BY <2>1, <2>5
    <3>2. ~Louder("mark", "space", w, BIT) BY <1>1, <2>2, <2>3, <3>1, BitHeard
    <3> QED BY <2>5, <3>2 DEF w, q
  <2> QED BY <2>4, <2>5
<1>8. Demodulated(s, RestOfBit) = byte
  <2> HIDE DEF byte
  <2>1. \A j \in byte : j \in 0..(BITS - 1) BY <1>6 DEF Byte
  <2> QED BY <1>7, <2>1 DEF Demodulated
<1>9. Resting(Behind(s, RestOfBit), k + 1)
  <2>1. Behind(s, RestOfBit) = s + BIT + d BY <1>5 DEF Behind
  <2> DEFINE e == Behind(s, RestOfBit)
  <2> HIDE DEF B, c, d, p, e
  <2>2. e = s + BIT + d BY <2>1 DEF e
  <2>3. e \in Nat /\ e <= Begin(k + 2) /\ 2 * (DataEnd(k + 1) - e) < c BY <1>1, <1>3, <1>4, <2>2
  <2>4. e \in Nat /\ e <= Begin((k + 1) + 1) /\ 2 * (DataEnd(k + 1) - e) < check_size
    BY <1>2, <2>3, Zenon DEF c
  <2>5. Resting(e, k + 1) BY <1>2, <2>4, Zenon DEF Resting
  <2> QED BY <2>5 DEF e
<1> QED BY <1>8, <1>9

\* The types of what a receiver takes, whatever it hears.
LEMMA Takes ==
  ASSUME ServerTypes, ReceiverTypes, NEW b \in demodulate_byte
  PROVE  /\ b.byte \in Byte /\ b.at \in Nat /\ Number[b.byte] \in Nat
         /\ \E s \in StartBits(receiver.at) :
              b = [byte |-> Demodulated(s, b.skipped), at |-> Behind(s, b.skipped), skipped |-> b.skipped]
<1>0. BIT \in Nat /\ check_size \in Nat /\ 2 * check_size <= BIT BY Sizes
<1>1. PICK s \in StartBits(receiver.at), skipped \in {RestOfBit} \cup {n \in Cuts : n < RestOfBit} :
        b = [byte |-> Demodulated(s, skipped), at |-> Behind(s, skipped), skipped |-> skipped]
  BY DEF demodulate_byte
<1>2. b.byte \in Byte BY <1>1 DEF Demodulated, Byte
<1>3. Number[b.byte] \in Nat
  <2>1. Number \in [Byte -> 0..(BASE - 1)] BY AudioAssumption DEF AudioAssumption, Bijection, Surjection
  <2> QED BY <1>2, <2>1
<1>4. s \in Nat
  <2>0. receiver.at \in Nat /\ Len(air) \in Nat BY LenProperties DEF ServerTypes, ReceiverTypes
  <2>1. PICK n \in 0..Len(air) : s = Window(receiver.at, n) BY DEF StartBits
  <2>2. n * check_size \in Nat
    <3>1. n \in Nat /\ check_size \in Nat BY <2>0, Sizes
    <3> QED BY <3>1, Multiples
  <2> DEFINE p == n * check_size
  <2>3. s = receiver.at + p /\ p \in Nat BY <2>1, <2>2 DEF Window
  <2> HIDE DEF p
  <2> QED BY <2>0, <2>3
<1>5. skipped \in Nat
  <2> DEFINE c == check_size
  <2>1. BIT \in Nat /\ c \in Nat /\ 2 * c <= BIT /\ RestOfBit = BIT - c BY <1>0 DEF RestOfBit
  <2>2. Cuts \subseteq Nat BY AudioAssumption DEF AudioAssumption
  <2> HIDE DEF c
  <2>3. RestOfBit \in Nat BY <2>1
  <2> QED BY <2>2, <2>3
<1>6. Behind(s, skipped) \in Nat
  <2> DEFINE d == BITS * BIT
             c == check_size
  <2>1. d \in Nat /\ c \in Nat BY Sizes
  <2>2. Behind(s, skipped) = s + c + skipped + d BY DEF Behind, FirstBit
  <2> HIDE DEF c, d
  <2>3. s + c + skipped + d \in Nat BY <1>4, <1>5, <2>1
  <2> QED BY <2>2, <2>3
<1> QED BY <1>1, <1>2, <1>3, <1>6

\* What is counted, and what is not.
LEMMA Counted ==
  ASSUME troubles \in Nat
  PROVE  /\ Troubled => (troubles' \in Nat /\ troubles' # 0)
         /\ \A b : Disturbs(b) => /\ troubles' \in Nat
                               /\ (troubles' = 0 => troubles = 0 /\ b.skipped = RestOfBit)
<1>1. Troubled => (troubles' \in Nat /\ troubles' # 0) BY DEF Troubled
<1> QED BY <1>1 DEF Disturbs

LEMMA EmptyPrefix == ASSUME NEW S, NEW s \in Seq(S) PROVE IsPrefix(<<>>, s)
<1>1. Len(s) \in Nat BY LenProperties
<1>2. <<>> \in Seq(S) /\ Len(<<>>) = 0 BY EmptySeq
<1>3. Len(<<>>) <= Len(s) /\ \A i \in 1..Len(<<>>) : <<>>[i] = s[i] BY <1>1, <1>2
<1> QED BY <1>2, <1>3, PrefixOf, Zenon

\* Every receiver that has not begun has its part of the invariant.
LEMMA NotBegun ==
  ASSUME ServerInv, ReceiverTypes, receiver.pc = "start", receiver.file = <<>>, receiver.n = 0,
         receiver.fsize = 0, ~receiver.first
  PROVE  AudioInv
<1>1. IsPrefix(receiver.file, file)
  <2>1. file \in Seq(Byte) BY DEF ServerInv, ServerTypes
  <2> QED BY <2>1, EmptyPrefix
<1> QED BY <1>1 DEF AudioInv, Follows

LEMMA Silent ==
  ASSUME NEW n \in Nat, NEW x \in Tones
  PROVE  Tone(x, n) \in Seq(Tones) /\ Len(Tone(x, n)) = n /\ \A u \in 1..n : Tone(x, n)[u] = x
<1> DEFINE t == Tone(x, n)
<1>1. t \in [1..n -> Tones] /\ \A u \in 1..n : t[u] = x BY DEF Tone
<1> HIDE DEF t
<1>2. t \in Seq(Tones) BY <1>1, SeqDef
<1>3. Len(t) = n BY <1>1, <1>2, LenProperties
<1> QED BY <1>1, <1>2, <1>3 DEF t

LEMMA AudioInitially == AudioInit => AudioInv
<1> SUFFICES ASSUME AudioInit PROVE AudioInv OBVIOUS
<1>1. file \in Seq(Byte) BY AudioAssumption DEF AudioInit, AudioAssumption
<1>2. air \in Seq(Tones) /\ air = Tone("silence", SILENCE)
  <2>1. "silence" \in Tones /\ SILENCE \in Nat BY Sizes DEF Tones
  <2>2. Tone("silence", SILENCE) \in Seq(Tones) BY <2>1, Silent
  <2> QED BY <2>2 DEF AudioInit
<1>3. server = [pc |-> "start", sent |-> 0] /\ troubles = 0 BY DEF AudioInit
<1>4. ServerInv
  <2>1. ServerTypes BY <1>1, <1>2, <1>3 DEF ServerTypes, Tones
  <2>2. Len(ToSend) \in Nat
    <3>1. ToSend \in Seq(Byte) BY <1>1, Sent
    <3> QED BY <3>1, LenProperties
  <2> QED BY <1>2, <1>3, <2>1, <2>2 DEF ServerInv
<1>5. receiver = [pc |-> "start", at |-> 0, first |-> FALSE, n |-> 0, fsize |-> 0, file |-> <<>>,
                  late |-> FALSE]
  BY DEF AudioInit
<1>6. ReceiverTypes BY <1>5, EmptySeq DEF ReceiverTypes
<1> QED BY <1>4, <1>5, <1>6, NotBegun

\* The server.
LEMMA ServerKeeps ==
  ASSUME AudioInv, receiver.pc = "start", UNCHANGED receiver, ServerInv'
  PROVE  AudioInv'
<1>1. receiver.pc = "start" OBVIOUS
<1>2. receiver.file = <<>> /\ receiver.n = 0 /\ receiver.fsize = 0 /\ ~receiver.first /\ ReceiverTypes
  BY <1>1 DEF AudioInv
<1>3. /\ receiver'.pc = "start" /\ receiver'.file = <<>> /\ receiver'.n = 0 /\ receiver'.fsize = 0
      /\ ~receiver'.first /\ ReceiverTypes'
  BY <1>1, <1>2 DEF ReceiverTypes
<1>4. IsPrefix(receiver'.file, file')
  <2>1. file' \in Seq(Byte) BY DEF ServerInv, ServerTypes
  <2> QED BY <1>3, <2>1, EmptyPrefix
<1> QED BY <1>3, <1>4 DEF AudioInv, Follows

LEMMA OpensKeeps == ASSUME AudioInv, Opens PROVE AudioInv'
<1>1. /\ ServerTypes /\ server.sent <= Len(ToSend) /\ server.pc = "start" /\ server.sent = 0
      /\ air = Tone("silence", SILENCE) /\ UNCHANGED <<file, receiver>>
      /\ receiver.pc = "start" /\ troubles \in Nat
  BY DEF AudioInv, ServerInv, ServerTypes, Opens
<1>2. ToSend' = ToSend BY <1>1 DEF ToSend
<1>3. CASE server' = [server EXCEPT !.pc = "done"] /\ UNCHANGED <<air, troubles>>
  <2>1. ServerTypes' BY <1>1, <1>3 DEF ServerTypes
  <2> QED BY <1>1, <1>2, <1>3, <2>1, ServerKeeps DEF ServerInv, ServerTypes
<1>4. CASE server' = [server EXCEPT !.pc = "plays"] /\ air' = air \o Tone("mark", PREAMBLE) /\ UNCHANGED troubles
  <2> DEFINE a == Tone("silence", SILENCE)
             b == Tone("mark", PREAMBLE)
  <2>0. "silence" \in Tones /\ "mark" \in Tones /\ SILENCE \in Nat /\ PREAMBLE \in Nat BY Sizes DEF Tones
  <2>1. a \in Seq(Tones) /\ Len(a) = SILENCE /\ \A u \in 1..SILENCE : a[u] = "silence" BY <2>0, Silent
  <2>2. b \in Seq(Tones) /\ Len(b) = PREAMBLE /\ \A u \in 1..PREAMBLE : b[u] = "mark" BY <2>0, Silent
  <2>3. air' = a \o b BY <1>1, <1>4
  <2> HIDE DEF a, b
  <2>4. /\ air' \in Seq(Tones) /\ Len(air') = SILENCE + PREAMBLE
        /\ \A u \in 1..(Len(a) + Len(b)) : air'[u] = IF u <= Len(a) THEN a[u] ELSE b[u - Len(a)]
    BY <2>1, <2>2, <2>3, ConcatProperties
  <2>5. Sounded(0)'
    <3>1. Len(air') = Begin(0 + 1)
      <4>1. 1 \in Nat \ {0} /\ 0 + 1 = 1 OBVIOUS
      <4>2. Begin(1) = SILENCE + PREAMBLE BY <4>1, BytePlaces
      <4> QED BY <2>4, <4>1, <4>2
    <3>2. \A u \in 1..SILENCE : air'[u] = "silence" BY <2>0, <2>1, <2>2, <2>4
    <3>3. \A u \in (SILENCE + 1)..(SILENCE + PREAMBLE) : air'[u] = "mark"
      <4> SUFFICES ASSUME NEW u \in (SILENCE + 1)..(SILENCE + PREAMBLE) PROVE air'[u] = "mark" OBVIOUS
      <4>1. u - SILENCE \in 1..PREAMBLE /\ u \in 1..(Len(a) + Len(b)) /\ ~(u <= Len(a)) BY <2>0, <2>1, <2>2
      <4> QED BY <2>1, <2>2, <2>4, <4>1
    <3>4. \A i \in 1..0 : FALSE OBVIOUS
    <3> QED BY <3>1, <3>2, <3>3, <3>4, Zenon DEF Sounded, Begin, Samples
  <2>6. ServerTypes' BY <1>1, <1>4, <2>4 DEF ServerTypes, Tones
  <2>7. server'.pc = "plays" /\ server'.sent = 0 BY <1>1, <1>4 DEF ServerTypes
  <2>8. ServerInv' BY <1>1, <1>2, <2>5, <2>6, <2>7, Zenon DEF ServerInv
  <2> QED BY <1>1, <2>8, ServerKeeps
<1>5. ASSUME server' = [server EXCEPT !.pc = "plays"], Troubled, NEW played \in Cuts,
             air' = air \o Tone("mark", played)
      PROVE  AudioInv'
  <2>1. Tone("mark", played) \in Seq(Tones)
    <3>1. played \in Nat /\ "mark" \in Tones BY AudioAssumption DEF AudioAssumption, Tones
    <3> QED BY <3>1, Silent
  <2>2. air' \in Seq(Tones) BY <1>1, <1>5, <2>1, ConcatProperties DEF ServerTypes, Tones
  <2>3. troubles' \in Nat /\ troubles' # 0 BY <1>1, <1>5, Counted
  <2>4. server'.pc = "plays" /\ server'.sent = 0 BY <1>1, <1>5 DEF ServerTypes
  <2>5. ServerTypes' BY <1>1, <1>5, <2>2, <2>3 DEF ServerTypes, Tones
  <2>6. ServerInv' BY <1>1, <1>2, <2>3, <2>4, <2>5 DEF ServerInv
  <2> QED BY <1>1, <2>6, ServerKeeps
<1> QED BY <1>3, <1>4, <1>5 DEF Opens

LEMMA ServerModeKeeps == ASSUME AudioInv, server_mode PROVE AudioInv'
<1>1. /\ ServerTypes /\ server.pc = "plays" /\ server.sent < Len(ToSend) /\ server.sent \in Nat
      /\ (troubles = 0 => Sounded(server.sent)) /\ UNCHANGED <<file, receiver>> /\ receiver.pc = "start"
      /\ troubles \in Nat
  BY DEF AudioInv, ServerInv, ServerTypes, server_mode
<1>2. ToSend' = ToSend BY <1>1 DEF ToSend
<1>3. ToSend \in Seq(Byte) /\ Len(ToSend) \in Nat
  <2>1. ToSend \in Seq(Byte) BY <1>1, Sent DEF ServerTypes
  <2> QED BY <2>1, LenProperties
<1> DEFINE sound == modulate_byte(ToSend[server.sent + 1])
<1>4. CASE air' = air \o sound /\ server' = [server EXCEPT !.sent = @ + 1] /\ UNCHANGED troubles
  <2>1. PICK n \in Nat : n = server.sent BY <1>1
  <2>2. n < Len(ToSend) /\ air' = air \o modulate_byte(ToSend[n + 1]) BY <1>1, <1>4, <2>1
  <2>3. air' \in Seq(Tones) /\ (Sounded(n) => Sounded(n + 1)') BY <1>1, <2>2, SoundsOn
  <2>4. server'.pc = "plays" /\ server'.sent = n + 1 BY <1>1, <1>4, <2>1 DEF ServerTypes
  <2>5. ServerTypes' BY <1>1, <1>4, <2>3 DEF ServerTypes, Tones
  <2>6. troubles' = 0 => Sounded(server.sent)'
    <3> SUFFICES ASSUME troubles' = 0 PROVE Sounded(server.sent)' OBVIOUS
    <3>1. Sounded(n) BY <1>1, <1>4, <2>1
    <3>2. Sounded(n + 1)' BY <2>3, <3>1
    <3> QED BY <2>4, <3>2, Zenon DEF Sounded
  <2>7. server'.sent <= Len(ToSend') BY <1>1, <1>2, <1>3, <2>1, <2>2, <2>4
  <2>8. ServerInv' BY <2>4, <2>5, <2>6, <2>7 DEF ServerInv
  <2> QED BY <1>1, <2>8, ServerKeeps
<1>5. ASSUME NEW played \in Cuts, air' = air \o SubSeq(sound, 1, played),
             server' = [server EXCEPT !.sent = @ + 1,
                                      !.pc = IF IsData(server.sent + 1) THEN "done" ELSE @],
             Troubled
      PROVE  AudioInv'
  <2>1. air' \in Seq(Tones)
    <3>1. played \in 0..Samples BY AudioAssumption DEF AudioAssumption, Samples
    <3>2. sound \in Seq(Tones) /\ Len(sound) = Samples
      <4>1. server.sent + 1 \in 1..Len(ToSend) BY <1>1, <1>3
      <4>2. ToSend[server.sent + 1] \in Byte BY <1>3, <4>1
      <4> QED BY <4>2, Modulated
    <3> HIDE DEF sound
    <3>3. SubSeq(sound, 1, played) \in Seq(Tones)
      <4>1. \A i \in 1..played : sound[i] \in Tones
        <5>1. \A i \in 1..played : i \in 1..Samples BY <3>1, SamplesIs
        <5> QED BY <3>2, <5>1, ElementOfSeq
      <4>2. 1 \in 1..(Len(sound) + 1) /\ played \in (1 - 1)..Len(sound) BY <3>1, <3>2, SamplesIs
      <4> QED BY <3>2, <4>1, <4>2, SubSeqProperties
    <3>4. air \in Seq(Tones) BY <1>1 DEF ServerTypes, Tones
    <3> QED BY <1>5, <3>3, <3>4, ConcatProperties
  <2>2. troubles' \in Nat /\ troubles' # 0 BY <1>1, <1>5, Counted
  <2> DEFINE pc == IF IsData(server.sent + 1) THEN "done" ELSE "plays"
  <2>3. server' = [server EXCEPT !.sent = @ + 1, !.pc = pc] BY <1>1, <1>5
  <2>4. pc \in {"plays", "done"} OBVIOUS
  <2> HIDE DEF pc
  <2>5. server'.pc = pc /\ server'.sent = server.sent + 1 /\ ServerTypes'
    <3>1. server \in [pc : {"start", "plays", "done"}, sent : Nat] /\ server.sent + 1 \in Nat
      BY <1>1 DEF ServerTypes
    <3>2. /\ server' \in [pc : {"start", "plays", "done"}, sent : Nat]
          /\ server'.pc = pc /\ server'.sent = server.sent + 1
      BY <2>3, <2>4, <3>1
    <3>3. file' \in Seq(Byte) BY <1>1 DEF ServerTypes
    <3> QED BY <2>1, <2>2, <3>2, <3>3 DEF ServerTypes, Tones
  <2>6. server'.sent <= Len(ToSend') BY <1>1, <1>2, <1>3, <2>5
  <2>7. ServerInv' BY <2>2, <2>4, <2>5, <2>6 DEF ServerInv
  <2> QED BY <1>1, <2>7, ServerKeeps
<1> QED BY <1>4, <1>5 DEF server_mode

LEMMA ClosesKeeps == ASSUME AudioInv, Closes PROVE AudioInv'
<1>1. /\ ServerTypes /\ server.pc = "plays" /\ server.sent = Len(ToSend)
      /\ server' = [server EXCEPT !.pc = "done"] /\ UNCHANGED <<file, air, receiver, troubles>>
      /\ (troubles = 0 => Sounded(server.sent)) /\ receiver.pc = "start"
  BY DEF AudioInv, ServerInv, Closes
<1>2. ToSend' = ToSend BY <1>1 DEF ToSend
<1>3. ServerTypes' BY <1>1 DEF ServerTypes
<1>4. Sounded(Len(ToSend))' <=> Sounded(Len(ToSend)) BY <1>1, <1>2 DEF Sounded
<1>5. server'.pc = "done" /\ server'.sent = server.sent
  BY <1>1 DEF ServerTypes
<1>6. server'.sent <= Len(ToSend')
  <2>1. Len(ToSend) \in Nat
    <3>1. ToSend \in Seq(Byte) BY <1>1, Sent DEF ServerTypes
    <3> QED BY <3>1, LenProperties
  <2> QED BY <1>1, <1>2, <1>5, <2>1
<1>7. ServerInv' BY <1>1, <1>3, <1>4, <1>5, <1>6 DEF ServerInv
<1> QED BY <1>1, <1>7, ServerKeeps

\* What is put in or left out of a sound leaves a sound.
LEMMA OutOfPaceKeeps == ASSUME AudioInv, OutOfPace PROVE AudioInv'
<1>1. /\ ServerInv /\ ServerTypes /\ server.pc = "done" /\ receiver.pc = "start"
      /\ UNCHANGED <<file, server, receiver>> /\ Troubled /\ air \in Seq(Tones) /\ troubles \in Nat
  BY DEF AudioInv, ServerInv, ServerTypes, OutOfPace, Tones
<1>2. PICK p \in Breaks, gap \in Gaps, lost \in Losses :
        /\ p + lost <= Len(air)
        /\ air' = SubSeq(air, 1, p) \o Tone("silence", gap) \o SubSeq(air, p + lost + 1, Len(air))
  BY DEF OutOfPace
<1>3. p \in Nat /\ gap \in Nat /\ lost \in Nat /\ Len(air) \in Nat
  BY <1>1, AudioAssumption, LenProperties DEF AudioAssumption
<1> DEFINE a == SubSeq(air, 1, p)
           b == Tone("silence", gap)
           c == SubSeq(air, p + lost + 1, Len(air))
<1>4. a \in Seq(Tones)
  <2>1. \A i \in 1..p : air[i] \in Tones
    <3>1. \A i \in 1..p : i \in 1..Len(air) BY <1>2, <1>3
    <3> QED BY <1>1, <3>1, ElementOfSeq
  <2>2. 1 \in 1..(Len(air) + 1) /\ p \in (1 - 1)..Len(air) BY <1>2, <1>3
  <2> QED BY <1>1, <2>1, <2>2, SubSeqProperties
<1>5. c \in Seq(Tones)
  <2> DEFINE m == p + lost + 1
             e == Len(air)
  <2>1. m \in 1..(e + 1) /\ e \in (m - 1)..e BY <1>2, <1>3
  <2>2. \A i \in m..e : i \in 1..e BY <2>1
  <2> HIDE DEF m
  <2>3. \A i \in m..e : air[i] \in Tones BY <1>1, <2>2, ElementOfSeq
  <2>4. SubSeq(air, m, e) \in Seq(Tones) BY <1>1, <2>1, <2>3, SubSeqProperties
  <2> QED BY <2>4 DEF m
<1>6. b \in Seq(Tones)
  <2>1. "silence" \in Tones BY DEF Tones
  <2> QED BY <1>3, <2>1, Silent
<1>7. air' = a \o b \o c BY <1>2
<1> HIDE DEF a, b, c
<1>8. air' \in Seq(Tones)
  <2>1. a \o b \in Seq(Tones) BY <1>4, <1>6, ConcatProperties
  <2> QED BY <1>5, <1>7, <2>1, ConcatProperties
<1>9. troubles' \in Nat /\ troubles' # 0 BY <1>1, Counted
<1>10. ServerTypes' BY <1>1, <1>8, <1>9 DEF ServerTypes, Tones
<1>11. ToSend' = ToSend BY <1>1 DEF ToSend
<1>12. ServerInv' BY <1>1, <1>9, <1>10, <1>11 DEF ServerInv
<1> QED BY <1>1, <1>12, ServerKeeps

\* What a receiver needs to keep of the invariant.
LEMMA ReceiverKeeps ==
  ASSUME AudioInv, server.pc = "done", UNCHANGED <<file, air, server>>, ReceiverTypes',
         troubles' \in Nat, troubles' = 0 => troubles = 0, receiver'.pc # "start", receiver'.pc \in {"sync", "size"} => receiver'.file = <<>>,
         Well' => Follows' /\ IsPrefix(receiver'.file, file)
  PROVE  AudioInv'
<1>1. ServerInv' BY DEF AudioInv, ServerInv, ServerTypes, Sounded, ToSend
<1>2. receiver'.pc \in {"start", "sync", "size"} => receiver'.file = <<>> OBVIOUS
<1> QED BY <1>1, <1>2 DEF AudioInv

LEMMA FailsKeeps ==
  ASSUME AudioInv, Hears(receiver.pc), Fails
  PROVE  AudioInv'
<1>1. /\ ReceiverTypes /\ server.pc = "done" /\ UNCHANGED <<file, air, server, troubles>>
      /\ troubles \in Nat
  BY DEF AudioInv, ServerInv, ServerTypes, Hears, Fails
<1>2. /\ receiver' = [receiver EXCEPT !.pc = "failed"] /\ receiver'.pc = "failed" /\ receiver'.file = receiver.file
      /\ receiver'.late = receiver.late
  BY <1>1 DEF Fails, ReceiverTypes
<1>3. ReceiverTypes' BY <1>1, <1>2 DEF ReceiverTypes
<1>4. Well' => Well BY <1>1, <1>2 DEF Well
<1>5. Well' => Follows' /\ IsPrefix(receiver'.file, file) BY <1>2, <1>4 DEF AudioInv, Follows
<1> QED BY <1>1, <1>2, <1>3, <1>5, ReceiverKeeps

LEMMA PreambleKeeps == ASSUME AudioInv, wait_for_preamble PROVE AudioInv'
<1>1. /\ ServerInv /\ ServerTypes /\ ReceiverTypes /\ receiver.pc = "start" /\ server.pc = "done"
      /\ UNCHANGED <<file, air, server>>
      /\ receiver.file = <<>> /\ receiver.n = 0 /\ receiver.fsize = 0 /\ ~receiver.first
      /\ troubles \in Nat /\ UNCHANGED troubles
  BY DEF AudioInv, ServerInv, ServerTypes, wait_for_preamble, Hears, Fails
<1>2. CASE Fails
  <2>1. Hears(receiver.pc) BY <1>1 DEF Hears
  <2> QED BY <1>2, <2>1, FailsKeeps
<1>3. CASE ~Fails
  <2>1. PICK start \in Starts, n \in 0..Len(air) :
          /\ Share(start + n * CHECK, CHECK, "mark") > 0
          /\ receiver' = [receiver EXCEPT !.pc = "sync", !.at = start + n * CHECK + CHECK,
                                          !.late = (start + n * CHECK + CHECK > SILENCE + PREAMBLE)]
    BY <1>3, Zenon DEF wait_for_preamble
  <2> DEFINE p == n * CHECK
  <2>2. CHECK \in Nat /\ start \in Nat /\ p \in Nat /\ SILENCE \in Nat /\ PREAMBLE \in Nat
    <3>1. CHECK \in Nat /\ start \in Nat BY AudioAssumption DEF AudioAssumption
    <3>2. n \in Nat BY <1>1, LenProperties DEF ServerTypes
    <3> QED BY <3>1, <3>2, Sizes, Multiples
  <2> DEFINE late == start + p + CHECK > SILENCE + PREAMBLE
  <2>3. receiver' = [receiver EXCEPT !.pc = "sync", !.at = start + p + CHECK, !.late = late] BY <2>1
  <2>4. late \in BOOLEAN /\ start + p \in Nat /\ start + p + CHECK \in Nat
    <3> HIDE DEF p
    <3> QED BY <2>2
  <2>5. Share(start + p, CHECK, "mark") > 0 BY <2>1
  <2> DEFINE at == start + p
  <2>6. at \in Nat BY <2>4
  <2>7. late <=> at + CHECK > SILENCE + PREAMBLE OBVIOUS
  <2>8. receiver' = [receiver EXCEPT !.pc = "sync", !.at = at + CHECK, !.late = late] BY <2>3
  <2>9. Share(at, CHECK, "mark") > 0 BY <2>5
  <2> HIDE DEF p, late, at
  <2>10. /\ receiver'.pc = "sync" /\ receiver'.at = at + CHECK /\ (receiver'.late <=> late)
         /\ receiver'.file = <<>> /\ receiver'.n = 0 /\ receiver'.fsize = 0 /\ ~receiver'.first
    BY <1>1, <2>8 DEF ReceiverTypes
  <2>11. ReceiverTypes'
    <3>1. at + CHECK \in Nat /\ late \in BOOLEAN BY <2>2, <2>4, <2>6
    <3> QED BY <1>1, <2>8, <3>1 DEF ReceiverTypes
  <2>12. ASSUME Well' PROVE Follows' /\ IsPrefix(receiver'.file, file)
    <3>1. troubles = 0 /\ ~late BY <1>1, <2>10, <2>12 DEF Well
    <3>2. at + CHECK <= SILENCE + PREAMBLE BY <2>2, <2>6, <2>7, <3>1
    <3>3. air \in Seq(Tones) /\ Len(air) \in Nat BY <1>1, LenProperties DEF ServerTypes, Tones
    <3>4. Sounded(Len(ToSend))
      <4> SUFFICES ASSUME air = Tone("silence", SILENCE) PROVE FALSE BY <1>1, <3>1 DEF ServerInv
      <4>1. Len(air) = SILENCE /\ \A u \in 1..SILENCE : air[u] = "silence"
        <5>1. SILENCE \in Nat /\ "silence" \in Tones BY <2>2 DEF Tones
        <5> QED BY <5>1, Silent
      <4>2. \A u \in (at + 1)..(at + CHECK) : ~(u <= Len(air) /\ air[u] = "mark") BY <2>2, <2>6, <4>1
      <4>3. Share(at, CHECK, "mark") = 0 BY <2>2, <2>6, <4>2, ShareNone
      <4> QED BY <2>9, <4>3
    <3>5. SILENCE <= at + CHECK
      <4> SUFFICES ASSUME at + CHECK < SILENCE PROVE FALSE BY <2>2, <2>6
      <4>1. \A u \in 1..SILENCE : air[u] = "silence" BY <3>4 DEF Sounded
      <4>2. \A u \in (at + 1)..(at + CHECK) : ~(u <= Len(air) /\ air[u] = "mark") BY <2>2, <2>6, <4>1
      <4>3. Share(at, CHECK, "mark") = 0 BY <2>2, <2>6, <4>2, ShareNone
      <4> QED BY <2>9, <4>3
    <3>6. Resting(at + CHECK, 0)
      <4>1. Begin(1) = SILENCE + PREAMBLE
        <5>1. 1 \in Nat \ {0} OBVIOUS
        <5> QED BY <5>1, BytePlaces
      <4>2. 0 + 1 = 1 /\ at + CHECK \in Nat BY <2>2, <2>6
      <4> QED BY <3>2, <3>5, <4>1, <4>2 DEF Resting
    <3>7. Heard' = 0 BY <2>10 DEF Heard
    <3>8. Sounded(Len(ToSend))' BY <1>1, <3>4 DEF Sounded, ToSend
    <3>9. Follows' BY <2>10, <3>6, <3>7, <3>8, Zenon DEF Follows
    <3>10. IsPrefix(receiver'.file, file)
      <4>1. file \in Seq(Byte) BY <1>1 DEF ServerTypes
      <4> QED BY <2>10, <4>1, EmptyPrefix
    <3> QED BY <3>9, <3>10
  <2> QED BY <1>1, <2>10, <2>11, <2>12, ReceiverKeeps
<1> QED BY <1>2, <1>3

\* What a receiver that is well takes is the next byte.
LEMMA NextByte ==
  ASSUME AudioInv, Well, receiver.pc \in {"sync", "size", "data"},
         Heard \in Nat, Heard < Len(ToSend), NEW b \in demodulate_byte, b.skipped = RestOfBit
  PROVE  b.byte = ToSend[Heard + 1] /\ Resting(b.at, Heard + 1)
<1>1. ServerTypes /\ ReceiverTypes /\ Sounded(Len(ToSend)) /\ Resting(receiver.at, Heard)
  BY DEF AudioInv, ServerInv, Follows
<1>2. Len(ToSend) \in Nat
  <2>1. ToSend \in Seq(Byte) BY <1>1, Sent DEF ServerTypes
  <2> QED BY <2>1, LenProperties
<1>3. PICK s \in StartBits(receiver.at) :
        b.byte = Demodulated(s, RestOfBit) /\ b.at = Behind(s, RestOfBit)
  BY <1>1, Takes
<1>4. PICK N \in Nat : N = Len(ToSend) BY <1>2
<1>5. PICK k \in 0..(N - 1) : k = Heard BY <1>2, <1>4
<1>6. PICK at : at = receiver.at OBVIOUS
<1>7. Demodulated(s, RestOfBit) = ToSend[k + 1] /\ Resting(Behind(s, RestOfBit), k + 1)
  <2>1. N <= Len(ToSend) /\ Sounded(N) /\ Resting(at, k) /\ s \in StartBits(at) BY <1>1, <1>2, <1>3, <1>4, <1>5, <1>6
  <2> QED BY <1>1, <2>1, Demod, Zenon
<1> QED BY <1>3, <1>5, <1>7

\* Where the receiver is in what is sent.
LEMMA Lengths ==
  ASSUME AudioInv
  PROVE  /\ ServerTypes /\ ReceiverTypes /\ file \in Seq(Byte) /\ receiver.file \in Seq(Byte)
         /\ SIZE_LEN \in Nat \ {0} /\ Len(file) \in Nat /\ Len(receiver.file) \in Nat
         /\ Len(ToSend) = 2 + SIZE_LEN + Len(file)
<1>1. ServerTypes /\ ReceiverTypes BY DEF AudioInv, ServerInv
<1>2. file \in Seq(Byte) /\ receiver.file \in Seq(Byte) BY <1>1 DEF ServerTypes, ReceiverTypes
<1>3. SIZE_LEN \in Nat \ {0} BY AudioAssumption DEF AudioAssumption
<1> QED BY <1>1, <1>2, <1>3, Sent, LenProperties

LEMMA SyncKeeps == ASSUME AudioInv, SyncWord PROVE AudioInv'
<1>1. /\ receiver.pc = "sync" /\ server.pc = "done" /\ UNCHANGED <<file, air, server>>
      /\ receiver.file = <<>> /\ troubles \in Nat
  BY DEF AudioInv, ServerInv, ServerTypes, SyncWord, Hears
<1>2. CASE receiver' = [receiver EXCEPT !.pc = "size"] /\ Troubled
  <2>0. troubles' \in Nat /\ troubles' # 0 BY <1>1, <1>2, Counted
  <2>1. receiver'.pc = "size" /\ receiver'.file = <<>> BY <1>1, <1>2, Lengths DEF ReceiverTypes
  <2>2. ReceiverTypes' BY <1>2, Lengths DEF ReceiverTypes
  <2>3. ~Well' BY <2>0 DEF Well
  <2> QED BY <1>1, <2>0, <2>1, <2>2, <2>3, ReceiverKeeps
<1>3. ASSUME NEW b \in demodulate_byte,
             receiver' = [receiver EXCEPT !.pc = IF receiver.first /\ b.byte = SYNC_LO THEN "size" ELSE @,
                                          !.first = (~receiver.first /\ b.byte = SYNC_HI), !.at = b.at],
             Disturbs(b)
      PROVE  AudioInv'
  <2>0. /\ troubles' \in Nat
        /\ (troubles' = 0 => troubles = 0 /\ b.skipped = RestOfBit)
    BY <1>1, <1>3, Counted
  <2> DEFINE pc == IF receiver.first /\ b.byte = SYNC_LO THEN "size" ELSE "sync"
             first == ~receiver.first /\ b.byte = SYNC_HI
  <2>1. pc \in {"sync", "size"} /\ first \in BOOLEAN OBVIOUS
  <2>2. (receiver.first /\ b.byte = SYNC_LO => pc = "size" /\ ~first)
        /\ (~receiver.first /\ b.byte = SYNC_HI => pc = "sync" /\ first)
    OBVIOUS
  <2>3. receiver' = [receiver EXCEPT !.pc = pc, !.first = first, !.at = b.at] BY <1>1, <1>3
  <2> HIDE DEF pc, first
  <2>4. b.at \in Nat BY Takes, Lengths
  <2>5. ReceiverTypes' BY <2>1, <2>3, <2>4, Lengths DEF ReceiverTypes
  <2>6. /\ receiver'.pc = pc /\ (receiver'.first <=> first) /\ receiver'.at = b.at /\ receiver'.file = <<>>
        /\ receiver'.late = receiver.late
        /\ receiver'.n = receiver.n /\ receiver'.fsize = receiver.fsize
    BY <1>1, <2>3, Lengths DEF ReceiverTypes
  <2>7. ASSUME Well' PROVE Follows' /\ IsPrefix(receiver'.file, file)
    <3>1. Well /\ b.skipped = RestOfBit BY <1>1, <2>0, <2>6, <2>7 DEF Well
    <3>2. receiver.n = 0 /\ receiver.fsize = 0 /\ Sounded(Len(ToSend)) /\ IsPrefix(receiver.file, file)
          /\ Len(file) < Power[SIZE_LEN]
      BY <1>1, <3>1 DEF AudioInv, Follows, Well
    <3>3. Heard = IF receiver.first THEN 1 ELSE 0 BY <1>1 DEF Heard
    <3>4. Heard \in Nat /\ Heard < Len(ToSend) BY <3>3, Lengths
    <3>5. b.byte = ToSend[Heard + 1] /\ Resting(b.at, Heard + 1) BY <1>1, <3>1, <3>4, NextByte
    <3>6. ToSend[1] = SYNC_HI /\ ToSend[2] = SYNC_LO BY Sent, Lengths
    <3>7. Sounded(Len(ToSend))' BY <1>1, <3>2 DEF Sounded, ToSend
    <3>8. CASE receiver.first
      <4>1. Heard + 1 = 2 BY <3>3, <3>8
      <4>2. pc = "size" BY <2>2, <3>5, <3>6, <3>8, <4>1
      <4>3. Heard' = 2
        <5>1. 2 + 0 = 2 OBVIOUS
        <5> QED BY <2>6, <3>2, <4>2, <5>1 DEF Heard
      <4>4. 0 < SIZE_LEN /\ 0 = Len(file) \div Power[SIZE_LEN - 0]
        <5>1. SIZE_LEN - 0 = SIZE_LEN /\ SIZE_LEN \in 0..SIZE_LEN /\ 0 < SIZE_LEN BY Lengths
        <5> DEFINE d == Power[SIZE_LEN]
                   l == Len(file)
        <5>2. d \in Nat \ {0} /\ l \in Nat /\ l < d BY <3>2, <5>1, Lengths, Powers
        <5> HIDE DEF d, l
        <5>3. 0 \in Nat /\ 0 * d <= l /\ l < (0 + 1) * d BY <5>2
        <5>4. l \div d = 0 BY <5>2, <5>3, QuotientIs
        <5> QED BY <5>1, <5>4 DEF d, l
      <4>5. Follows'
        <5>1. receiver'.pc = "size" /\ receiver'.n = 0 /\ receiver'.fsize = 0 BY <2>6, <3>2, <4>2
        <5>2. Resting(receiver'.at, Heard') BY <2>6, <3>5, <4>1, <4>3
        <5>3. receiver'.n < SIZE_LEN /\ receiver'.fsize = Len(file') \div Power[SIZE_LEN - receiver'.n]
          BY <1>1, <4>4, <5>1
        <5> QED BY <3>7, <5>1, <5>2, <5>3, Zenon DEF Follows
      <4> QED BY <1>1, <2>6, <3>2, <4>5
    <3>9. CASE ~receiver.first
      <4>1. Heard + 1 = 1 BY <3>3, <3>9
      <4>2. pc = "sync" /\ first BY <2>2, <3>5, <3>6, <3>9, <4>1
      <4>3. Heard' = 1 BY <2>6, <4>2 DEF Heard
      <4>4. Follows'
        <5>1. receiver'.pc = "sync" /\ receiver'.n = 0 /\ receiver'.fsize = 0 BY <2>6, <3>2, <4>2
        <5>2. Resting(receiver'.at, Heard') BY <2>6, <3>5, <4>1, <4>3
        <5> QED BY <3>7, <5>1, <5>2, Zenon DEF Follows
      <4> QED BY <1>1, <2>6, <3>2, <4>4
    <3> QED BY <3>8, <3>9
  <2>8. receiver'.pc # "start" BY <2>1, <2>6
  <2> QED BY <1>1, <2>0, <2>5, <2>6, <2>7, <2>8, ReceiverKeeps
<1> QED BY <1>2, <1>3 DEF SyncWord

LEMMA SizeKeeps == ASSUME AudioInv, SizeByte PROVE AudioInv'
<1>1. /\ receiver.pc = "size" /\ server.pc = "done" /\ UNCHANGED <<file, air, server>>
      /\ receiver.file = <<>> /\ troubles \in Nat
  BY DEF AudioInv, ServerInv, ServerTypes, SizeByte, Hears
<1>2. CASE Fails
  <2>1. Hears(receiver.pc) BY <1>1 DEF Hears
  <2> QED BY <1>2, <2>1, FailsKeeps
<1>3. ASSUME NEW b \in demodulate_byte,
             receiver' = [receiver EXCEPT !.fsize = @ * BASE + Number[b.byte], !.n = @ + 1, !.at = b.at,
                                          !.pc = IF receiver.n + 1 = SIZE_LEN THEN "data" ELSE @],
             Disturbs(b)
      PROVE  AudioInv'
  <2>0. /\ troubles' \in Nat
        /\ (troubles' = 0 => troubles = 0 /\ b.skipped = RestOfBit)
    BY <1>1, <1>3, Counted
  <2> DEFINE pc == IF receiver.n + 1 = SIZE_LEN THEN "data" ELSE "size"
             fsize == receiver.fsize * BASE + Number[b.byte]
             n == receiver.n
  <2>1. pc \in {"data", "size"} OBVIOUS
  <2>2. (n + 1 = SIZE_LEN => pc = "data") /\ (n + 1 # SIZE_LEN => pc = "size") OBVIOUS
  <2>3. receiver' = [receiver EXCEPT !.fsize = fsize, !.n = n + 1, !.at = b.at, !.pc = pc] BY <1>1, <1>3
  <2>4. n \in Nat /\ n + 1 \in Nat /\ b.at \in Nat /\ Number[b.byte] \in Nat BY Takes, Lengths DEF ReceiverTypes
  <2>5. fsize \in Nat
    <3>1. receiver.fsize \in Nat /\ BASE \in Nat BY Lengths, AudioAssumption DEF ReceiverTypes, AudioAssumption
    <3> DEFINE p == receiver.fsize * BASE
    <3>2. p \in Nat BY <3>1, Multiples
    <3> HIDE DEF p
    <3>3. p + Number[b.byte] \in Nat BY <2>4, <3>2
    <3> QED BY <3>3 DEF p
  <2>6. fsize = receiver.fsize * BASE + Number[b.byte] /\ n = receiver.n OBVIOUS
  <2> HIDE DEF pc, fsize, n
  <2>7. ReceiverTypes' BY <2>1, <2>3, <2>4, <2>5, Lengths DEF ReceiverTypes
  <2>8. /\ receiver'.pc = pc /\ receiver'.at = b.at /\ receiver'.file = <<>>
        /\ receiver'.late = receiver.late
        /\ receiver'.n = n + 1 /\ receiver'.fsize = fsize
    BY <1>1, <2>3, Lengths DEF ReceiverTypes
  <2>9. ASSUME Well' PROVE Follows' /\ IsPrefix(receiver'.file, file)
    <3>1. Well /\ b.skipped = RestOfBit BY <1>1, <2>0, <2>8, <2>9 DEF Well
    <3>2. /\ n < SIZE_LEN /\ receiver.fsize = Len(file) \div Power[SIZE_LEN - n]
          /\ Sounded(Len(ToSend)) /\ IsPrefix(receiver.file, file)
      BY <1>1, <2>6, <3>1 DEF AudioInv, Follows
    <3>3. Heard = 2 + n BY <1>1, <2>6 DEF Heard
    <3>4. Heard \in Nat /\ Heard < Len(ToSend) BY <2>4, <3>2, <3>3, Lengths
    <3>5. b.byte = ToSend[Heard + 1] /\ Resting(b.at, Heard + 1) BY <1>1, <3>1, <3>4, NextByte
    <3>6. Sounded(Len(ToSend))' BY <1>1, <3>2 DEF Sounded, ToSend
    <3> DEFINE k == SIZE_LEN - n
    <3>7. /\ k \in 1..SIZE_LEN /\ k - 1 = SIZE_LEN - (n + 1) /\ n + 1 \in 1..SIZE_LEN /\ Heard + 1 = 2 + (n + 1)
          /\ (n + 1 = SIZE_LEN => k - 1 = 0)
      BY <2>4, <3>2, <3>3, Lengths
    <3>8. Number[b.byte] = (Len(file) \div Power[k - 1]) % BASE
      <4>1. Number[ToSend[2 + (n + 1)]] = (Len(file) \div Power[SIZE_LEN - (n + 1)]) % BASE BY <3>7, Lengths, Sent
      <4> QED BY <3>5, <3>7, <4>1
    <3>9. fsize = Len(file) \div Power[k - 1]
      <4>1. receiver.fsize = Len(file) \div Power[k] BY <3>2
      <4> HIDE DEF k
      <4>2. Len(file) \div Power[k - 1] = (Len(file) \div Power[k]) * BASE + ((Len(file) \div Power[k - 1]) % BASE)
        BY <3>7, Lengths, Digit
      <4> QED BY <2>6, <3>8, <4>1, <4>2, Zenon
    <3> HIDE DEF k
    <3>10. CASE n + 1 = SIZE_LEN
      <4>1. fsize = Len(file)
        <5>1. Power[k - 1] = 1 BY <3>7, <3>10, Powers
        <5> DEFINE l == Len(file)
        <5>2. l \in Nat BY Lengths
        <5> HIDE DEF l
        <5>3. l \div 1 = l BY <5>2
        <5> QED BY <3>9, <5>1, <5>3 DEF l
      <4>2. receiver'.pc = "data" BY <2>2, <2>8, <3>10
      <4>3. Heard' = Heard + 1
        <5>1. Len(receiver'.file) = 0 BY <2>8, EmptySeq
        <5>2. Heard' = 2 + SIZE_LEN + Len(receiver'.file) BY <4>2 DEF Heard
        <5> QED BY <3>7, <3>10, <5>1, <5>2, Lengths
      <4>4. Resting(receiver'.at, Heard') BY <2>8, <3>5, <4>3
      <4>5. receiver'.fsize = Len(file') BY <1>1, <2>8, <4>1
      <4>6. Follows' BY <3>6, <4>2, <4>4, <4>5, Zenon DEF Follows
      <4> QED BY <1>1, <2>8, <3>2, <4>6
    <3>11. CASE n + 1 # SIZE_LEN
      <4>1. receiver'.pc = "size" BY <2>2, <2>8, <3>11
      <4>2. Heard' = Heard + 1 BY <2>8, <3>7, <4>1 DEF Heard
      <4>3. Resting(receiver'.at, Heard') BY <2>8, <3>5, <4>2
      <4>4. receiver'.n < SIZE_LEN BY <2>4, <2>8, <3>2, <3>11, Lengths
      <4>5. receiver'.fsize = Len(file') \div Power[SIZE_LEN - receiver'.n] BY <1>1, <2>8, <3>7, <3>9
      <4>6. Follows' BY <3>6, <4>1, <4>3, <4>4, <4>5, Zenon DEF Follows
      <4> QED BY <1>1, <2>8, <3>2, <4>6
    <3> QED BY <3>10, <3>11
  <2>10. receiver'.pc # "start" BY <2>1, <2>8
  <2> QED BY <1>1, <2>0, <2>7, <2>8, <2>9, <2>10, ReceiverKeeps
<1> QED BY <1>2, <1>3 DEF SizeByte

LEMMA DataKeeps == ASSUME AudioInv, DataByte PROVE AudioInv'
<1>1. /\ receiver.pc = "data" /\ server.pc = "done" /\ UNCHANGED <<file, air, server>>
      /\ Len(receiver.file) < receiver.fsize /\ troubles \in Nat
  BY DEF AudioInv, ServerInv, ServerTypes, DataByte, Hears
<1>2. CASE Fails
  <2>1. Hears(receiver.pc) BY <1>1 DEF Hears
  <2> QED BY <1>2, <2>1, FailsKeeps
<1>3. ASSUME NEW b \in demodulate_byte,
             receiver' = [receiver EXCEPT !.file = Append(@, b.byte), !.at = b.at],
             Disturbs(b)
      PROVE  AudioInv'
  <2>0. /\ troubles' \in Nat
        /\ (troubles' = 0 => troubles = 0 /\ b.skipped = RestOfBit)
    BY <1>1, <1>3, Counted
  <2>1. b.byte \in Byte /\ b.at \in Nat BY Takes, Lengths
  <2> DEFINE f == receiver.file
             g == Append(f, b.byte)
  <2>2. /\ f \in Seq(Byte) /\ Len(f) \in Nat /\ g \in Seq(Byte) /\ Len(g) = Len(f) + 1
        /\ g[Len(f) + 1] = b.byte /\ \A i \in 1..Len(f) : g[i] = f[i]
    BY <2>1, Lengths, AppendProperties
  <2>3. receiver' = [receiver EXCEPT !.file = g, !.at = b.at] BY <1>3
  <2>4. f = receiver.file OBVIOUS
  <2> HIDE DEF f, g
  <2>5. ReceiverTypes' BY <2>1, <2>2, <2>3, Lengths DEF ReceiverTypes
  <2>6. /\ receiver'.pc = "data" /\ receiver'.at = b.at /\ receiver'.file = g
        /\ receiver'.late = receiver.late
        /\ receiver'.fsize = receiver.fsize
    BY <1>1, <2>3, Lengths DEF ReceiverTypes
  <2>7. ASSUME Well' PROVE Follows' /\ IsPrefix(receiver'.file, file)
    <3>1. Well /\ b.skipped = RestOfBit BY <1>1, <2>0, <2>6, <2>7 DEF Well
    <3>2. receiver.fsize = Len(file) /\ Sounded(Len(ToSend)) /\ IsPrefix(f, file)
      BY <1>1, <2>4, <3>1 DEF AudioInv, Follows
    <3>3. Heard = 2 + SIZE_LEN + Len(f) BY <1>1, <2>4 DEF Heard
    <3>4. Len(f) < Len(file) BY <1>1, <2>4, <3>2
    <3>5. Heard \in Nat /\ Heard < Len(ToSend) BY <2>2, <3>3, <3>4, Lengths
    <3>6. b.byte = ToSend[Heard + 1] /\ Resting(b.at, Heard + 1) BY <1>1, <3>1, <3>5, NextByte
    <3>7. Heard + 1 = 2 + SIZE_LEN + (Len(f) + 1) /\ Len(f) + 1 \in 1..Len(file)
      <4> DEFINE m == Len(f)
                 l == Len(file)
      <4>1. m \in Nat /\ l \in Nat /\ m < l /\ SIZE_LEN \in Nat /\ Heard = 2 + SIZE_LEN + m
        BY <2>2, <3>3, <3>4, Lengths
      <4> HIDE DEF m, l
      <4>2. Heard + 1 = 2 + SIZE_LEN + (m + 1) /\ m + 1 \in 1..l BY <4>1
      <4> QED BY <4>2 DEF m, l
    <3>8. b.byte = file[Len(f) + 1]
      <4>1. ToSend[2 + SIZE_LEN + (Len(f) + 1)] = file[Len(f) + 1] BY <3>7, Lengths, Sent
      <4> QED BY <3>6, <3>7, <4>1
    <3>9. IsPrefix(g, file)
      <4>1. \A i \in 1..Len(f) : f[i] = file[i] BY <2>2, <3>2, Lengths, PrefixOf
      <4>2. \A i \in 1..Len(g) : g[i] = file[i] BY <2>2, <3>8, <4>1
      <4>3. Len(g) <= Len(file) BY <2>2, <3>4, Lengths
      <4> QED BY <2>2, <4>2, <4>3, Lengths, PrefixOf
    <3>10. Heard' = Heard + 1
      <4>1. Heard' = 2 + SIZE_LEN + Len(g) BY <2>6 DEF Heard
      <4> QED BY <2>2, <3>7, <4>1
    <3>11. Resting(receiver'.at, Heard') BY <2>6, <3>6, <3>10
    <3>12. receiver'.fsize = Len(file') BY <1>1, <2>6, <3>2
    <3>13. Sounded(Len(ToSend))' BY <1>1, <3>2 DEF Sounded, ToSend
    <3>14. Follows' BY <2>6, <3>11, <3>12, <3>13, Zenon DEF Follows
    <3> QED BY <2>6, <3>9, <3>14
  <2>8. receiver'.pc # "start" /\ (receiver'.pc \in {"sync", "size"} => receiver'.file = <<>>) BY <2>6
  <2> QED BY <1>1, <2>0, <2>5, <2>7, <2>8, ReceiverKeeps
<1> QED BY <1>2, <1>3 DEF DataByte

LEMMA CompleteKeeps == ASSUME AudioInv, Complete PROVE AudioInv'
<1>1. /\ receiver.pc = "data" /\ server.pc = "done" /\ UNCHANGED <<file, air, server>>
      /\ Len(receiver.file) = receiver.fsize /\ receiver' = [receiver EXCEPT !.pc = "complete"]
      /\ UNCHANGED troubles /\ troubles \in Nat
  BY DEF AudioInv, ServerInv, ServerTypes, Complete, Hears
<1>2. /\ receiver'.pc = "complete" /\ receiver'.file = receiver.file
      /\ receiver'.late = receiver.late
  BY <1>1, Lengths DEF ReceiverTypes
<1>3. ReceiverTypes' BY <1>1, Lengths DEF ReceiverTypes
<1>4. ASSUME Well' PROVE Follows' /\ IsPrefix(receiver'.file, file)
  <2>1. Well BY <1>1, <1>2, <1>4 DEF Well
  <2>2. receiver.fsize = Len(file) /\ IsPrefix(receiver.file, file) BY <1>1, <2>1 DEF AudioInv, Follows
  <2>3. receiver.file = file
    <3>1. \A i \in 1..Len(receiver.file) : receiver.file[i] = file[i] BY <2>2, Lengths, PrefixOf
    <3> QED BY <1>1, <2>2, <3>1, Lengths, SeqEqual
  <2> QED BY <1>1, <1>2, <2>2, <2>3 DEF Follows
<1>5. receiver'.pc # "start" /\ (receiver'.pc \in {"sync", "size"} => receiver'.file = <<>>) BY <1>2
<1> QED BY <1>1, <1>3, <1>4, <1>5, ReceiverKeeps

LEMMA AudioStep == AudioInv /\ AudioNext => AudioInv'
<1> SUFFICES ASSUME AudioInv, AudioNext PROVE AudioInv' OBVIOUS
<1>1. CASE Opens BY <1>1, OpensKeeps
<1>2. CASE server_mode BY <1>2, ServerModeKeeps
<1>3. CASE Closes BY <1>3, ClosesKeeps
<1>9. CASE OutOfPace BY <1>9, OutOfPaceKeeps
<1>4. CASE wait_for_preamble BY <1>4, PreambleKeeps
<1>5. CASE SyncWord BY <1>5, SyncKeeps
<1>6. CASE SizeByte BY <1>6, SizeKeeps
<1>7. CASE DataByte BY <1>7, DataKeeps
<1>8. CASE Complete BY <1>8, CompleteKeeps
<1> QED BY <1>1, <1>2, <1>3, <1>4, <1>5, <1>6, <1>7, <1>8, <1>9 DEF AudioNext

LEMMA AudioStays == AudioInv /\ UNCHANGED audioModem => AudioInv'
<1> SUFFICES ASSUME AudioInv, UNCHANGED audioModem PROVE AudioInv' OBVIOUS
<1>1. UNCHANGED <<file, air, server, receiver, troubles>> BY DEF audioModem
<1>2. ServerInv'
  <2>1. ToSend' = ToSend BY <1>1 DEF ToSend
  <2>2. Sounded(server.sent)' = Sounded(server.sent) BY <1>1, <2>1 DEF Sounded
  <2>3. Sounded(Len(ToSend))' = Sounded(Len(ToSend)) BY <1>1, <2>1 DEF Sounded
  <2>4. ServerTypes' BY <1>1 DEF AudioInv, ServerInv, ServerTypes
  <2>5. ServerInv BY DEF AudioInv
  <2> QED BY <1>1, <2>1, <2>2, <2>3, <2>4, <2>5 DEF ServerInv
<1>3. ReceiverTypes' BY <1>1 DEF AudioInv, ReceiverTypes
<1>4. Well' => Well BY <1>1 DEF Well
<1>5. Well => Follows /\ IsPrefix(receiver.file, file) BY DEF AudioInv
<1>6. (Sounded(Len(ToSend)) => Sounded(Len(ToSend))') /\ Heard' = Heard BY <1>1 DEF Sounded, ToSend, Heard
<1>7. Follows => Follows' BY <1>1, <1>6 DEF Follows
<1> QED BY <1>1, <1>2, <1>3, <1>4, <1>5, <1>7 DEF AudioInv

LEMMA AudioHolds == AudioInv => AudioWhole
BY DEF AudioInv, Well, Follows, AudioWhole
-----------------------------------------------------------------------------
(* The programs in the composition: in a behaviour one of them runs, and   *)
(* the others keep their initial states.                                   *)
DevicesInv == DropInv /\ DeviceInv /\ BlockInv /\ TapInv /\ EditorInv /\ ShellInv /\ AudioInv

LEMMA DropStays == ASSUME DropInv, UNCHANGED dropPackets PROVE DropInv'
<1>1. UNCHANGED <<dpc, netpoll, pt_netif, dev, cpu, grace>> BY DEF dropPackets
<1>2. UNCHANGED InHandler BY <1>1 DEF InHandler
<1> QED BY <1>1, <1>2 DEF DropInv, DropTypes

LEMMA BlockStays == ASSUME BlockInv, UNCHANGED blockDriver PROVE BlockInv'
BY DEF blockDriver, BlockInv, BlockTypes, DisksCounted, OpenDisks

LEMMA DeviceStays == ASSUME DeviceInv, UNCHANGED deviceModule PROVE DeviceInv'
BY DEF deviceModule, DeviceInv, DeviceTypes, OwnerHasIt, ThreadAtRest, AtRest, Out, Gone

LEMMA DevicesStep == ASSUME DevicesInv, [Next]_vars PROVE DevicesInv'
<1> USE DEF DevicesInv
<1>1. CASE DropNext /\ UNCHANGED <<tapWriter, blockDriver, deviceModule, lineEditor, shellLine, audioModem>>
  BY <1>1, DropStep, BlockStays, DeviceStays, TapStays, EditorStays, ShellLineStays, AudioStays
<1>2. CASE BlockNext /\ UNCHANGED <<tapWriter, dropPackets, deviceModule, lineEditor, shellLine, audioModem>>
  BY <1>2, BlockStep, DropStays, DeviceStays, TapStays, EditorStays, ShellLineStays, AudioStays
<1>3. CASE DeviceNext /\ UNCHANGED <<tapWriter, dropPackets, blockDriver, lineEditor, shellLine, audioModem>>
  BY <1>3, DeviceStep, DropStays, BlockStays, TapStays, EditorStays, ShellLineStays, AudioStays
<1>4. CASE TapNext /\ UNCHANGED <<dropPackets, blockDriver, deviceModule, lineEditor, shellLine, audioModem>>
  BY <1>4, TapStep, DropStays, BlockStays, DeviceStays, EditorStays, ShellLineStays, AudioStays
<1>5. CASE EditorNext /\ UNCHANGED <<tapWriter, dropPackets, blockDriver, deviceModule, shellLine, audioModem>>
  BY <1>5, EditorStep, DropStays, BlockStays, DeviceStays, TapStays, ShellLineStays, AudioStays
<1>6. CASE ShellLineNext /\ UNCHANGED <<tapWriter, dropPackets, blockDriver, deviceModule, lineEditor, audioModem>>
  BY <1>6, ShellLineStep, DropStays, BlockStays, DeviceStays, TapStays, EditorStays, AudioStays
<1>7. CASE AudioNext /\ UNCHANGED <<tapWriter, dropPackets, blockDriver, deviceModule, lineEditor, shellLine>>
  BY <1>7, AudioStep, DropStays, BlockStays, DeviceStays, TapStays, EditorStays, ShellLineStays
<1>8. CASE UNCHANGED <<tapWriter, dropPackets, blockDriver, deviceModule, lineEditor, shellLine, audioModem>>
  BY <1>8, DropStays, BlockStays, DeviceStays, TapStays, EditorStays, ShellLineStays, AudioStays
<1> QED BY <1>1, <1>2, <1>3, <1>4, <1>5, <1>6, <1>7, <1>8, Zenon DEF Next, Only, vars

(* The invariant of all of them.                                           *)
THEOREM Invariant == Spec => []DevicesInv
<1>1. Init => DevicesInv
  BY DropInitially, BlockInitially, DeviceInitially, TapInitially, EditorInitially, ShellLineInitially,
     AudioInitially
  DEF Init, DevicesInv
<1>2. DevicesInv /\ [Next]_vars => DevicesInv'
  BY DevicesStep
<1> QED BY <1>1, <1>2, PTL DEF Spec

(* ModulesGoQuietly: whichever step of the_init fails, and whatever the    *)
(* packets, the users of the disks and the processes with the device open  *)
(* do meanwhile, a module that has gone leaves nothing that can still be   *)
(* called, counted in or freed twice, but for requests on a disk that was  *)
(* open when its module was removed.                                       *)
THEOREM ModulesQuiet == Spec => []ModulesGoQuietly
<1>1. DevicesInv => ModulesGoQuietly
  BY DropHolds, BlockHolds, DeviceHolds DEF DevicesInv, ModulesGoQuietly
<1> QED BY <1>1, Invariant, PTL

(* TapSends: with any option, however late the thread comes and wherever a *)
(* second ends, send_pkt sends every round that is due and none before,    *)
(* each of them whole, and burst_num in the end unless SIGINT comes.       *)
THEOREM RoundsSent == Spec => []TapSends
<1>1. DevicesInv => TapSends
  BY TapHolds DEF DevicesInv
<1> QED BY <1>1, Invariant, PTL

(* EditorShows: after any keys the terminal shows the lines of             *)
(* the_edit_ctx, with its cursor at cur_line and cur_col, and an editor    *)
(* that reaches its end gives the terminal back.                           *)
THEOREM ScreenIsBuffer == Spec => []EditorShows
<1>1. DevicesInv => EditorShows
  BY EditorHolds DEF DevicesInv
<1> QED BY <1>1, Invariant, PTL

(* ShellShows: as long as no line has overrun shell_buf, the user of the   *)
(* debug shell sees, after any keys, erasing and rolling, shell_buf and    *)
(* nothing else, a password as stars; but for a password that is longer    *)
(* than the string of stars and has been corrected.                        *)
THEOREM LineIsShown == Spec => []ShellShows
<1>1. DevicesInv => ShellShows
  BY ShellLineHolds DEF DevicesInv
<1> QED BY <1>1, Invariant, PTL

(* AudioWhole: whatever the file, the length of a bit, of the silence and  *)
(* of the preamble, and wherever the receiver's windows fall, a receiver   *)
(* that heard the preamble receives the file, when no sound was cut short, *)
(* silent or lost: neither device out of pace, no call of audio_play       *)
(* failed, nor one of audio_record whose failure is not looked at.         *)
THEOREM FileArrives == Spec => []AudioWhole
<1>1. DevicesInv => AudioWhole
  BY AudioHolds DEF DevicesInv
<1> QED BY <1>1, Invariant, PTL
=============================================================================
