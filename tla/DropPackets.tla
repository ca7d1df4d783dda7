----------------------------- MODULE DropPackets -----------------------------
(* misc/drop_packets/drop_packets.c: a kernel module whose receive handler *)
(* drops every packet of a network device, and counts them in memory that  *)
(* RCU protects, on all CPUs while the module is loaded and unloaded.      *)
EXTENDS FiniteSets

CONSTANTS Cpu

VARIABLES dpc,       \* how far the_init, or the_exit, has come
          netpoll,   \* CONFIG_NETPOLL; npinfo; somebody is setting it up
          pt_netif,  \* "none", "allocated", "freed"
          dev,       \* the device: references held, the flag and the handler
          cpu,       \* what each CPU does with a packet
          grace      \* the CPUs that synchronize_rcu waits for

dropPackets == <<dpc, netpoll, pt_netif, dev, cpu, grace>>
InHandler == {c \in Cpu : cpu[c] # "idle"}
-----------------------------------------------------------------------------
(* the_init, get_netif_info and netif_drop_packets_enable.                 *)
AllocInfo ==
  /\ dpc = "out"
  /\ \/ dpc' = "allocated" /\ pt_netif' = "allocated"
     \/ dpc' = "failed" /\ UNCHANGED pt_netif
  /\ UNCHANGED <<netpoll, dev, cpu, grace>>

(* Without the device the memory is not given back.                        *)
get_netif_info ==
  /\ dpc = "allocated"
  /\ \/ dpc' = "got" /\ dev' = [dev EXCEPT !.ref = 1, !.orig = dev.flag]
     \/ dpc' = "failed" /\ UNCHANGED dev
  /\ UNCHANGED <<netpoll, pt_netif, cpu, grace>>

(* A device with another handler stays referenced as well.                 *)
netdev_rx_handler_register ==
  /\ dpc = "got"
  /\ \/ dpc' = "registered" /\ dev' = [dev EXCEPT !.handler = TRUE, !.data = TRUE]
     \/ dpc' = "failed" /\ UNCHANGED dev
  /\ UNCHANGED <<netpoll, pt_netif, cpu, grace>>

DisableNetpoll ==
  /\ dpc = "registered"
  /\ IF netpoll.config THEN dpc' = "flagged" /\ dev' = [dev EXCEPT !.flag = TRUE]
     ELSE dpc' = "in" /\ UNCHANGED dev
  /\ UNCHANGED <<netpoll, pt_netif, cpu, grace>>

TestNpinfo ==
  /\ dpc = "flagged" /\ dpc' = IF netpoll.npinfo THEN "rollback" ELSE "in"
  /\ UNCHANGED <<netpoll, pt_netif, dev, cpu, grace>>
-----------------------------------------------------------------------------
(* netif_drop_packets_disable, called by the_exit and to roll back.        *)
Leaving == dpc \in {"in", "rollback"}
\* The next step of the_exit, or of the rollback.
Then(exit, back) == dpc' = IF dpc \in {"in", "exit1", "exit2"} THEN exit ELSE back

\* Fault: the flag is cleared whatever it was.
RestoreFlag_Always(f) == FALSE
RestoreFlag(f) == IF dev.orig THEN f ELSE FALSE

(* The flag; then netdev_rx_handler_unregister, which waits for the CPUs   *)
(* in the handler between taking the handler away and its data.            *)
Unregister ==
  /\ Leaving /\ Then("exit1", "back1")
  /\ dev' = [dev EXCEPT !.flag = RestoreFlag(@), !.handler = FALSE] /\ grace' = InHandler
  /\ UNCHANGED <<netpoll, pt_netif, cpu>>

ClearData ==
  /\ dpc \in {"exit1", "back1"} /\ grace = {} /\ Then("exit2", "back2")
  /\ dev' = [dev EXCEPT !.data = FALSE]
  /\ UNCHANGED <<netpoll, pt_netif, cpu, grace>>

(* dev_put, and synchronize_rcu begins.                                    *)
dev_put ==
  /\ dpc \in {"exit2", "back2"} /\ Then("exit3", "back3")
  /\ dev' = [dev EXCEPT !.ref = 0] /\ grace' = InHandler
  /\ UNCHANGED <<netpoll, pt_netif, cpu>>

FreeInfo ==
  /\ dpc \in {"exit3", "back3"} /\ grace = {} /\ pt_netif' = "freed"
  /\ dpc' = IF dpc = "exit3" THEN "gone" ELSE "failed"
  /\ UNCHANGED <<netpoll, dev, cpu, grace>>
-----------------------------------------------------------------------------
(* A CPU receives a packet; drop_packet runs in a read-side section.       *)
Receive(c) ==
  /\ cpu[c] = "idle" /\ dev.handler /\ cpu' = [cpu EXCEPT ![c] = "handler"]
  /\ UNCHANGED <<dpc, netpoll, pt_netif, dev, grace>>

netif_info_get_rcu(c) ==
  /\ cpu[c] = "handler" /\ cpu' = [cpu EXCEPT ![c] = IF dev.data THEN "counts" ELSE "drops"]
  /\ UNCHANGED <<dpc, netpoll, pt_netif, dev, grace>>

drop_packet(c) ==
  /\ cpu[c] \in {"counts", "drops"} /\ cpu' = [cpu EXCEPT ![c] = "idle"]
  /\ grace' = grace \ {c}
  /\ UNCHANGED <<dpc, netpoll, pt_netif, dev>>

(* netpoll looks at the flag, and then sets npinfo.                        *)
NetpollSetup ==
  /\ netpoll.config
  /\ \/ ~netpoll.setup /\ ~netpoll.npinfo /\ ~dev.flag /\ netpoll' = [netpoll EXCEPT !.setup = TRUE]
     \/ netpoll.setup /\ netpoll' = [netpoll EXCEPT !.setup = FALSE, !.npinfo = TRUE]
  /\ UNCHANGED <<dpc, pt_netif, dev, cpu, grace>>
-----------------------------------------------------------------------------
DropInit ==
  /\ dpc = "out" /\ pt_netif = "none" /\ cpu = [c \in Cpu |-> "idle"] /\ grace = {}
  /\ netpoll \in [config : BOOLEAN, npinfo : {FALSE}, setup : {FALSE}]
  /\ dev \in [ref : {0}, flag : BOOLEAN, orig : {FALSE}, handler : {FALSE}, data : {FALSE}]

DropNext ==
  \/ AllocInfo \/ get_netif_info \/ netdev_rx_handler_register \/ DisableNetpoll \/ TestNpinfo
  \/ Unregister \/ ClearData \/ dev_put \/ FreeInfo \/ NetpollSetup
  \/ \E c \in Cpu : Receive(c) \/ netif_info_get_rcu(c) \/ drop_packet(c)
-----------------------------------------------------------------------------
(* No CPU counts in memory that has been freed, or runs the handler of a   *)
(* module that has gone, and the device is as it was before: without the   *)
(* handler, and with the flag that it had.                                 *)
DropQuiet ==
  /\ \A c \in Cpu : cpu[c] = "counts" => pt_netif = "allocated"
  /\ dpc \in {"gone", "failed"} => InHandler = {} /\ ~dev.handler
  /\ (dpc \in {"gone", "failed"} /\ pt_netif = "freed") => dev.flag = dev.orig /\ dev.ref = 0
=============================================================================
