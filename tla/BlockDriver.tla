----------------------------- MODULE BlockDriver -----------------------------
(* misc/block_drv_test.c: a kernel module with MAX_HD_NR disks in memory.  *)
(* An allocation may fail anywhere in the_init; users open the disks and   *)
(* submit requests while the module comes and goes.                        *)
EXTENDS Naturals

CONSTANTS MAX_HD_NR, MAX_SEGS   \* MAX_SEGS bounds the segments of a bio

BlockAssumption == MAX_HD_NR \in Nat /\ MAX_SEGS \in Nat
ASSUME BlockAssumption

VARIABLES blk,      \* pc, drive, blk_major, disk_cnt, and busy: see UserOpens
          disks,    \* of each disk, what it holds of Resource
          live,     \* the disks between add_disk and del_gendisk
          pt_disks, \* the drives whose pointer is set
          users     \* of each drive: it is open, and the segments of a bio left

blockDriver == <<blk, disks, live, pt_disks, users>>
Drive == 0..(MAX_HD_NR - 1)
Resource == {"struct", "space", "queue", "gendisk"}
-----------------------------------------------------------------------------
register_blkdev ==
  /\ blk.pc = "out"
  /\ \E pc \in {"install", "failed"} : blk' = [blk EXCEPT !.pc = pc, !.major = (pc = "install")]
  /\ UNCHANGED <<disks, live, pt_disks, users>>

(* The gotos of add_one_disk free what was had before the failure, which   *)
(* may come at each of the four allocations.                               *)
\* Fault: out_free_queue returns without falling through.
LeftBy_Queue(got) == IF "queue" \in got THEN got \ {"queue"} ELSE {}
LeftBy(got) == {}

Before == {{}, {"struct"}, {"struct", "space"}, {"struct", "space", "queue"}}

add_one_disk ==
  /\ blk.pc = "install" /\ blk.drive < MAX_HD_NR
  /\ \/ /\ disks' = [disks EXCEPT ![blk.drive] = Resource]
        /\ live' = live \cup {blk.drive} /\ pt_disks' = pt_disks \cup {blk.drive}
        /\ blk' = [blk EXCEPT !.drive = @ + 1, !.cnt = @ + 1]
     \/ \E got \in Before :
          /\ disks' = [disks EXCEPT ![blk.drive] = LeftBy(got)]
          /\ blk' = [blk EXCEPT !.pc = "abort"] /\ UNCHANGED <<live, pt_disks>>
  /\ UNCHANGED users

InUse == \E d \in Drive : users[d].open
(* install_disks is complete, or aborted; either way the_init is over.     *)
install_disks ==
  /\ \/ blk.pc = "install" /\ blk.drive = MAX_HD_NR /\ blk' = [blk EXCEPT !.pc = "in"]
     \/ blk.pc = "abort" /\ blk' = [blk EXCEPT !.pc = IF blk.cnt = 0 THEN "failed" ELSE "rollback",
                                                   !.drive = 0, !.busy = InUse]
  /\ UNCHANGED <<disks, live, pt_disks, users>>

(* rmmod: the operations have no owner, so that an open disk does not keep *)
(* the module in.                                                          *)
the_exit ==
  /\ blk.pc = "in" /\ blk' = [blk EXCEPT !.pc = "exit", !.drive = 0, !.busy = InUse]
  /\ UNCHANGED <<disks, live, pt_disks, users>>

(* uninstall_disks, drive by drive: del_gendisk, then remove_my_disk frees.*)
Uninstalling == blk.pc \in {"exit", "rollback"} /\ blk.drive < MAX_HD_NR

del_gendisk ==
  /\ Uninstalling /\ blk.drive \in live /\ live' = live \ {blk.drive}
  /\ UNCHANGED <<blk, disks, pt_disks, users>>

remove_my_disk ==
  /\ Uninstalling /\ blk.drive \notin live
  /\ IF blk.drive \in pt_disks
     THEN /\ disks' = [disks EXCEPT ![blk.drive] = {}] /\ pt_disks' = pt_disks \ {blk.drive}
          /\ blk' = [blk EXCEPT !.drive = @ + 1, !.cnt = @ - 1]
     ELSE blk' = [blk EXCEPT !.drive = @ + 1] /\ UNCHANGED <<disks, pt_disks>>
  /\ UNCHANGED <<live, users>>

(* the_init does not unregister the major number when it fails here.       *)
UninstallEnds ==
  /\ blk.pc \in {"exit", "rollback"} /\ blk.drive = MAX_HD_NR
  /\ blk' = IF blk.pc = "exit" THEN [blk EXCEPT !.pc = "gone", !.major = FALSE] ELSE [blk EXCEPT !.pc = "failed"]
  /\ UNCHANGED <<disks, live, pt_disks, users>>
-----------------------------------------------------------------------------
(* The users, and what the driver does for them: my_make_request runs in   *)
(* the thread that submits the bio, segment by segment.                    *)
UserOpens(d) ==
  /\ d \in live /\ ~users[d].open /\ users' = [users EXCEPT ![d].open = TRUE]
  /\ blk' = [blk EXCEPT !.busy = @ \/ blk.pc \in {"exit", "rollback"}]
  /\ UNCHANGED <<disks, live, pt_disks>>

UserCloses(d) ==
  /\ users[d].open /\ users[d].segs = 0 /\ users' = [users EXCEPT ![d].open = FALSE]
  /\ UNCHANGED <<blk, disks, live, pt_disks>>

(* The first disks are there while the_init adds others, and may fail.     *)
my_make_request(d) ==
  /\ users[d].open /\ d \in live /\ users[d].segs = 0
  /\ \E n \in 1..MAX_SEGS : users' = [users EXCEPT ![d].segs = n]
  /\ UNCHANGED <<blk, disks, live, pt_disks>>

do_one_region(d) ==
  /\ users[d].segs > 0 /\ "space" \in disks[d] /\ users' = [users EXCEPT ![d].segs = @ - 1]
  /\ UNCHANGED <<blk, disks, live, pt_disks>>
-----------------------------------------------------------------------------
BlockInit ==
  /\ blk = [pc |-> "out", drive |-> 0, major |-> FALSE, cnt |-> 0, busy |-> FALSE]
  /\ disks = [d \in Drive |-> {}] /\ live = {} /\ pt_disks = {}
  /\ users = [d \in Drive |-> [open |-> FALSE, segs |-> 0]]

BlockNext ==
  \/ register_blkdev \/ add_one_disk \/ install_disks \/ the_exit
  \/ del_gendisk \/ remove_my_disk \/ UninstallEnds
  \/ \E d \in Drive : UserOpens(d) \/ UserCloses(d) \/ my_make_request(d) \/ do_one_region(d)
-----------------------------------------------------------------------------
(* Whichever allocation fails, nothing is left of any disk when the_init   *)
(* has failed or the_exit is over, and unless a user had a disk open then, *)
(* no request runs on memory that has been freed.                          *)
DisksQuiet ==
  /\ blk.cnt \in 0..MAX_HD_NR
  /\ blk.pc \in {"gone", "failed"} =>
       blk.cnt = 0 /\ pt_disks = {} /\ live = {} /\ \A d \in Drive : disks[d] = {}
  /\ ~blk.busy =>
       \A d \in Drive : users[d].segs > 0 => "space" \in disks[d]
=============================================================================
