------------------------------ MODULE PcQueue ------------------------------
(***************************************************************************)
(* The single-producer, single-consumer ring of                            *)
(* libs/app_utils/src/pc_queue.c, one step per access to memory that the   *)
(* other side can see.                                                     *)
(*                                                                         *)
(* The code takes no lock: an entry belongs to the producer while its      *)
(* `valid` flag is 0 and to the consumer while it is 1.  Every field of an *)
(* entry is volatile (api/pc_queue.h), so each side's accesses happen in   *)
(* program order on the machines the makefile builds for.                  *)
(*                                                                         *)
(* The code never looks into what it carries, so the items are numbered:   *)
(* the producer offers 1, 2, 3, ... and offers an item again when it is    *)
(* told that the queue is full.  The three words of an entry (data,        *)
(* para_int, para) are written one after the other; each gets the number   *)
(* of the item it belongs to, so that a torn entry is visible.             *)
(***************************************************************************)
EXTENDS Integers

CONSTANTS
  Size,       \* nr_entry: the number of entries of the ring
  MaxItem     \* bound: the producer offers the items 1 .. MaxItem

ASSUME PcQueueAssumption ==
  /\ Size \in Nat \ {0}
  /\ MaxItem \in Nat

VARIABLES
  entry,      \* p_at_entries
  pt_p_ptr,   \* index of the entry the producer fills next
  pt_c_ptr,   \* index of the entry the consumer empties next
  p_pc,       \* where the producer is in pc_que_enq_try
  c_pc,       \* where the consumer is in pc_que_outq_try
  next,       \* the item the producer offers
  enq_ret,    \* what pc_que_enq_try last returned
  out,        \* the consumer's copy of an entry: ret, *para_int, *para
  deq_ret,    \* what pc_que_outq_try last returned
  taken       \* history: how many items pc_que_outq_try has returned

vars == <<entry, pt_p_ptr, pt_c_ptr, p_pc, c_pc, next, enq_ret, out, deq_ret, taken>>

NULL == 0                        \* no item has this number
Slots == 0 .. Size - 1
Item == Nat \ {NULL}
Word == Nat
Entry == [data : Word, para_int : Word, para : Word, valid : BOOLEAN]
Copy == [data : Word, para_int : Word, para : Word]
Whole(k) == [data |-> k, para_int |-> k, para |-> k]
NoCopy == Whole(NULL)

\* Fault: pt_tail points at the last entry but one.
Advance_SkipTail(i) == IF i >= Size - 2 THEN 0 ELSE i + 1

\* The successor of a ring index: from pt_tail back to pt_head.
Advance(i) == IF i = Size - 1 THEN 0 ELSE i + 1

\* create_pc_que: the whole block is zeroed, both pointers are at pt_head.
Init ==
  /\ entry = [i \in Slots |-> [data |-> NULL, para_int |-> NULL,
                               para |-> NULL, valid |-> FALSE]]
  /\ pt_p_ptr = 0
  /\ pt_c_ptr = 0
  /\ p_pc = "idle"
  /\ c_pc = "idle"
  /\ next = 1
  /\ enq_ret = 0
  /\ out = NoCopy
  /\ deq_ret = NoCopy
  /\ taken = 0

-----------------------------------------------------------------------------
\* pc_que_enq_try, called by the producer.

\* The entry at pt_p_ptr still holds an item: "return 1".
EnqFull ==
  /\ p_pc = "idle"
  /\ next <= MaxItem
  /\ entry[pt_p_ptr].valid
  /\ enq_ret' = 1
  /\ UNCHANGED <<entry, pt_p_ptr, pt_c_ptr, p_pc, c_pc, next, out, deq_ret, taken>>

\* Fault: valid = 1 is written before the words.
EnqStart_EarlyValid ==
  /\ p_pc = "idle"
  /\ next <= MaxItem
  /\ ~entry[pt_p_ptr].valid
  /\ entry' = [entry EXCEPT ![pt_p_ptr].valid = TRUE]
  /\ p_pc' = "data"
  /\ UNCHANGED <<pt_p_ptr, pt_c_ptr, c_pc, next, enq_ret, out, deq_ret, taken>>

\* The entry at pt_p_ptr is free: go on to fill it.
EnqStart ==
  /\ p_pc = "idle"
  /\ next <= MaxItem
  /\ ~entry[pt_p_ptr].valid
  /\ p_pc' = "data"
  /\ UNCHANGED <<entry, pt_p_ptr, pt_c_ptr, c_pc, next, enq_ret, out, deq_ret, taken>>

EnqData ==
  /\ p_pc = "data"
  /\ entry' = [entry EXCEPT ![pt_p_ptr].data = next]
  /\ p_pc' = "para_int"
  /\ UNCHANGED <<pt_p_ptr, pt_c_ptr, c_pc, next, enq_ret, out, deq_ret, taken>>

EnqParaInt ==
  /\ p_pc = "para_int"
  /\ entry' = [entry EXCEPT ![pt_p_ptr].para_int = next]
  /\ p_pc' = "para"
  /\ UNCHANGED <<pt_p_ptr, pt_c_ptr, c_pc, next, enq_ret, out, deq_ret, taken>>

EnqPara ==
  /\ p_pc = "para"
  /\ entry' = [entry EXCEPT ![pt_p_ptr].para = next]
  /\ p_pc' = "publish"
  /\ UNCHANGED <<pt_p_ptr, pt_c_ptr, c_pc, next, enq_ret, out, deq_ret, taken>>

\* valid = 1 hands the entry to the consumer.
EnqPublish ==
  /\ p_pc = "publish"
  /\ entry' = [entry EXCEPT ![pt_p_ptr].valid = TRUE]
  /\ p_pc' = "advance"
  /\ UNCHANGED <<pt_p_ptr, pt_c_ptr, c_pc, next, enq_ret, out, deq_ret, taken>>

\* Move pt_p_ptr and return 0.
EnqReturn ==
  /\ p_pc = "advance"
  /\ pt_p_ptr' = Advance(pt_p_ptr)
  /\ enq_ret' = 0
  /\ next' = next + 1
  /\ p_pc' = "idle"
  /\ UNCHANGED <<entry, pt_c_ptr, c_pc, out, deq_ret, taken>>

-----------------------------------------------------------------------------
\* pc_que_outq_try, called by the consumer.

\* Nothing at pt_c_ptr: return NULL.
DeqEmpty ==
  /\ c_pc = "idle"
  /\ ~entry[pt_c_ptr].valid
  /\ deq_ret' = NoCopy
  /\ UNCHANGED <<entry, pt_p_ptr, pt_c_ptr, p_pc, c_pc, next, enq_ret, out, taken>>

\* Fault: the flag is not read.
DeqStart_NoCheck ==
  /\ c_pc = "idle"
  /\ c_pc' = "data"
  /\ UNCHANGED <<entry, pt_p_ptr, pt_c_ptr, p_pc, next, enq_ret, out, deq_ret, taken>>

\* Fault: valid = 0 is written before the words are copied.
DeqStart_EarlyRelease ==
  /\ c_pc = "idle"
  /\ entry[pt_c_ptr].valid
  /\ entry' = [entry EXCEPT ![pt_c_ptr].valid = FALSE]
  /\ c_pc' = "data"
  /\ UNCHANGED <<pt_p_ptr, pt_c_ptr, p_pc, next, enq_ret, out, deq_ret, taken>>

\* An item at pt_c_ptr: go on to copy it.
DeqStart ==
  /\ c_pc = "idle"
  /\ entry[pt_c_ptr].valid
  /\ c_pc' = "data"
  /\ UNCHANGED <<entry, pt_p_ptr, pt_c_ptr, p_pc, next, enq_ret, out, deq_ret, taken>>

DeqData ==
  /\ c_pc = "data"
  /\ out' = [out EXCEPT !.data = entry[pt_c_ptr].data]
  /\ c_pc' = "para_int"
  /\ UNCHANGED <<entry, pt_p_ptr, pt_c_ptr, p_pc, next, enq_ret, deq_ret, taken>>

DeqParaInt ==
  /\ c_pc = "para_int"
  /\ out' = [out EXCEPT !.para_int = entry[pt_c_ptr].para_int]
  /\ c_pc' = "para"
  /\ UNCHANGED <<entry, pt_p_ptr, pt_c_ptr, p_pc, next, enq_ret, deq_ret, taken>>

DeqPara ==
  /\ c_pc = "para"
  /\ out' = [out EXCEPT !.para = entry[pt_c_ptr].para]
  /\ c_pc' = "release"
  /\ UNCHANGED <<entry, pt_p_ptr, pt_c_ptr, p_pc, next, enq_ret, deq_ret, taken>>

\* valid = 0 hands the entry back to the producer.
DeqRelease ==
  /\ c_pc = "release"
  /\ entry' = [entry EXCEPT ![pt_c_ptr].valid = FALSE]
  /\ c_pc' = "advance"
  /\ UNCHANGED <<pt_p_ptr, pt_c_ptr, p_pc, next, enq_ret, out, deq_ret, taken>>

\* Fault: pt_c_ptr stays where it is.
DeqReturn_NoAdvance ==
  /\ c_pc = "advance"
  /\ deq_ret' = out
  /\ out' = NoCopy
  /\ taken' = taken + 1
  /\ c_pc' = "idle"
  /\ UNCHANGED <<entry, pt_p_ptr, pt_c_ptr, p_pc, next, enq_ret>>

\* Move pt_c_ptr and return the copy.
DeqReturn ==
  /\ c_pc = "advance"
  /\ pt_c_ptr' = Advance(pt_c_ptr)
  /\ deq_ret' = out
  /\ out' = NoCopy
  /\ taken' = taken + 1
  /\ c_pc' = "idle"
  /\ UNCHANGED <<entry, pt_p_ptr, p_pc, next, enq_ret>>

-----------------------------------------------------------------------------
pc_que_enq_try ==
  EnqFull \/ EnqStart \/ EnqData \/ EnqParaInt \/ EnqPara \/ EnqPublish \/ EnqReturn

pc_que_outq_try ==
  DeqEmpty \/ DeqStart \/ DeqData \/ DeqParaInt \/ DeqPara \/ DeqRelease \/ DeqReturn

Next == pc_que_enq_try \/ pc_que_outq_try

\* Both sides keep calling: a producer that was told "full" tries again, and a
\* consumer polls.  Neither call ever blocks.
Spec == Init /\ [][Next]_vars /\ WF_vars(pc_que_enq_try) /\ WF_vars(pc_que_outq_try)

-----------------------------------------------------------------------------
\* The ring read as a queue.  An item is in it from the write of valid = 1 to the
\* write of valid = 0, so the ends of the queue run ahead of the two pointers while
\* a call has yet to move its own.

Published == IF p_pc = "advance" THEN next ELSE next - 1
Released == IF c_pc = "advance" THEN taken + 1 ELSE taken
ProducerEnd == IF p_pc = "advance" THEN Advance(pt_p_ptr) ELSE pt_p_ptr
ConsumerEnd == IF c_pc = "advance" THEN Advance(pt_c_ptr) ELSE pt_c_ptr

\* An index at most one lap ahead, brought back into the ring, and how far a slot
\* is ahead of the consumer's end.
Wrap(i) == IF i >= Size THEN i - Size ELSE i
Offset(i) == IF i >= ConsumerEnd THEN i - ConsumerEnd ELSE i - ConsumerEnd + Size

Content(i) == [data |-> entry[i].data, para_int |-> entry[i].para_int, para |-> entry[i].para]
Queued == [k \in 1 .. Published - Released |-> Content(Wrap(ConsumerEnd + k - 1))]

-----------------------------------------------------------------------------
\* Properties.

TypeOK ==
  /\ entry \in [Slots -> Entry]
  /\ pt_p_ptr \in Slots
  /\ pt_c_ptr \in Slots
  /\ p_pc \in {"idle", "data", "para_int", "para", "publish", "advance"}
  /\ c_pc \in {"idle", "data", "para_int", "para", "release", "advance"}
  /\ next \in Item
  /\ enq_ret \in {0, 1}
  /\ out \in Copy
  /\ deq_ret \in Copy
  /\ taken \in Nat

\* Where the producer may write and the consumer may read an entry's words.
Filling == p_pc \in {"data", "para_int", "para", "publish"}
Copying == c_pc \in {"data", "para_int", "para", "release"}

\* The producer never fills the entry that the consumer is copying: the only
\* synchronisation in the code is the order in which the two sides touch `valid`.
ExclusiveEntry == Filling /\ Copying => pt_p_ptr # pt_c_ptr

\* What pc_que_outq_try is about to return is one whole item, the one after the
\* last it returned: no word of it comes from another call of pc_que_enq_try,
\* nothing is lost, repeated or out of order, however the two sides interleave.
InOrder == c_pc = "advance" => out = Whole(taken + 1)

\* The ring is a bounded FIFO.  An enqueue takes effect when it sets `valid` and a
\* dequeue when it clears it, before either returns; and an answer "full" or
\* "empty" is true of the queue at the instant the flag was read, even though the
\* other side may be in the middle of its own call.
Fifo == INSTANCE BoundedFifo WITH
  Item     <- {Whole(k) : k \in 1 .. MaxItem},
  Capacity <- Size,
  OK       <- 0,
  FULL     <- 1,
  EMPTY    <- NoCopy,
  items    <- Queued,
  put      <- IF p_pc = "advance" THEN 0 ELSE enq_ret,
  got      <- IF c_pc = "advance" THEN out ELSE deq_ret

RefinesFifo == Fifo!FifoSpec

\* Every item offered comes out, when both sides keep calling: the two attempts
\* cannot keep each other from succeeding.
EveryItemArrives == \A k \in 1 .. MaxItem : <>(taken = k)

-----------------------------------------------------------------------------
\* The inductive invariant.

\* The words written so far of the entry being filled, and copied so far of the
\* entry being emptied.
FillingOK ==
  Filling =>
    /\ next <= MaxItem
    /\ ~entry[pt_p_ptr].valid
    /\ p_pc # "data" => entry[pt_p_ptr].data = next
    /\ p_pc \in {"para", "publish"} => entry[pt_p_ptr].para_int = next
    /\ p_pc = "publish" => entry[pt_p_ptr].para = next

CopyingOK ==
  /\ Copying => entry[pt_c_ptr].valid
  /\ c_pc \notin {"idle", "data"} => out.data = taken + 1
  /\ c_pc \in {"para", "release", "advance"} => out.para_int = taken + 1
  /\ c_pc \in {"release", "advance"} => out.para = taken + 1

\* The valid entries are exactly the window from ConsumerEnd, one for each item
\* published and not released, in order.
WindowOK ==
  /\ Released <= Published
  /\ Published - Released <= Size
  /\ ProducerEnd = Wrap(ConsumerEnd + (Published - Released))
  /\ \A i \in Slots :
       /\ entry[i].valid <=> Offset(i) < Published - Released
       /\ entry[i].valid => /\ entry[i].data = Released + 1 + Offset(i)
                            /\ entry[i].para_int = Released + 1 + Offset(i)
                            /\ entry[i].para = Released + 1 + Offset(i)

IInv == TypeOK /\ FillingOK /\ CopyingOK /\ WindowOK
============================================================================
