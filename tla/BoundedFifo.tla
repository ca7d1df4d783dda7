---------------------------- MODULE BoundedFifo ----------------------------
(***************************************************************************)
(* What the queue of libs/app_utils/src/pc_queue.c promises its two users: *)
(* a FIFO of at most Capacity items, where an attempt to enqueue answers   *)
(* OK or FULL and an attempt to dequeue answers an item or EMPTY.  Each    *)
(* attempt takes effect at one instant, and its answer is right for the    *)
(* queue of that instant.                                                  *)
(***************************************************************************)
EXTENDS Naturals, Sequences

CONSTANTS
  Item,       \* what can be enqueued
  Capacity,   \* how many items fit
  OK, FULL,   \* the answers of an enqueue
  EMPTY       \* the answer of a dequeue that finds nothing

VARIABLES
  items,      \* the queue, oldest item first
  put,        \* the last answer to the producer
  got         \* the last answer to the consumer

fifoVars == <<items, put, got>>

FifoInit ==
  /\ items = <<>>
  /\ put \in {OK, FULL}
  /\ got = EMPTY

Put(x) ==
  /\ Len(items) < Capacity
  /\ items' = Append(items, x)
  /\ put' = OK
  /\ UNCHANGED got

PutFull ==
  /\ Len(items) = Capacity
  /\ put' = FULL
  /\ UNCHANGED <<items, got>>

Take ==
  /\ items # <<>>
  /\ got' = Head(items)
  /\ items' = Tail(items)
  /\ UNCHANGED put

TakeEmpty ==
  /\ items = <<>>
  /\ got' = EMPTY
  /\ UNCHANGED <<items, put>>

FifoNext ==
  \/ \E x \in Item : Put(x)
  \/ PutFull
  \/ Take
  \/ TakeEmpty

FifoSpec == FifoInit /\ [][FifoNext]_fifoVars
============================================================================
