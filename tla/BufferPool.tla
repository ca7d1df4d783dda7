----------------------------- MODULE BufferPool -----------------------------
(***************************************************************************)
(* The pool of equal buffers of libs/app_utils/src/mm.c: a circular,       *)
(* doubly linked list of the free buffers (api/list.h) and a count of      *)
(* them, both protected by the_mutex_free_pool.                            *)
(*                                                                         *)
(* A pool is a value: the operators below are the critical sections of the *)
(* code, and the one read that alloc_buffer makes outside of it.  Buffers  *)
(* are numbered from 1; node 0 is the list head that lives in the manager. *)
(***************************************************************************)
EXTENDS Integers, FiniteSets

\* The list head pt_manager->free_pool, seen as a node of the list.
Head0 == 0

\* list_del: the neighbours of n are linked to each other; n keeps its own links.
list_del(p, n) ==
  [p EXCEPT !.prev = [p.prev EXCEPT ![p.next[n]] = p.prev[n]],
            !.next = [p.next EXCEPT ![p.prev[n]] = p.next[n]]]

\* list_add_tail of n to the list headed by Head0.
list_add_tail(p, n) ==
  [p EXCEPT !.prev = [p.prev EXCEPT ![n] = p.prev[Head0], ![Head0] = n],
            !.next = [p.next EXCEPT ![n] = Head0, ![p.prev[Head0]] = n]]

\* create_buffer_manager(_, num): the buffers 1 .. num linked in order.  The count is
\* never set: free_only increments whatever malloc left in the field.  The field is a
\* uint32_t; garbage is its content as a signed number, so that the count is 0 here when
\* the field is.
create_buffer_manager(num, garbage) ==
  [next |-> [i \in 0 .. num |-> IF i = num THEN Head0 ELSE i + 1],
   prev |-> [i \in 0 .. num |-> IF i = Head0 THEN num ELSE i - 1],
   buffer_num_free  |-> garbage + num,
   buffer_num_total |-> num]

\* Fault: the count is not incremented.
free_buffer_NoCount(p, b) == list_add_tail(p, b)

\* free_buffer, under the mutex.
free_buffer(p, b) ==
  [list_add_tail(p, b) EXCEPT !.buffer_num_free = @ + 1]

\* alloc_buffer, before it takes the mutex: the first node of the list.
alloc_read(p) == p.next[Head0]

\* alloc_buffer, under the mutex: the node read before is unlinked and returned.
alloc_empty(p) == p.buffer_num_free = 0
alloc_take(p, node) ==
  [list_del(p, node) EXCEPT !.buffer_num_free = @ - 1]

-----------------------------------------------------------------------------
\* Following next from n never leaves S.
ClosedUnderNext(p, S) == \A n \in S : p.next[n] \in S

\* The buffers that a walk of the list from its head meets: they are in every set that
\* holds the head and that next never leaves.
FreeBuffers(p) ==
  {b \in DOMAIN p.next \ {Head0} :
     \A S \in SUBSET DOMAIN p.next : Head0 \in S /\ ClosedUnderNext(p, S) => b \in S}
=============================================================================
