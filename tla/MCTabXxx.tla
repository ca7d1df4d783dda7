------------------------------ MODULE MCTabXxx ------------------------------
(* TabXxx for TLC, in three environments: one thread on a pool of one      *)
(* entry, which runs out; two threads that both get references, on one     *)
(* key; and two threads on two keys of one hash line, of which one gets    *)
(* references.  In the last two the pool always has a free buffer.  Then   *)
(* one thread on a pool whose count malloc left too low, which says it is  *)
(* empty when it is not, or too high; that one does not run out.           *)
EXTENDS TabXxx, TLC

CONSTANTS t1, t2

MCThread == {t1, t2}
MCSetup ==
  {[users |-> {t1}, holders |-> {t1}, keys |-> {1, 3}, max_entry_num |-> 1, garbage |-> 0],
   [users |-> {t1, t2}, holders |-> {t1, t2}, keys |-> {1}, max_entry_num |-> 3, garbage |-> 0],
   [users |-> {t1, t2}, holders |-> {t1}, keys |-> {1, 3}, max_entry_num |-> 3, garbage |-> 0]}
  \cup [users : {{t1}}, holders : {{t1}}, keys : {{1, 3}}, max_entry_num : {3}, garbage : {-1, 1}]

(* The environment of the run that finds the race in alloc_buffer: two     *)
(* threads on a pool of one entry.                                         *)
MCSmallPool ==
  {[users |-> {t1, t2}, holders |-> {t1, t2}, keys |-> {1}, max_entry_num |-> 1, garbage |-> 0]}
=============================================================================
