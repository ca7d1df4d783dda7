------------------------------- MODULE TabXxx -------------------------------
(***************************************************************************)
(* The reference-counted table of apps/tab_example/tab_xxx.c and the       *)
(* buffer pool it takes its entries from, used by several threads.         *)
(*                                                                         *)
(* An entry is found through two hash tables (by id and by key), each line *)
(* with a spin lock of its own, and is on the list of all entries.  Adding *)
(* and deleting hold add_del_lock; getting holds one hash line's lock;     *)
(* putting holds none of them.  The table owns one reference to an entry   *)
(* from build_new_entry until the put in tab_xxx_del_entry_by_key; whoever *)
(* drops the last reference frees the buffer.                              *)
(*                                                                         *)
(* A step is what happens under one lock, or one access made under none.   *)
(* A line is represented by the set of the entries linked in it.  A key    *)
(* (a, b, c) is represented by the number a*b*c, which is all that         *)
(* key_hash looks at, distinct keys by distinct numbers.                   *)
(***************************************************************************)
EXTENDS BufferPool

CONSTANTS
  Setup,        \* the environments considered: [users |-> the threads that call,
                \*   holders |-> those of them that also get references,
                \*   keys |-> the keys they use,
                \*   max_entry_num |-> the argument of tab_xxx_init,
                \*   garbage |-> what malloc left in buffer_num_free]
  Thread,       \* every thread of every setup
  Key,          \* every key of every setup
  MAX_ENTRY_ID, \* the largest value of a uint16_t
  MAX_HASH_LINE_NUM,
  NoThread,     \* the owner of a free lock
  NONE          \* no entry (a NULL pointer), no argument

ASSUME TabAssumption ==
  /\ Key \subseteq Nat
  /\ MAX_ENTRY_ID \in Nat \ {0}
  /\ MAX_HASH_LINE_NUM \in Nat \ {0}
  /\ NoThread \notin Thread
  /\ IsFiniteSet(Thread)
  /\ NONE \notin Int
  /\ Setup \subseteq [users : SUBSET Thread, holders : SUBSET Thread, keys : SUBSET Key,
                      max_entry_num : Nat, garbage : Int]

MIN_ENTRY_ID == 1
Id == 0 .. MAX_ENTRY_ID
Line == 0 .. MAX_HASH_LINE_NUM - 1

VARIABLES
  setup,            \* the environment of this behaviour
  mem_pool,         \* the pool of entries
  mem,              \* the contents of the buffers: [id, key, ref_cnt]
  hash_tab_by_id,   \* the entries linked by id
  hash_tab_by_key,  \* the entries linked by key
  link_all,         \* the entries on the list of all entries
  entry_num_in_use,
  next_id,          \* the static variable of gen_id
  add_del_lock,     \* owner
  id_line_lock,     \* owner, for each line of the hash by id
  key_line_lock,    \* owner, for each line of the hash by key
  pc,               \* for each thread: where it is
  arg,              \* for each thread: the key or id it was called with
  node,             \* for each thread: pt_list of alloc_buffer
  pt_entry,         \* for each thread: the entry its call works on
  held              \* for each thread: the entry its caller holds a reference to

table == <<hash_tab_by_id, hash_tab_by_key, link_all, entry_num_in_use>>
locks == <<add_del_lock, id_line_lock, key_line_lock>>
vars == <<setup, mem_pool, mem, table, next_id, locks, pc, arg, node, pt_entry, held>>

id_hash(id) == id % MAX_HASH_LINE_NUM
key_hash(k) == k % MAX_HASH_LINE_NUM

search_entry_by_id(id) == {e \in hash_tab_by_id : mem[e].id = id}
search_entry_by_key(k) == {e \in hash_tab_by_key : mem[e].key = k}

Blank == [id |-> 0, key |-> 0, ref_cnt |-> 0]

\* tab_xxx_init.
Init ==
  /\ setup \in Setup
  /\ mem_pool = create_buffer_manager(setup.max_entry_num, setup.garbage)
  /\ mem = [e \in 0 .. setup.max_entry_num |-> Blank]
  /\ hash_tab_by_id = {}
  /\ hash_tab_by_key = {}
  /\ link_all = {}
  /\ entry_num_in_use = 0
  /\ next_id = MIN_ENTRY_ID
  /\ add_del_lock = NoThread
  /\ id_line_lock = [l \in Line |-> NoThread]
  /\ key_line_lock = [l \in Line |-> NoThread]
  /\ pc = [t \in Thread |-> "idle"]
  /\ arg = [t \in Thread |-> NONE]
  /\ node = [t \in Thread |-> NONE]
  /\ pt_entry = [t \in Thread |-> NONE]
  /\ held = [t \in Thread |-> NONE]
 

-----------------------------------------------------------------------------
Goto(t, from, to) == pc[t] = from /\ pc' = [pc EXCEPT ![t] = to]

\* Fault: the lock of the table is not waited for.
LockTable_NoWait(t, to, a) ==
  /\ t \in setup.users
  /\ Goto(t, "idle", to)
  /\ add_del_lock' = t
  /\ arg' = [arg EXCEPT ![t] = a]

\* Take the lock of the table in a call with argument a.
LockTable(t, to, a) ==
  /\ t \in setup.users
  /\ Goto(t, "idle", to)
  /\ add_del_lock = NoThread
  /\ add_del_lock' = t
  /\ arg' = [arg EXCEPT ![t] = a]

\* Release the lock of the table and return, forgetting the call's variables.
UnlockTable(t, from) ==
  /\ Goto(t, from, "idle")
  /\ add_del_lock' = NoThread
  /\ arg' = [arg EXCEPT ![t] = NONE]
  /\ node' = [node EXCEPT ![t] = NONE]
  /\ pt_entry' = [pt_entry EXCEPT ![t] = NONE]

\* The steps of tab_xxx_add_entry.

AddCall(t) ==
  /\ \E k \in setup.keys : LockTable(t, "add_search", k)
  /\ UNCHANGED <<setup, mem_pool, mem, table, next_id, id_line_lock, key_line_lock,
                 node, pt_entry, held>>

\* The key is in the table already: EEXIST.
AddExists(t) ==
  /\ UnlockTable(t, "add_search")
  /\ search_entry_by_key(arg[t]) # {}
  /\ key_line_lock[key_hash(arg[t])] = NoThread
  /\ UNCHANGED <<setup, mem_pool, mem, table, next_id, id_line_lock, key_line_lock, held>>

AddNew(t) ==
  /\ Goto(t, "add_search", "add_read")
  /\ search_entry_by_key(arg[t]) = {}
  /\ key_line_lock[key_hash(arg[t])] = NoThread
  /\ UNCHANGED <<setup, mem_pool, mem, table, next_id, locks, arg, node, pt_entry, held>>

\* alloc_buffer reads the first node of the free list, without the mutex ...
AddRead(t) ==
  /\ Goto(t, "add_read", "add_alloc")
  /\ node' = [node EXCEPT ![t] = alloc_read(mem_pool)]
  /\ UNCHANGED <<setup, mem_pool, mem, table, next_id, locks, arg, pt_entry, held>>

\* ... and uses it under the mutex.  No buffer left: ENOMEM.
AddNoMem(t) ==
  /\ alloc_empty(mem_pool)
  /\ UnlockTable(t, "add_alloc")
  /\ UNCHANGED <<setup, mem_pool, mem, table, next_id, id_line_lock, key_line_lock, held>>

AddAlloc(t) ==
  /\ ~alloc_empty(mem_pool)
  /\ Goto(t, "add_alloc", "add_build")
  /\ mem_pool' = alloc_take(mem_pool, node[t])
  /\ pt_entry' = [pt_entry EXCEPT ![t] = node[t]]
  /\ UNCHANGED <<setup, mem, table, next_id, locks, arg, node, held>>

\* Fault: next_id counts on beyond the largest id.
IdAfter_NoWrap(d) == next_id + d

\* gen_id: the first id from next_id on that no linked entry has, counting as a
\* uint16_t does.  Without one the loop never ends.  The line locks it takes only delay
\* it: add_del_lock is held, so that no line changes meanwhile.
IdAfter(d) == (next_id + d) % (MAX_ENTRY_ID + 1)
FreeIds == {d \in 0 .. MAX_ENTRY_ID : search_entry_by_id(IdAfter(d)) = {}}

\* build_new_entry.
AddBuild(t) ==
  /\ Goto(t, "add_build", "add_id")
  /\ \E d \in FreeIds :
       /\ \A d2 \in FreeIds : d <= d2
       /\ mem' = [mem EXCEPT ![pt_entry[t]] =
                    [id |-> IdAfter(d), key |-> arg[t], ref_cnt |-> 1]]
       /\ next_id' = IdAfter(d + 1)
  /\ UNCHANGED <<setup, mem_pool, table, locks, arg, node, pt_entry, held>>

\* add_entry_into_tab, link by link.
AddIdHash(t) ==
  /\ Goto(t, "add_id", "add_key")
  /\ id_line_lock[id_hash(mem[pt_entry[t]].id)] = NoThread
  /\ hash_tab_by_id' = hash_tab_by_id \cup {pt_entry[t]}
  /\ UNCHANGED <<setup, mem_pool, mem, hash_tab_by_key, link_all, entry_num_in_use,
                 next_id, locks, arg, node, pt_entry, held>>

AddKeyHash(t) ==
  /\ Goto(t, "add_key", "add_all")
  /\ key_line_lock[key_hash(mem[pt_entry[t]].key)] = NoThread
  /\ hash_tab_by_key' = hash_tab_by_key \cup {pt_entry[t]}
  /\ UNCHANGED <<setup, mem_pool, mem, hash_tab_by_id, link_all, entry_num_in_use,
                 next_id, locks, arg, node, pt_entry, held>>

\* The entry may be found by others already, and deleted by none: add_del_lock is held.
AddReturn(t) ==
  /\ UnlockTable(t, "add_all")
  /\ link_all' = link_all \cup {pt_entry[t]}
  /\ entry_num_in_use' = entry_num_in_use + 1
  /\ UNCHANGED <<setup, mem_pool, mem, hash_tab_by_id, hash_tab_by_key,
                 next_id, id_line_lock, key_line_lock, held>>

-----------------------------------------------------------------------------
\* tab_xxx_get_entry_by_key and tab_xxx_get_entry_by_id: under the line's lock the
\* entry is searched, and then its count is incremented under its own lock.

GetByKey(t) ==
  /\ t \in setup.holders
  /\ held[t] = NONE
  /\ \E k \in setup.keys :
       /\ key_line_lock[key_hash(k)] = NoThread
       /\ \E e \in search_entry_by_key(k) :
            /\ Goto(t, "idle", "get_by_key")
            /\ pt_entry' = [pt_entry EXCEPT ![t] = e]
            /\ arg' = [arg EXCEPT ![t] = k]
            /\ key_line_lock' = [key_line_lock EXCEPT ![key_hash(k)] = t]
  /\ UNCHANGED <<setup, mem_pool, mem, table, next_id, add_del_lock, id_line_lock,
                 node, held>>

GetById(t) ==
  /\ t \in setup.holders
  /\ held[t] = NONE
  /\ \E id \in Id :
       /\ id_line_lock[id_hash(id)] = NoThread
       /\ \E e \in search_entry_by_id(id) :
            /\ Goto(t, "idle", "get_by_id")
            /\ pt_entry' = [pt_entry EXCEPT ![t] = e]
            /\ arg' = [arg EXCEPT ![t] = id]
            /\ id_line_lock' = [id_line_lock EXCEPT ![id_hash(id)] = t]
  /\ UNCHANGED <<setup, mem_pool, mem, table, next_id, add_del_lock, key_line_lock,
                 node, held>>

\* Fault: getting an entry does not count.
inc_entry_ref_cnt_None(e) == UNCHANGED mem

inc_entry_ref_cnt(e) == mem' = [mem EXCEPT ![e].ref_cnt = @ + 1]

\* The line's lock is released and the caller holds a reference.
GetInc(t) ==
  /\ \/ /\ Goto(t, "get_by_key", "idle")
        /\ key_line_lock' = [key_line_lock EXCEPT ![key_hash(arg[t])] = NoThread]
        /\ UNCHANGED id_line_lock
     \/ /\ Goto(t, "get_by_id", "idle")
        /\ id_line_lock' = [id_line_lock EXCEPT ![id_hash(arg[t])] = NoThread]
        /\ UNCHANGED key_line_lock
  /\ inc_entry_ref_cnt(pt_entry[t])
  /\ held' = [held EXCEPT ![t] = pt_entry[t]]
  /\ arg' = [arg EXCEPT ![t] = NONE]
  /\ pt_entry' = [pt_entry EXCEPT ![t] = NONE]
  /\ UNCHANGED <<setup, mem_pool, table, next_id, add_del_lock, node>>

-----------------------------------------------------------------------------
\* tab_xxx_put by a caller that holds a reference: the count is decremented under the
\* entry's lock and the buffer, if that was the last reference, freed without it.

\* A buffer on the free list has no contents worth telling apart: build_new_entry sets
\* every field before the entry is used again.
Free(e) ==
  /\ mem_pool' = free_buffer(mem_pool, e)
  /\ mem' = [mem EXCEPT ![e] = Blank]

dec_entry_ref_cnt(e) == mem' = [mem EXCEPT ![e].ref_cnt = @ - 1]

Put(t) ==
  /\ held[t] # NONE
  /\ IF mem[held[t]].ref_cnt = 1
     THEN /\ Goto(t, "idle", "put_free")
          /\ pt_entry' = [pt_entry EXCEPT ![t] = held[t]]
     ELSE pc[t] = "idle" /\ UNCHANGED <<pc, pt_entry>>
  /\ dec_entry_ref_cnt(held[t])
  /\ held' = [held EXCEPT ![t] = NONE]
  /\ UNCHANGED <<setup, mem_pool, table, next_id, locks, arg, node>>

PutFree(t) ==
  /\ Goto(t, "put_free", "idle")
  /\ Free(pt_entry[t])
  /\ pt_entry' = [pt_entry EXCEPT ![t] = NONE]
  /\ UNCHANGED <<setup, table, next_id, locks, arg, node, held>>

-----------------------------------------------------------------------------
\* The steps of tab_xxx_del_entry_by_key.

DelCall(t) ==
  /\ \E k \in setup.keys : LockTable(t, "del_search", k)
  /\ UNCHANGED <<setup, mem_pool, mem, table, next_id, id_line_lock, key_line_lock,
                 node, pt_entry, held>>

\* No such key: ESRCH.
DelMissing(t) ==
  /\ UnlockTable(t, "del_search")
  /\ search_entry_by_key(arg[t]) = {}
  /\ key_line_lock[key_hash(arg[t])] = NoThread
  /\ UNCHANGED <<setup, mem_pool, mem, table, next_id, id_line_lock, key_line_lock, held>>

DelFound(t) ==
  /\ Goto(t, "del_search", "del_id")
  /\ \E e \in search_entry_by_key(arg[t]) : pt_entry' = [pt_entry EXCEPT ![t] = e]
  /\ key_line_lock[key_hash(arg[t])] = NoThread
  /\ UNCHANGED <<setup, mem_pool, mem, table, next_id, locks, arg, node, held>>

\* del_entry_from_tab, link by link.
DelIdHash(t) ==
  /\ Goto(t, "del_id", "del_key")
  /\ id_line_lock[id_hash(mem[pt_entry[t]].id)] = NoThread
  /\ hash_tab_by_id' = hash_tab_by_id \ {pt_entry[t]}
  /\ UNCHANGED <<setup, mem_pool, mem, hash_tab_by_key, link_all, entry_num_in_use,
                 next_id, locks, arg, node, pt_entry, held>>

\* Fault: the lock of the hash line is not taken.
DelKeyHash_NoLock(t) ==
  /\ Goto(t, "del_key", "del_all")
  /\ hash_tab_by_key' = hash_tab_by_key \ {pt_entry[t]}
  /\ UNCHANGED <<setup, mem_pool, mem, hash_tab_by_id, link_all, entry_num_in_use,
                 next_id, locks, arg, node, pt_entry, held>>

DelKeyHash(t) ==
  /\ Goto(t, "del_key", "del_all")
  /\ key_line_lock[key_hash(mem[pt_entry[t]].key)] = NoThread
  /\ hash_tab_by_key' = hash_tab_by_key \ {pt_entry[t]}
  /\ UNCHANGED <<setup, mem_pool, mem, hash_tab_by_id, link_all, entry_num_in_use,
                 next_id, locks, arg, node, pt_entry, held>>

DelAll(t) ==
  /\ Goto(t, "del_all", "del_put")
  /\ link_all' = link_all \ {pt_entry[t]}
  /\ entry_num_in_use' = entry_num_in_use - 1
  /\ UNCHANGED <<setup, mem_pool, mem, hash_tab_by_id, hash_tab_by_key,
                 next_id, locks, arg, node, pt_entry, held>>

\* Fault: the buffer is freed although others hold the entry.
DelReturn_Frees(t) ==
  /\ UnlockTable(t, "del_put")
  /\ mem[pt_entry[t]].ref_cnt # 1
  /\ Free(pt_entry[t])
  /\ UNCHANGED <<setup, table, next_id, id_line_lock, key_line_lock, held>>

\* The table's own reference is put.  Others still hold the entry: return.
DelReturn(t) ==
  /\ UnlockTable(t, "del_put")
  /\ mem[pt_entry[t]].ref_cnt # 1
  /\ dec_entry_ref_cnt(pt_entry[t])
  /\ UNCHANGED <<setup, mem_pool, table, next_id, id_line_lock, key_line_lock, held>>

DelLastRef(t) ==
  /\ Goto(t, "del_put", "del_free")
  /\ mem[pt_entry[t]].ref_cnt = 1
  /\ dec_entry_ref_cnt(pt_entry[t])
  /\ UNCHANGED <<setup, mem_pool, table, next_id, locks, arg, node, pt_entry, held>>

DelFree(t) ==
  /\ UnlockTable(t, "del_free")
  /\ Free(pt_entry[t])
  /\ UNCHANGED <<setup, table, next_id, id_line_lock, key_line_lock, held>>

-----------------------------------------------------------------------------
tab_xxx_add_entry(t) ==
  \/ AddExists(t) \/ AddNew(t) \/ AddRead(t) \/ AddNoMem(t) \/ AddAlloc(t)
  \/ AddBuild(t) \/ AddIdHash(t) \/ AddKeyHash(t) \/ AddReturn(t)

tab_xxx_del_entry_by_key(t) ==
  \/ DelMissing(t) \/ DelFound(t) \/ DelIdHash(t) \/ DelKeyHash(t)
  \/ DelAll(t) \/ DelReturn(t) \/ DelLastRef(t) \/ DelFree(t)

\* A thread begins a call; and what it does until the call returns.
Call(t) == AddCall(t) \/ DelCall(t) \/ GetByKey(t) \/ GetById(t)
InCall(t) == tab_xxx_add_entry(t) \/ tab_xxx_del_entry_by_key(t) \/ GetInc(t) \/ PutFree(t)

Next == \E t \in Thread : Call(t) \/ InCall(t) \/ Put(t)

Spec == Init /\ [][Next]_vars

-----------------------------------------------------------------------------
\* Properties.

PcValues ==
  {"idle", "add_search", "add_read", "add_alloc", "add_build", "add_id", "add_key", "add_all",
   "get_by_key", "get_by_id", "put_free", "del_search", "del_id", "del_key", "del_all",
   "del_put", "del_free"}

\* The types of the variables; ids and reference counts keep within their width.
TypeOK ==
  /\ setup \in Setup
  /\ mem \in [0 .. setup.max_entry_num -> [id : Id, key : Key \cup {0}, ref_cnt : Nat]]
  /\ hash_tab_by_id \cup hash_tab_by_key \cup link_all \subseteq 1 .. setup.max_entry_num
  /\ entry_num_in_use \in Nat
  /\ next_id \in Id
  /\ add_del_lock \in Thread \cup {NoThread}
  /\ id_line_lock \in [Line -> Thread \cup {NoThread}]
  /\ key_line_lock \in [Line -> Thread \cup {NoThread}]
  /\ pc \in [Thread -> PcValues]
  /\ arg \in [Thread -> Key \cup Id \cup {NONE}]
  /\ node \in [Thread -> (0 .. setup.max_entry_num) \cup {NONE}]
  /\ pt_entry \in [Thread -> (0 .. setup.max_entry_num) \cup {NONE}]
  /\ held \in [Thread -> (1 .. setup.max_entry_num) \cup {NONE}]

Buffers == 1 .. setup.max_entry_num
Linked == hash_tab_by_id \cup hash_tab_by_key \cup link_all

\* Threads whose call holds the table's reference to an entry, or will free it.
OwnPc == {"add_build", "add_id", "add_key", "add_all", "del_id", "del_key", "del_all",
          "del_put", "del_free", "put_free"}
Owned == {pt_entry[t] : t \in {u \in Thread : pc[u] \in OwnPc}}
InUse == Linked \cup Owned \cup ({held[t] : t \in Thread} \ {NONE})

\* The buffer that alloc_buffer has read, and is about to unlink, is nobody's.
AllocFresh ==
  \A t \in Thread :
    pc[t] = "add_alloc" /\ ~alloc_empty(mem_pool) => node[t] \in Buffers \ InUse

\* Nobody reaches a buffer that is on the free list, through a hash table, the list of
\* all entries, a reference or a call in progress; and every other buffer is reached by
\* someone, so that none leaks; see also AllocFresh.
FreeOrInUse ==
  /\ InUse \subseteq Buffers
  /\ FreeBuffers(mem_pool) = Buffers \ InUse
  /\ \A t \in Thread : pc[t] \in {"get_by_key", "get_by_id"} => pt_entry[t] \in Linked
  /\ AllocFresh

\* The reference count of an entry is the table's reference plus the callers'.
TableRefers(e) ==
  \/ e \in hash_tab_by_id \cup hash_tab_by_key
  \/ \E t \in Thread : pt_entry[t] = e /\ pc[t] \in {"add_id", "add_all", "del_all", "del_put"}
TablesRef(e) == IF TableRefers(e) THEN 1 ELSE 0
RefCntExact ==
  \A e \in InUse \ {pt_entry[t] : t \in {u \in Thread : pc[u] = "add_build"}} :
    mem[e].ref_cnt = TablesRef(e) + Cardinality({t \in Thread : held[t] = e})

\* What MIN_ENTRY_ID says of the ids that gen_id hands out.
IdInRange == \A e \in hash_tab_by_id : mem[e].id \in MIN_ENTRY_ID .. MAX_ENTRY_ID

\* While nobody is adding or deleting, the two hash tables and the list of all entries
\* hold the same entries, entry_num_in_use counts them, and no two share a key or an id.
TableConsistent ==
  add_del_lock = NoThread =>
    /\ hash_tab_by_id = hash_tab_by_key
    /\ link_all = hash_tab_by_id
    /\ entry_num_in_use = Cardinality(link_all)
    /\ \A e, f \in link_all : e # f => mem[e].key # mem[f].key /\ mem[e].id # mem[f].id

\* The number of buffers that alloc_buffer has not handed out.
NotHandedOut == mem_pool.buffer_num_total - Cardinality(InUse \cap Buffers)

\* free_buffer_num is that number, off by what malloc left in the count and by nothing else,
\* however calls overlap.  Where malloc left 0 this is what the assertions of
\* simple_apps/mm_test.c say after each call.
FreeCountExact == mem_pool.buffer_num_free = setup.garbage + NotHandedOut

\* An entry that a caller holds keeps its id and key, whoever deletes it meanwhile.
HeldIsStable ==
  [][\A t \in Thread :
       held[t] # NONE => /\ mem'[held[t]].id = mem[held[t]].id
                         /\ mem'[held[t]].key = mem[held[t]].key]_vars
=============================================================================
