---------------------------- MODULE TabXxxProofs ----------------------------
(***************************************************************************)
(* TabXxx for any number of threads, keys, ids, lines and entries, as long *)
(* as HeadNotTaken holds: alloc_buffer reads the free list before it takes *)
(* the mutex, and a buffer that is freed in between to an empty list       *)
(* breaks everything, as the run on a small pool shows.                    *)
(***************************************************************************)
EXTENDS TabXxx, FiniteSetTheorems, WellFoundedInduction, TLAPS

\* alloc_buffer does not unlink the list head: nobody frees a buffer between its read of an
\* empty list and its mutex; and if malloc left the count too high, no more buffers are asked
\* for than there are.
HeadNotTaken ==
  \A t \in Thread : pc[t] = "add_alloc" /\ ~alloc_empty(mem_pool) => node[t] # Head0

AddPc == {"add_search", "add_read", "add_alloc", "add_build", "add_id", "add_key", "add_all"}
DelPc == {"del_search", "del_id", "del_key", "del_all", "del_put", "del_free"}
TablePc == AddPc \cup DelPc

Node == 0 .. setup.max_entry_num

PoolTypes ==
  mem_pool \in [next : [Node -> Node], prev : [Node -> Node], buffer_num_free : Int,
                buffer_num_total : {setup.max_entry_num}]

ArgTypes ==
  \A t \in Thread :
    /\ pc[t] \in TablePc \cup {"get_by_key"} => arg[t] \in Key
    /\ pc[t] = "get_by_id" => arg[t] \in Id
    /\ pc[t] = "add_alloc" => node[t] \in Node
    /\ pc[t] \in OwnPc => pt_entry[t] \in Buffers

Mutex == \A t \in Thread : pc[t] \in TablePc <=> add_del_lock = t

\* The links of the entry that is being added or deleted, where the others have all three.
Links ==
  /\ (\A t \in Thread : pc[t] \notin {"add_key", "add_all", "del_key", "del_all"}) =>
       hash_tab_by_id = link_all /\ hash_tab_by_key = link_all
  /\ \A t \in Thread :
       /\ pc[t] = "add_key" => hash_tab_by_id = link_all \cup {pt_entry[t]} /\ hash_tab_by_key = link_all
       /\ pc[t] = "add_all" =>
            hash_tab_by_id = link_all \cup {pt_entry[t]} /\ hash_tab_by_key = link_all \cup {pt_entry[t]}
       /\ pc[t] = "del_key" => hash_tab_by_id = link_all \ {pt_entry[t]} /\ hash_tab_by_key = link_all
       /\ pc[t] = "del_all" =>
            hash_tab_by_id = link_all \ {pt_entry[t]} /\ hash_tab_by_key = link_all \ {pt_entry[t]}
       /\ pc[t] \in {"del_id", "del_key", "del_all"} => pt_entry[t] \in link_all
       /\ pc[t] \in OwnPc \ {"del_id", "del_key", "del_all"} => pt_entry[t] \notin link_all

Counted == entry_num_in_use = Cardinality(link_all)

\* No two entries share a key or an id, the one that is being added included.
Distinct ==
  /\ \A e, f \in Linked : e # f => mem[e].key # mem[f].key /\ mem[e].id # mem[f].id
  /\ \A t \in Thread :
       /\ pc[t] \in {"add_read", "add_alloc", "add_build", "add_id"} =>
            \A e \in link_all : mem[e].key # arg[t]
       /\ pc[t] = "add_id" =>
            /\ mem[pt_entry[t]].key = arg[t]
            /\ \A e \in link_all : mem[e].id # mem[pt_entry[t]].id

\* Whoever is getting an entry has the lock of a line in which it is linked, and holds none yet.
Getting ==
  \A t \in Thread :
    /\ pc[t] = "get_by_key" =>
         /\ key_line_lock[key_hash(arg[t])] = t
         /\ pt_entry[t] \in hash_tab_by_key /\ mem[pt_entry[t]].key = arg[t]
         /\ held[t] = NONE
    /\ pc[t] = "get_by_id" =>
         /\ id_line_lock[id_hash(arg[t])] = t
         /\ pt_entry[t] \in hash_tab_by_id /\ mem[pt_entry[t]].id = arg[t]
         /\ held[t] = NONE

\* No two calls own the same entry, and one that is not counted yet, or no longer, is not held.
Owners ==
  /\ \A t, u \in Thread : t # u /\ pc[t] \in OwnPc /\ pc[u] \in OwnPc => pt_entry[t] # pt_entry[u]
  /\ \A t, u \in Thread : pc[t] \in {"add_build", "put_free", "del_free"} => held[u] # pt_entry[t]

FreeCount ==
  mem_pool.buffer_num_free = setup.garbage + setup.max_entry_num - Cardinality(InUse)

\* The free list: the nodes that nobody uses, and the head, are linked to each other both ways.
BothWays(p, F) ==
  \A n \in F : /\ p.next[n] \in F /\ p.prev[n] \in F
               /\ p.next[p.prev[n]] = n /\ p.prev[p.next[n]] = n

\* A walk along next from the head meets all of them: the list is one circle.
OneCircle(p, F) == \A S \in SUBSET F : Head0 \in S /\ ClosedUnderNext(p, S) => S = F
Closed(p, F) == BothWays(p, F) /\ OneCircle(p, F)
FreeList == Closed(mem_pool, Node \ InUse)

\* What alloc_buffer has read is still the first node, or was read from an empty list.
ReadFirst == \A t \in Thread : pc[t] = "add_alloc" => node[t] = Head0 \/ node[t] = mem_pool.next[Head0]

TabInv ==
  /\ TypeOK /\ PoolTypes /\ ArgTypes /\ Mutex /\ Links /\ Counted /\ Distinct
  /\ Getting /\ Owners /\ RefCntExact /\ InUse \subseteq Buffers /\ FreeCount
  /\ FreeList /\ ReadFirst
-----------------------------------------------------------------------------
\* A set of natural numbers that is not empty has a least element.
LEMMA Least ==
  ASSUME NEW T, T \subseteq Nat, T # {}
  PROVE  \E x \in T : \A y \in T : x <= y
<1>1. PICK x \in T : \A y \in T : ~(<<y, x>> \in OpToRel(<, Nat))
  BY NatLessThanWellFounded, WFMin, Zenon
<1>2. \A y \in T : y < x => <<y, x>> \in OpToRel(<, Nat)
  <2> SUFFICES ASSUME NEW y \in T, y < x PROVE <<y, x>> \in OpToRel(<, Nat) OBVIOUS
  <2>1. <<y, x>> \in Nat \X Nat OBVIOUS
  <2>2. <<y, x>>[1] < <<y, x>>[2] OBVIOUS
  <2> QED BY <2>1, <2>2, Zenon DEF OpToRel
<1>3. \A y \in T : ~(y < x) BY <1>1, <1>2, Zenon
<1> QED BY <1>3

(* The threads that hold an entry, and how their number changes.           *)
Holders(e) == {t \in Thread : held[t] = e}

LEMMA HoldersCount ==
  ASSUME NEW e
  PROVE  /\ IsFiniteSet(Holders(e)) /\ Cardinality(Holders(e)) \in Nat
         /\ \A t \in Thread : held[t] = e => Cardinality(Holders(e)) > 0
         /\ Cardinality(Holders(e)) > 0 => \E t \in Thread : held[t] = e
         /\ \A t, u \in Thread : t # u /\ held[t] = e /\ held[u] = e => Cardinality(Holders(e)) > 1
         /\ Cardinality(Holders(e)) > 1 => \A t \in Thread : \E u \in Thread : u # t /\ held[u] = e
<1>1. IsFiniteSet(Holders(e))
  BY TabAssumption, FS_Subset DEF Holders
<1>2. Cardinality(Holders(e)) \in Nat
  BY <1>1, FS_CardinalityType
<1>3. Cardinality(Holders(e)) = 0 <=> Holders(e) = {}
  BY <1>1, FS_EmptySet
<1>4. ASSUME NEW t \in Thread, held[t] = e
      PROVE  /\ IsFiniteSet(Holders(e) \ {t})
             /\ Cardinality(Holders(e) \ {t}) = Cardinality(Holders(e)) - 1
             /\ Cardinality(Holders(e) \ {t}) \in Nat
             /\ Cardinality(Holders(e) \ {t}) = 0 <=> Holders(e) \ {t} = {}
  <2>1. t \in Holders(e) BY <1>4 DEF Holders
  <2>2. IsFiniteSet(Holders(e) \ {t}) /\ Cardinality(Holders(e) \ {t}) = Cardinality(Holders(e)) - 1
    BY <1>1, <2>1, FS_RemoveElement
  <2> QED BY <2>2, FS_EmptySet, FS_CardinalityType
<1>5. ASSUME NEW t \in Thread, held[t] = e PROVE Cardinality(Holders(e)) > 0
  BY <1>2, <1>3, <1>5 DEF Holders
<1>6. ASSUME Cardinality(Holders(e)) > 0 PROVE \E t \in Thread : held[t] = e
  BY <1>2, <1>3, <1>6 DEF Holders
<1>7. ASSUME NEW t \in Thread, NEW u \in Thread, t # u, held[t] = e, held[u] = e
      PROVE  Cardinality(Holders(e)) > 1
  <2> DEFINE rest == Holders(e) \ {t}
  <2>1. rest # {} BY <1>7 DEF Holders
  <2>2. /\ Cardinality(rest) = Cardinality(Holders(e)) - 1 /\ Cardinality(rest) \in Nat
        /\ Cardinality(rest) = 0 <=> rest = {}
    BY <1>4, <1>7
  <2> HIDE DEF rest
  <2> QED BY <1>2, <2>1, <2>2
<1>8. ASSUME Cardinality(Holders(e)) > 1, NEW t \in Thread
      PROVE  \E u \in Thread : u # t /\ held[u] = e
  <2>1. CASE held[t] = e
    <3> DEFINE rest == Holders(e) \ {t}
    <3>1. /\ Cardinality(rest) = Cardinality(Holders(e)) - 1 /\ Cardinality(rest) \in Nat
          /\ Cardinality(rest) = 0 <=> rest = {}
      BY <1>4, <2>1
    <3>2. rest # {}
      <4> HIDE DEF rest
      <4> QED BY <1>2, <1>8, <3>1
    <3> QED BY <3>2 DEF Holders
  <2>2. CASE held[t] # e
    BY <1>2, <1>6, <1>8, <2>2
  <2> QED BY <2>1, <2>2
<1> QED BY <1>1, <1>2, <1>5, <1>6, <1>7, <1>8

LEMMA HolderComes ==
  ASSUME held \in [Thread -> Int \cup {NONE}], NEW t \in Thread, NEW e \in Int,
         held[t] = NONE, held' = [held EXCEPT ![t] = e]
  PROVE  /\ Cardinality(Holders(e)') = Cardinality(Holders(e)) + 1
         /\ \A f \in Int \ {e} : Holders(f)' = Holders(f)
<1>1. t \notin Holders(e) BY TabAssumption DEF TabAssumption, Holders
<1>2. Holders(e)' = Holders(e) \cup {t} BY DEF Holders
<1>3. Cardinality(Holders(e) \cup {t}) = Cardinality(Holders(e)) + 1
  BY <1>1, HoldersCount, FS_AddElement
<1>4. \A f \in Int \ {e} : Holders(f)' = Holders(f)
  BY TabAssumption DEF TabAssumption, Holders
<1> QED BY <1>2, <1>3, <1>4

LEMMA HolderGoes ==
  ASSUME held \in [Thread -> Int \cup {NONE}], NEW t \in Thread, NEW e \in Int,
         held[t] = e, held' = [held EXCEPT ![t] = NONE]
  PROVE  /\ Cardinality(Holders(e)') = Cardinality(Holders(e)) - 1
         /\ \A f \in Int \ {e} : Holders(f)' = Holders(f)
<1>1. t \in Holders(e) BY DEF Holders
<1>2. Holders(e)' = Holders(e) \ {t} BY TabAssumption DEF TabAssumption, Holders
<1>3. Cardinality(Holders(e) \ {t}) = Cardinality(Holders(e)) - 1
  BY <1>1, HoldersCount, FS_RemoveElement
<1>4. \A f \in Int \ {e} : Holders(f)' = Holders(f)
  BY TabAssumption DEF TabAssumption, Holders
<1> QED BY <1>2, <1>3, <1>4
-----------------------------------------------------------------------------
\* What the step of a thread leaves to the others.
Frame(t) ==
  \A u \in Thread \ {t} :
    /\ pc'[u] = pc[u] /\ arg'[u] = arg[u] /\ node'[u] = node[u]
    /\ pt_entry'[u] = pt_entry[u] /\ held'[u] = held[u]

\* Steps of calls that do not own an entry, before and after.
LEMMA Local ==
  ASSUME TabInv, NEW t \in Thread, Frame(t), UNCHANGED <<setup, mem_pool, mem, table, held>>,
         pc[t] \notin OwnPc, pc'[t] \notin OwnPc
  PROVE  /\ PoolTypes' /\ Links' /\ Counted' /\ Owners' /\ RefCntExact' /\ (InUse \subseteq Buffers)'
         /\ FreeCount' /\ FreeList'
<1>1. \A u \in Thread : /\ pc'[u] \in OwnPc <=> pc[u] \in OwnPc
                        /\ pc[u] \in OwnPc => pc'[u] = pc[u] /\ pt_entry'[u] = pt_entry[u]
  BY DEF Frame
<1>2. /\ setup' = setup /\ mem_pool' = mem_pool /\ mem' = mem /\ held' = held
      /\ hash_tab_by_id' = hash_tab_by_id /\ hash_tab_by_key' = hash_tab_by_key
      /\ link_all' = link_all /\ entry_num_in_use' = entry_num_in_use
  BY DEF table
<1>3. PoolTypes' BY <1>2 DEF TabInv, PoolTypes, Node
<1>4. Links' BY <1>1, <1>2 DEF TabInv, Links, OwnPc
<1>5. Counted' BY <1>2 DEF TabInv, Counted
<1>6. Owners' BY <1>1, <1>2 DEF TabInv, Owners, OwnPc
<1>7. Owned' = Owned BY <1>1 DEF Owned
<1>8. InUse' = InUse BY <1>2, <1>7 DEF InUse, Linked
<1>9. RefCntExact'
  <2>1. {u \in Thread : pc[u] = "add_build"}' = {u \in Thread : pc[u] = "add_build"}
    BY <1>1 DEF OwnPc
  <2>2. {pt_entry[u] : u \in {v \in Thread : pc[v] = "add_build"}}' =
          {pt_entry[u] : u \in {v \in Thread : pc[v] = "add_build"}}
    BY <1>1 DEF OwnPc
  <2>3. ASSUME NEW e PROVE TablesRef(e)' = TablesRef(e)
    <3>1. TableRefers(e)' <=> TableRefers(e) BY <1>1, <1>2 DEF TableRefers, OwnPc
    <3> QED BY <3>1 DEF TablesRef
  <2> QED BY <1>2, <1>8, <2>2, <2>3 DEF TabInv, RefCntExact
<1>10. (InUse \subseteq Buffers)' /\ FreeCount' /\ FreeList'
  BY <1>2, <1>8 DEF TabInv, FreeCount, Buffers, FreeList, Closed, Node
<1> QED BY <1>3, <1>4, <1>5, <1>6, <1>9, <1>10

LEMMA AddCallStep == ASSUME TabInv, NEW t \in Thread, AddCall(t) PROVE TabInv'
<1>0. PICK k \in Key : arg' = [arg EXCEPT ![t] = k]
  <2>1. setup.keys \subseteq Key BY TabAssumption DEF TabInv, TypeOK
  <2> QED BY <2>1 DEF AddCall, LockTable
<1>1. Frame(t) /\ pc[t] = "idle" /\ pc'[t] = "add_search" /\ UNCHANGED <<setup, mem_pool, mem, table, held>>
  BY DEF TabInv, TypeOK, AddCall, Goto, LockTable, UnlockTable, Frame
<1>2. /\ PoolTypes' /\ Links' /\ Counted' /\ Owners' /\ RefCntExact' /\ (InUse \subseteq Buffers)'
      /\ FreeCount' /\ FreeList'
  BY <1>1, Local DEF OwnPc
<1>3. TypeOK' BY <1>0, <1>1 DEF TabInv, TypeOK, PcValues, AddCall, Goto, LockTable, UnlockTable, locks, table, Node, Buffers
<1>4. ArgTypes' BY <1>0, <1>1 DEF TabInv, TypeOK, ArgTypes, AddCall, Goto, LockTable, UnlockTable, locks, Frame, TablePc, AddPc, DelPc, OwnPc, Node, Buffers
<1>5. Mutex' BY <1>0, <1>1, TabAssumption DEF TabInv, TypeOK, Mutex, AddCall, Goto, LockTable, UnlockTable, locks, Frame, TablePc, AddPc, DelPc
<1>6. Distinct' BY <1>0, <1>1 DEF TabInv, TypeOK, Distinct, AddCall, Goto, LockTable, UnlockTable, locks, Frame, Linked, table
<1>7. Getting' BY <1>0, <1>1, TabAssumption DEF TabInv, TypeOK, Getting, AddCall, Goto, LockTable, UnlockTable, locks, Frame, table
<1>8. ReadFirst' BY <1>0, <1>1 DEF TabInv, TypeOK, ReadFirst, AddCall, Goto, LockTable, UnlockTable, locks, Frame, alloc_read
<1> QED BY <1>2, <1>3, <1>4, <1>5, <1>6, <1>7, <1>8 DEF TabInv

LEMMA AddExistsStep == ASSUME TabInv, NEW t \in Thread, AddExists(t) PROVE TabInv'
<1>1. Frame(t) /\ pc[t] = "add_search" /\ pc'[t] = "idle" /\ UNCHANGED <<setup, mem_pool, mem, table, held>>
  BY DEF TabInv, TypeOK, AddExists, Goto, LockTable, UnlockTable, Frame
<1>2. /\ PoolTypes' /\ Links' /\ Counted' /\ Owners' /\ RefCntExact' /\ (InUse \subseteq Buffers)'
      /\ FreeCount' /\ FreeList'
  BY <1>1, Local DEF OwnPc
<1>3. TypeOK' BY <1>1 DEF TabInv, TypeOK, PcValues, AddExists, Goto, LockTable, UnlockTable, locks, table, Node, Buffers
<1>4. ArgTypes' BY <1>1 DEF TabInv, TypeOK, ArgTypes, AddExists, Goto, LockTable, UnlockTable, locks, Frame, TablePc, AddPc, DelPc, OwnPc, Node, Buffers
<1>5. Mutex' BY <1>1, TabAssumption DEF TabInv, TypeOK, Mutex, AddExists, Goto, LockTable, UnlockTable, locks, Frame, TablePc, AddPc, DelPc
<1>6. Distinct' BY <1>1 DEF TabInv, TypeOK, Distinct, AddExists, Goto, LockTable, UnlockTable, locks, Frame, Linked, table
<1>7. Getting' BY <1>1, TabAssumption DEF TabInv, TypeOK, Getting, AddExists, Goto, LockTable, UnlockTable, locks, Frame, table
<1>8. ReadFirst' BY <1>1 DEF TabInv, TypeOK, ReadFirst, AddExists, Goto, LockTable, UnlockTable, locks, Frame, alloc_read
<1> QED BY <1>2, <1>3, <1>4, <1>5, <1>6, <1>7, <1>8 DEF TabInv

LEMMA AddNewStep == ASSUME TabInv, NEW t \in Thread, AddNew(t) PROVE TabInv'
<1>1. Frame(t) /\ pc[t] = "add_search" /\ pc'[t] = "add_read" /\ UNCHANGED <<setup, mem_pool, mem, table, held>>
  BY DEF TabInv, TypeOK, AddNew, Goto, LockTable, UnlockTable, Frame
<1>2. /\ PoolTypes' /\ Links' /\ Counted' /\ Owners' /\ RefCntExact' /\ (InUse \subseteq Buffers)'
      /\ FreeCount' /\ FreeList'
  BY <1>1, Local DEF OwnPc
<1>3. TypeOK' BY <1>1 DEF TabInv, TypeOK, PcValues, AddNew, Goto, LockTable, UnlockTable, locks, table, Node, Buffers
<1>4. ArgTypes' BY <1>1 DEF TabInv, TypeOK, ArgTypes, AddNew, Goto, LockTable, UnlockTable, locks, Frame, TablePc, AddPc, DelPc, OwnPc, Node, Buffers
<1>5. Mutex' BY <1>1, TabAssumption DEF TabInv, TypeOK, Mutex, AddNew, Goto, LockTable, UnlockTable, locks, Frame, TablePc, AddPc, DelPc
<1>6. Distinct' BY <1>1 DEF TabInv, TypeOK, Distinct, AddNew, Goto, LockTable, UnlockTable, locks, Frame, Linked, table, Mutex, Links, TablePc, AddPc, DelPc, search_entry_by_key
<1>7. Getting' BY <1>1, TabAssumption DEF TabInv, TypeOK, Getting, AddNew, Goto, LockTable, UnlockTable, locks, Frame, table
<1>8. ReadFirst' BY <1>1 DEF TabInv, TypeOK, ReadFirst, AddNew, Goto, LockTable, UnlockTable, locks, Frame, alloc_read
<1> QED BY <1>2, <1>3, <1>4, <1>5, <1>6, <1>7, <1>8 DEF TabInv

LEMMA AddReadStep == ASSUME TabInv, NEW t \in Thread, AddRead(t) PROVE TabInv'
<1>0. PICK n \in Node : n = mem_pool.next[Head0] /\ node' = [node EXCEPT ![t] = n]
  <2>1. mem_pool.next[0] \in Node BY TabAssumption DEF TabInv, TypeOK, PoolTypes, Node
  <2> QED BY <2>1 DEF AddRead, alloc_read, Head0
<1>1. Frame(t) /\ pc[t] = "add_read" /\ pc'[t] = "add_alloc" /\ UNCHANGED <<setup, mem_pool, mem, table, held>>
  BY DEF TabInv, TypeOK, AddRead, Goto, LockTable, UnlockTable, Frame
<1>2. /\ PoolTypes' /\ Links' /\ Counted' /\ Owners' /\ RefCntExact' /\ (InUse \subseteq Buffers)'
      /\ FreeCount' /\ FreeList'
  BY <1>1, Local DEF OwnPc
<1>3. TypeOK' BY <1>0, <1>1 DEF TabInv, TypeOK, PcValues, AddRead, Goto, LockTable, UnlockTable, locks, table, Node, Buffers
<1>4. ArgTypes' BY <1>0, <1>1 DEF TabInv, TypeOK, ArgTypes, AddRead, Goto, LockTable, UnlockTable, locks, Frame, TablePc, AddPc, DelPc, OwnPc, Node, Buffers
<1>5. Mutex' BY <1>0, <1>1, TabAssumption DEF TabInv, TypeOK, Mutex, AddRead, Goto, LockTable, UnlockTable, locks, Frame, TablePc, AddPc, DelPc
<1>6. Distinct' BY <1>0, <1>1 DEF TabInv, TypeOK, Distinct, AddRead, Goto, LockTable, UnlockTable, locks, Frame, Linked, table
<1>7. Getting' BY <1>0, <1>1, TabAssumption DEF TabInv, TypeOK, Getting, AddRead, Goto, LockTable, UnlockTable, locks, Frame, table
<1>8. ReadFirst' BY <1>0, <1>1 DEF TabInv, TypeOK, ReadFirst, AddRead, Goto, LockTable, UnlockTable, locks, Frame, alloc_read
<1> QED BY <1>2, <1>3, <1>4, <1>5, <1>6, <1>7, <1>8 DEF TabInv

LEMMA AddNoMemStep == ASSUME TabInv, NEW t \in Thread, AddNoMem(t) PROVE TabInv'
<1>1. Frame(t) /\ pc[t] = "add_alloc" /\ pc'[t] = "idle" /\ UNCHANGED <<setup, mem_pool, mem, table, held>>
  BY DEF TabInv, TypeOK, AddNoMem, Goto, LockTable, UnlockTable, Frame
<1>2. /\ PoolTypes' /\ Links' /\ Counted' /\ Owners' /\ RefCntExact' /\ (InUse \subseteq Buffers)'
      /\ FreeCount' /\ FreeList'
  BY <1>1, Local DEF OwnPc
<1>3. TypeOK' BY <1>1 DEF TabInv, TypeOK, PcValues, AddNoMem, Goto, LockTable, UnlockTable, locks, table, Node, Buffers
<1>4. ArgTypes' BY <1>1 DEF TabInv, TypeOK, ArgTypes, AddNoMem, Goto, LockTable, UnlockTable, locks, Frame, TablePc, AddPc, DelPc, OwnPc, Node, Buffers
<1>5. Mutex' BY <1>1, TabAssumption DEF TabInv, TypeOK, Mutex, AddNoMem, Goto, LockTable, UnlockTable, locks, Frame, TablePc, AddPc, DelPc
<1>6. Distinct' BY <1>1 DEF TabInv, TypeOK, Distinct, AddNoMem, Goto, LockTable, UnlockTable, locks, Frame, Linked, table
<1>7. Getting' BY <1>1, TabAssumption DEF TabInv, TypeOK, Getting, AddNoMem, Goto, LockTable, UnlockTable, locks, Frame, table
<1>8. ReadFirst' BY <1>1 DEF TabInv, TypeOK, ReadFirst, AddNoMem, Goto, LockTable, UnlockTable, locks, Frame, alloc_read
<1> QED BY <1>2, <1>3, <1>4, <1>5, <1>6, <1>7, <1>8 DEF TabInv

LEMMA DelCallStep == ASSUME TabInv, NEW t \in Thread, DelCall(t) PROVE TabInv'
<1>0. PICK k \in Key : arg' = [arg EXCEPT ![t] = k]
  <2>1. setup.keys \subseteq Key BY TabAssumption DEF TabInv, TypeOK
  <2> QED BY <2>1 DEF DelCall, LockTable
<1>1. Frame(t) /\ pc[t] = "idle" /\ pc'[t] = "del_search" /\ UNCHANGED <<setup, mem_pool, mem, table, held>>
  BY DEF TabInv, TypeOK, DelCall, Goto, LockTable, UnlockTable, Frame
<1>2. /\ PoolTypes' /\ Links' /\ Counted' /\ Owners' /\ RefCntExact' /\ (InUse \subseteq Buffers)'
      /\ FreeCount' /\ FreeList'
  BY <1>1, Local DEF OwnPc
<1>3. TypeOK' BY <1>0, <1>1 DEF TabInv, TypeOK, PcValues, DelCall, Goto, LockTable, UnlockTable, locks, table, Node, Buffers
<1>4. ArgTypes' BY <1>0, <1>1 DEF TabInv, TypeOK, ArgTypes, DelCall, Goto, LockTable, UnlockTable, locks, Frame, TablePc, AddPc, DelPc, OwnPc, Node, Buffers
<1>5. Mutex' BY <1>0, <1>1, TabAssumption DEF TabInv, TypeOK, Mutex, DelCall, Goto, LockTable, UnlockTable, locks, Frame, TablePc, AddPc, DelPc
<1>6. Distinct' BY <1>0, <1>1 DEF TabInv, TypeOK, Distinct, DelCall, Goto, LockTable, UnlockTable, locks, Frame, Linked, table
<1>7. Getting' BY <1>0, <1>1, TabAssumption DEF TabInv, TypeOK, Getting, DelCall, Goto, LockTable, UnlockTable, locks, Frame, table
<1>8. ReadFirst' BY <1>0, <1>1 DEF TabInv, TypeOK, ReadFirst, DelCall, Goto, LockTable, UnlockTable, locks, Frame, alloc_read
<1> QED BY <1>2, <1>3, <1>4, <1>5, <1>6, <1>7, <1>8 DEF TabInv

LEMMA DelMissingStep == ASSUME TabInv, NEW t \in Thread, DelMissing(t) PROVE TabInv'
<1>1. Frame(t) /\ pc[t] = "del_search" /\ pc'[t] = "idle" /\ UNCHANGED <<setup, mem_pool, mem, table, held>>
  BY DEF TabInv, TypeOK, DelMissing, Goto, LockTable, UnlockTable, Frame
<1>2. /\ PoolTypes' /\ Links' /\ Counted' /\ Owners' /\ RefCntExact' /\ (InUse \subseteq Buffers)'
      /\ FreeCount' /\ FreeList'
  BY <1>1, Local DEF OwnPc
<1>3. TypeOK' BY <1>1 DEF TabInv, TypeOK, PcValues, DelMissing, Goto, LockTable, UnlockTable, locks, table, Node, Buffers
<1>4. ArgTypes' BY <1>1 DEF TabInv, TypeOK, ArgTypes, DelMissing, Goto, LockTable, UnlockTable, locks, Frame, TablePc, AddPc, DelPc, OwnPc, Node, Buffers
<1>5. Mutex' BY <1>1, TabAssumption DEF TabInv, TypeOK, Mutex, DelMissing, Goto, LockTable, UnlockTable, locks, Frame, TablePc, AddPc, DelPc
<1>6. Distinct' BY <1>1 DEF TabInv, TypeOK, Distinct, DelMissing, Goto, LockTable, UnlockTable, locks, Frame, Linked, table
<1>7. Getting' BY <1>1, TabAssumption DEF TabInv, TypeOK, Getting, DelMissing, Goto, LockTable, UnlockTable, locks, Frame, table
<1>8. ReadFirst' BY <1>1 DEF TabInv, TypeOK, ReadFirst, DelMissing, Goto, LockTable, UnlockTable, locks, Frame, alloc_read
<1> QED BY <1>2, <1>3, <1>4, <1>5, <1>6, <1>7, <1>8 DEF TabInv

LEMMA GetByKeyStep == ASSUME TabInv, NEW t \in Thread, GetByKey(t) PROVE TabInv'
<1>0. PICK k \in Key, e \in hash_tab_by_key :
        /\ arg' = [arg EXCEPT ![t] = k] /\ pt_entry' = [pt_entry EXCEPT ![t] = e]
        /\ key_line_lock' = [key_line_lock EXCEPT ![key_hash(k)] = t]
        /\ key_line_lock[key_hash(k)] = NoThread /\ mem[e].key = k /\ held[t] = NONE
  <2>1. setup.keys \subseteq Key BY TabAssumption DEF TabInv, TypeOK
  <2> QED BY <2>1 DEF GetByKey, search_entry_by_key
<1>h. key_hash(k) \in Line BY TabAssumption DEF key_hash, Line
<1>g. pc' = [pc EXCEPT ![t] = "get_by_key"] /\ UNCHANGED <<setup, mem, table, next_id, add_del_lock, id_line_lock, node, held>>
  BY DEF GetByKey, Goto
<1>1. Frame(t) /\ pc[t] = "idle" /\ pc'[t] = "get_by_key" /\ UNCHANGED <<setup, mem_pool, mem, table, held>>
  BY DEF TabInv, TypeOK, GetByKey, Goto, LockTable, UnlockTable, Frame
<1>2. /\ PoolTypes' /\ Links' /\ Counted' /\ Owners' /\ RefCntExact' /\ (InUse \subseteq Buffers)'
      /\ FreeCount' /\ FreeList'
  BY <1>1, Local DEF OwnPc
<1>3. TypeOK' BY <1>0, <1>h, <1>g, <1>1 DEF TabInv, TypeOK, PcValues, table, table, Node, Buffers
<1>4. ArgTypes' BY <1>0, <1>h, <1>g, <1>1 DEF TabInv, TypeOK, ArgTypes, table, Frame, TablePc, AddPc, DelPc, OwnPc, Node, Buffers
<1>5. Mutex' BY <1>0, <1>h, <1>g, <1>1, TabAssumption DEF TabInv, TypeOK, Mutex, table, Frame, TablePc, AddPc, DelPc
<1>6. Distinct' BY <1>0, <1>h, <1>g, <1>1 DEF TabInv, TypeOK, Distinct, table, Frame, Linked, table
<1>7. Getting' BY <1>0, <1>h, <1>g, <1>1, TabAssumption DEF TabInv, TypeOK, Getting, table, Frame, table
<1>8. ReadFirst' BY <1>0, <1>h, <1>g, <1>1 DEF TabInv, TypeOK, ReadFirst, table, Frame, alloc_read
<1> QED BY <1>2, <1>3, <1>4, <1>5, <1>6, <1>7, <1>8 DEF TabInv

LEMMA GetByIdStep == ASSUME TabInv, NEW t \in Thread, GetById(t) PROVE TabInv'
<1>0. PICK id \in Id, e \in hash_tab_by_id :
        /\ arg' = [arg EXCEPT ![t] = id] /\ pt_entry' = [pt_entry EXCEPT ![t] = e]
        /\ id_line_lock' = [id_line_lock EXCEPT ![id_hash(id)] = t]
        /\ id_line_lock[id_hash(id)] = NoThread /\ mem[e].id = id /\ held[t] = NONE
  BY DEF GetById, search_entry_by_id
<1>h. id_hash(id) \in Line BY TabAssumption DEF id_hash, Line, Id
<1>g. pc' = [pc EXCEPT ![t] = "get_by_id"] /\ UNCHANGED <<setup, mem, table, next_id, add_del_lock, key_line_lock, node, held>>
  BY DEF GetById, Goto
<1>1. Frame(t) /\ pc[t] = "idle" /\ pc'[t] = "get_by_id" /\ UNCHANGED <<setup, mem_pool, mem, table, held>>
  BY DEF TabInv, TypeOK, GetById, Goto, LockTable, UnlockTable, Frame
<1>2. /\ PoolTypes' /\ Links' /\ Counted' /\ Owners' /\ RefCntExact' /\ (InUse \subseteq Buffers)'
      /\ FreeCount' /\ FreeList'
  BY <1>1, Local DEF OwnPc
<1>3. TypeOK' BY <1>0, <1>h, <1>g, <1>1 DEF TabInv, TypeOK, PcValues, table, table, Node, Buffers
<1>4. ArgTypes' BY <1>0, <1>h, <1>g, <1>1 DEF TabInv, TypeOK, ArgTypes, table, Frame, TablePc, AddPc, DelPc, OwnPc, Node, Buffers
<1>5. Mutex' BY <1>0, <1>h, <1>g, <1>1, TabAssumption DEF TabInv, TypeOK, Mutex, table, Frame, TablePc, AddPc, DelPc
<1>6. Distinct' BY <1>0, <1>h, <1>g, <1>1 DEF TabInv, TypeOK, Distinct, table, Frame, Linked, table
<1>7. Getting' BY <1>0, <1>h, <1>g, <1>1, TabAssumption DEF TabInv, TypeOK, Getting, table, Frame, table
<1>8. ReadFirst' BY <1>0, <1>h, <1>g, <1>1 DEF TabInv, TypeOK, ReadFirst, table, Frame, alloc_read
<1> QED BY <1>2, <1>3, <1>4, <1>5, <1>6, <1>7, <1>8 DEF TabInv
-----------------------------------------------------------------------------
\* Steps that link or unlink the entry of their call, which the table goes on to refer to.
LEMMA Linking ==
  ASSUME TabInv, NEW t \in Thread, NEW e, Frame(t), UNCHANGED <<setup, mem_pool, mem, held>>,
         pc[t] \in OwnPc \ {"add_build"}, pt_entry[t] = e, pc'[t] \notin {"add_build", "put_free", "del_free", "add_alloc"},
         pc'[t] \in OwnPc => pt_entry'[t] = e,
         e \in InUse', TableRefers(e), TableRefers(e)',
         \A f : f # e => /\ f \in hash_tab_by_id' <=> f \in hash_tab_by_id
                         /\ f \in hash_tab_by_key' <=> f \in hash_tab_by_key
                         /\ f \in link_all' <=> f \in link_all
  PROVE  /\ PoolTypes' /\ Owners' /\ RefCntExact' /\ (InUse \subseteq Buffers)' /\ FreeCount'
         /\ FreeList' /\ ReadFirst'
<1>1. /\ setup' = setup /\ mem_pool' = mem_pool /\ mem' = mem /\ held' = held
  OBVIOUS
<1>2. PoolTypes' BY <1>1 DEF TabInv, PoolTypes, Node
<1>3. Owners' BY <1>1 DEF TabInv, Owners, OwnPc, Frame
<1>4. e \in InUse BY DEF InUse, Owned
<1>5. \A f : f # e => (f \in Linked' <=> f \in Linked)
  BY DEF Linked
<1>6. \A f : f # e => (f \in Owned' <=> f \in Owned)
  BY DEF Owned, Frame
<1>7. InUse' = InUse
  <2>1. \A f : f # e => (f \in InUse' <=> f \in InUse)
    BY <1>1, <1>5, <1>6 DEF InUse
  <2> QED BY <1>4, <2>1
<1>8. \A f : TablesRef(f)' = TablesRef(f)
  <2>1. \A f : f # e => (TableRefers(f)' <=> TableRefers(f))
    BY DEF TableRefers, Frame, OwnPc
  <2> QED BY <2>1 DEF TablesRef
<1>9. RefCntExact'
  <2> DEFINE building == {pt_entry[u] : u \in {v \in Thread : pc[v] = "add_build"}}
  <2>1. building' \subseteq building /\ building \subseteq building' BY DEF Frame
  <2>2. ASSUME NEW f \in InUse' \ building'
        PROVE  mem'[f].ref_cnt = TablesRef(f)' + Cardinality({u \in Thread : held'[u] = f})
    <3>1. f \in InUse \ building BY <1>7, <2>1, <2>2
    <3>2. TablesRef(f)' = TablesRef(f) BY <1>8
    <3> QED BY <1>1, <3>1, <3>2 DEF TabInv, RefCntExact
  <2> QED BY <2>2 DEF RefCntExact
<1>10. (InUse \subseteq Buffers)' /\ FreeCount'
  BY <1>1, <1>7 DEF TabInv, FreeCount, Buffers
<1>11. FreeList' BY <1>1, <1>7 DEF TabInv, FreeList, Closed, Node
<1>12. ReadFirst' BY <1>1 DEF TabInv, ReadFirst, Frame, OwnPc
<1> QED BY <1>2, <1>3, <1>9, <1>10, <1>11, <1>12

LEMMA AddIdHashStep == ASSUME TabInv, NEW t \in Thread, AddIdHash(t) PROVE TabInv'
<1>e. PICK e : e = pt_entry[t] OBVIOUS
<1>0. /\ pc[t] = "add_id" /\ pc' = [pc EXCEPT ![t] = "add_key"] /\ pc'[t] = "add_key"
  BY DEF TabInv, TypeOK, AddIdHash, Goto, UnlockTable
<1>1. /\ hash_tab_by_id' = hash_tab_by_id \cup {e}
      /\ UNCHANGED <<setup, mem_pool, mem, held, next_id, hash_tab_by_key, link_all, entry_num_in_use, add_del_lock, id_line_lock, key_line_lock, arg, node, pt_entry>>
      /\ id_line_lock[id_hash(mem[e].id)] = NoThread
  BY <1>e DEF AddIdHash, locks, UnlockTable
<1>2. /\ e = pt_entry[t] /\ e \in Buffers
      /\ \A u \in Thread \ {t} : pc[u] \notin TablePc
      /\ e \notin link_all
  BY <1>0, <1>e DEF TabInv, ArgTypes, Mutex, Links, TablePc, AddPc, DelPc, OwnPc
<1>3. Frame(t) BY <1>0, <1>1 DEF Frame, TabInv, TypeOK
<1>4. /\ TableRefers(e) /\ TableRefers(e)' /\ e \in InUse'
  <2>1. e \in hash_tab_by_id \cup hash_tab_by_key \/ pc[t] \in {"add_id", "add_all", "del_all", "del_put"}
    BY <1>0, <1>2 DEF TabInv, Links, TablePc, AddPc, DelPc, OwnPc
  <2>2. e \in hash_tab_by_id' \cup hash_tab_by_key' \/ (pc'[t] \in {"add_id", "add_all", "del_all", "del_put"} /\ pt_entry'[t] = e)
    BY <1>0, <1>1, <1>2 DEF TabInv, Links, TablePc, AddPc, DelPc, OwnPc
  <2>3. e \in InUse'
    BY <1>0, <1>1, <1>2, <2>2 DEF InUse, Linked, Owned, OwnPc
  <2> QED BY <1>2, <2>1, <2>2, <2>3 DEF TableRefers
<1>5. /\ PoolTypes' /\ Owners' /\ RefCntExact' /\ (InUse \subseteq Buffers)' /\ FreeCount' /\ FreeList' /\ ReadFirst'
  <2>1. pc[t] \in OwnPc \ {"add_build"} /\ pc'[t] \notin {"add_build", "put_free", "del_free", "add_alloc"} /\ (pc'[t] \in OwnPc => pt_entry'[t] = e)
    BY <1>0, <1>1, <1>2 DEF OwnPc
  <2>2. \A f : f # e => /\ f \in hash_tab_by_id' <=> f \in hash_tab_by_id
                        /\ f \in hash_tab_by_key' <=> f \in hash_tab_by_key
                        /\ f \in link_all' <=> f \in link_all
    BY <1>1
  <2>3. UNCHANGED <<setup, mem_pool, mem, held>> BY <1>1
  <2> QED BY <1>2, <1>3, <1>4, <2>1, <2>2, <2>3, Linking
<1>6. ArgTypes' BY <1>0, <1>1, <1>2, <1>3 DEF TabInv, ArgTypes, Frame, TablePc, AddPc, DelPc, OwnPc, Buffers, Node
<1>7. Mutex' BY <1>0, <1>1, <1>2, <1>3, TabAssumption DEF TabInv, Mutex, Frame, TablePc, AddPc, DelPc, OwnPc
<1>8. Counted' BY <1>1 DEF TabInv, Counted
<1>9. TypeOK' BY <1>0, <1>1, <1>2 DEF TabInv, TypeOK, PcValues, Buffers
<1>10. Links' BY <1>0, <1>1, <1>2, <1>3 DEF TabInv, Links, Owners, Frame, TablePc, AddPc, DelPc, OwnPc
<1>11. Distinct' BY <1>0, <1>1, <1>2, <1>3 DEF TabInv, Distinct, Links, Linked, Frame, TablePc, AddPc, DelPc, OwnPc
<1>12. Getting' BY <1>0, <1>1, <1>2, <1>3, TabAssumption DEF TabInv, Getting, Frame
<1> QED BY <1>5, <1>6, <1>7, <1>8, <1>9, <1>10, <1>11, <1>12 DEF TabInv

LEMMA AddKeyHashStep == ASSUME TabInv, NEW t \in Thread, AddKeyHash(t) PROVE TabInv'
<1>e. PICK e : e = pt_entry[t] OBVIOUS
<1>0. /\ pc[t] = "add_key" /\ pc' = [pc EXCEPT ![t] = "add_all"] /\ pc'[t] = "add_all"
  BY DEF TabInv, TypeOK, AddKeyHash, Goto, UnlockTable
<1>1. /\ hash_tab_by_key' = hash_tab_by_key \cup {e}
      /\ UNCHANGED <<setup, mem_pool, mem, held, next_id, hash_tab_by_id, link_all, entry_num_in_use, add_del_lock, id_line_lock, key_line_lock, arg, node, pt_entry>>
      /\ key_line_lock[key_hash(mem[e].key)] = NoThread
  BY <1>e DEF AddKeyHash, locks, UnlockTable
<1>2. /\ e = pt_entry[t] /\ e \in Buffers
      /\ \A u \in Thread \ {t} : pc[u] \notin TablePc
      /\ e \notin link_all
  BY <1>0, <1>e DEF TabInv, ArgTypes, Mutex, Links, TablePc, AddPc, DelPc, OwnPc
<1>3. Frame(t) BY <1>0, <1>1 DEF Frame, TabInv, TypeOK
<1>4. /\ TableRefers(e) /\ TableRefers(e)' /\ e \in InUse'
  <2>1. e \in hash_tab_by_id \cup hash_tab_by_key \/ pc[t] \in {"add_id", "add_all", "del_all", "del_put"}
    BY <1>0, <1>2 DEF TabInv, Links, TablePc, AddPc, DelPc, OwnPc
  <2>2. e \in hash_tab_by_id' \cup hash_tab_by_key' \/ (pc'[t] \in {"add_id", "add_all", "del_all", "del_put"} /\ pt_entry'[t] = e)
    BY <1>0, <1>1, <1>2 DEF TabInv, Links, TablePc, AddPc, DelPc, OwnPc
  <2>3. e \in InUse'
    BY <1>0, <1>1, <1>2, <2>2 DEF InUse, Linked, Owned, OwnPc
  <2> QED BY <1>2, <2>1, <2>2, <2>3 DEF TableRefers
<1>5. /\ PoolTypes' /\ Owners' /\ RefCntExact' /\ (InUse \subseteq Buffers)' /\ FreeCount' /\ FreeList' /\ ReadFirst'
  <2>1. pc[t] \in OwnPc \ {"add_build"} /\ pc'[t] \notin {"add_build", "put_free", "del_free", "add_alloc"} /\ (pc'[t] \in OwnPc => pt_entry'[t] = e)
    BY <1>0, <1>1, <1>2 DEF OwnPc
  <2>2. \A f : f # e => /\ f \in hash_tab_by_id' <=> f \in hash_tab_by_id
                        /\ f \in hash_tab_by_key' <=> f \in hash_tab_by_key
                        /\ f \in link_all' <=> f \in link_all
    BY <1>1
  <2>3. UNCHANGED <<setup, mem_pool, mem, held>> BY <1>1
  <2> QED BY <1>2, <1>3, <1>4, <2>1, <2>2, <2>3, Linking
<1>6. ArgTypes' BY <1>0, <1>1, <1>2, <1>3 DEF TabInv, ArgTypes, Frame, TablePc, AddPc, DelPc, OwnPc, Buffers, Node
<1>7. Mutex' BY <1>0, <1>1, <1>2, <1>3, TabAssumption DEF TabInv, Mutex, Frame, TablePc, AddPc, DelPc, OwnPc
<1>8. Counted' BY <1>1 DEF TabInv, Counted
<1>9. TypeOK' BY <1>0, <1>1, <1>2 DEF TabInv, TypeOK, PcValues, Buffers
<1>10. Links' BY <1>0, <1>1, <1>2, <1>3 DEF TabInv, Links, Owners, Frame, TablePc, AddPc, DelPc, OwnPc
<1>11. Distinct' BY <1>0, <1>1, <1>2, <1>3 DEF TabInv, Distinct, Links, Linked, Frame, TablePc, AddPc, DelPc, OwnPc
<1>12. Getting' BY <1>0, <1>1, <1>2, <1>3, TabAssumption DEF TabInv, Getting, Frame
<1> QED BY <1>5, <1>6, <1>7, <1>8, <1>9, <1>10, <1>11, <1>12 DEF TabInv

LEMMA DelIdHashStep == ASSUME TabInv, NEW t \in Thread, DelIdHash(t) PROVE TabInv'
<1>e. PICK e : e = pt_entry[t] OBVIOUS
<1>0. /\ pc[t] = "del_id" /\ pc' = [pc EXCEPT ![t] = "del_key"] /\ pc'[t] = "del_key"
  BY DEF TabInv, TypeOK, DelIdHash, Goto, UnlockTable
<1>1. /\ hash_tab_by_id' = hash_tab_by_id \ {e}
      /\ UNCHANGED <<setup, mem_pool, mem, held, next_id, hash_tab_by_key, link_all, entry_num_in_use, add_del_lock, id_line_lock, key_line_lock, arg, node, pt_entry>>
      /\ id_line_lock[id_hash(mem[e].id)] = NoThread
  BY <1>e DEF DelIdHash, locks, UnlockTable
<1>2. /\ e = pt_entry[t] /\ e \in Buffers
      /\ \A u \in Thread \ {t} : pc[u] \notin TablePc
      /\ e \in link_all
  BY <1>0, <1>e DEF TabInv, ArgTypes, Mutex, Links, TablePc, AddPc, DelPc, OwnPc
<1>3. Frame(t) BY <1>0, <1>1 DEF Frame, TabInv, TypeOK
<1>4. /\ TableRefers(e) /\ TableRefers(e)' /\ e \in InUse'
  <2>1. e \in hash_tab_by_id \cup hash_tab_by_key \/ pc[t] \in {"add_id", "add_all", "del_all", "del_put"}
    BY <1>0, <1>2 DEF TabInv, Links, TablePc, AddPc, DelPc, OwnPc
  <2>2. e \in hash_tab_by_id' \cup hash_tab_by_key' \/ (pc'[t] \in {"add_id", "add_all", "del_all", "del_put"} /\ pt_entry'[t] = e)
    BY <1>0, <1>1, <1>2 DEF TabInv, Links, TablePc, AddPc, DelPc, OwnPc
  <2>3. e \in InUse'
    BY <1>0, <1>1, <1>2, <2>2 DEF InUse, Linked, Owned, OwnPc
  <2> QED BY <1>2, <2>1, <2>2, <2>3 DEF TableRefers
<1>5. /\ PoolTypes' /\ Owners' /\ RefCntExact' /\ (InUse \subseteq Buffers)' /\ FreeCount' /\ FreeList' /\ ReadFirst'
  <2>1. pc[t] \in OwnPc \ {"add_build"} /\ pc'[t] \notin {"add_build", "put_free", "del_free", "add_alloc"} /\ (pc'[t] \in OwnPc => pt_entry'[t] = e)
    BY <1>0, <1>1, <1>2 DEF OwnPc
  <2>2. \A f : f # e => /\ f \in hash_tab_by_id' <=> f \in hash_tab_by_id
                        /\ f \in hash_tab_by_key' <=> f \in hash_tab_by_key
                        /\ f \in link_all' <=> f \in link_all
    BY <1>1
  <2>3. UNCHANGED <<setup, mem_pool, mem, held>> BY <1>1
  <2> QED BY <1>2, <1>3, <1>4, <2>1, <2>2, <2>3, Linking
<1>6. ArgTypes' BY <1>0, <1>1, <1>2, <1>3 DEF TabInv, ArgTypes, Frame, TablePc, AddPc, DelPc, OwnPc, Buffers, Node
<1>7. Mutex' BY <1>0, <1>1, <1>2, <1>3, TabAssumption DEF TabInv, Mutex, Frame, TablePc, AddPc, DelPc, OwnPc
<1>8. Counted' BY <1>1 DEF TabInv, Counted
<1>9. TypeOK' BY <1>0, <1>1, <1>2 DEF TabInv, TypeOK, PcValues, Buffers
<1>10. Links' BY <1>0, <1>1, <1>2, <1>3 DEF TabInv, Links, Owners, Frame, TablePc, AddPc, DelPc, OwnPc
<1>11. Distinct' BY <1>0, <1>1, <1>2, <1>3 DEF TabInv, Distinct, Links, Linked, Frame, TablePc, AddPc, DelPc, OwnPc
<1>12. Getting' BY <1>0, <1>1, <1>2, <1>3, TabAssumption DEF TabInv, Getting, Frame
<1> QED BY <1>5, <1>6, <1>7, <1>8, <1>9, <1>10, <1>11, <1>12 DEF TabInv

LEMMA DelKeyHashStep == ASSUME TabInv, NEW t \in Thread, DelKeyHash(t) PROVE TabInv'
<1>e. PICK e : e = pt_entry[t] OBVIOUS
<1>0. /\ pc[t] = "del_key" /\ pc' = [pc EXCEPT ![t] = "del_all"] /\ pc'[t] = "del_all"
  BY DEF TabInv, TypeOK, DelKeyHash, Goto, UnlockTable
<1>1. /\ hash_tab_by_key' = hash_tab_by_key \ {e}
      /\ UNCHANGED <<setup, mem_pool, mem, held, next_id, hash_tab_by_id, link_all, entry_num_in_use, add_del_lock, id_line_lock, key_line_lock, arg, node, pt_entry>>
      /\ key_line_lock[key_hash(mem[e].key)] = NoThread
  BY <1>e DEF DelKeyHash, locks, UnlockTable
<1>2. /\ e = pt_entry[t] /\ e \in Buffers
      /\ \A u \in Thread \ {t} : pc[u] \notin TablePc
      /\ e \in link_all
  BY <1>0, <1>e DEF TabInv, ArgTypes, Mutex, Links, TablePc, AddPc, DelPc, OwnPc
<1>3. Frame(t) BY <1>0, <1>1 DEF Frame, TabInv, TypeOK
<1>4. /\ TableRefers(e) /\ TableRefers(e)' /\ e \in InUse'
  <2>1. e \in hash_tab_by_id \cup hash_tab_by_key \/ pc[t] \in {"add_id", "add_all", "del_all", "del_put"}
    BY <1>0, <1>2 DEF TabInv, Links, TablePc, AddPc, DelPc, OwnPc
  <2>2. e \in hash_tab_by_id' \cup hash_tab_by_key' \/ (pc'[t] \in {"add_id", "add_all", "del_all", "del_put"} /\ pt_entry'[t] = e)
    BY <1>0, <1>1, <1>2 DEF TabInv, Links, TablePc, AddPc, DelPc, OwnPc
  <2>3. e \in InUse'
    BY <1>0, <1>1, <1>2, <2>2 DEF InUse, Linked, Owned, OwnPc
  <2> QED BY <1>2, <2>1, <2>2, <2>3 DEF TableRefers
<1>5. /\ PoolTypes' /\ Owners' /\ RefCntExact' /\ (InUse \subseteq Buffers)' /\ FreeCount' /\ FreeList' /\ ReadFirst'
  <2>1. pc[t] \in OwnPc \ {"add_build"} /\ pc'[t] \notin {"add_build", "put_free", "del_free", "add_alloc"} /\ (pc'[t] \in OwnPc => pt_entry'[t] = e)
    BY <1>0, <1>1, <1>2 DEF OwnPc
  <2>2. \A f : f # e => /\ f \in hash_tab_by_id' <=> f \in hash_tab_by_id
                        /\ f \in hash_tab_by_key' <=> f \in hash_tab_by_key
                        /\ f \in link_all' <=> f \in link_all
    BY <1>1
  <2>3. UNCHANGED <<setup, mem_pool, mem, held>> BY <1>1
  <2> QED BY <1>2, <1>3, <1>4, <2>1, <2>2, <2>3, Linking
<1>6. ArgTypes' BY <1>0, <1>1, <1>2, <1>3 DEF TabInv, ArgTypes, Frame, TablePc, AddPc, DelPc, OwnPc, Buffers, Node
<1>7. Mutex' BY <1>0, <1>1, <1>2, <1>3, TabAssumption DEF TabInv, Mutex, Frame, TablePc, AddPc, DelPc, OwnPc
<1>8. Counted' BY <1>1 DEF TabInv, Counted
<1>9. TypeOK' BY <1>0, <1>1, <1>2 DEF TabInv, TypeOK, PcValues, Buffers
<1>10. Links' BY <1>0, <1>1, <1>2, <1>3 DEF TabInv, Links, Owners, Frame, TablePc, AddPc, DelPc, OwnPc
<1>11. Distinct' BY <1>0, <1>1, <1>2, <1>3 DEF TabInv, Distinct, Links, Linked, Frame, TablePc, AddPc, DelPc, OwnPc
<1>12. Getting' BY <1>0, <1>1, <1>2, <1>3, TabAssumption DEF TabInv, Getting, Frame
<1> QED BY <1>5, <1>6, <1>7, <1>8, <1>9, <1>10, <1>11, <1>12 DEF TabInv

LEMMA DelAllStep == ASSUME TabInv, NEW t \in Thread, DelAll(t) PROVE TabInv'
<1>e. PICK e : e = pt_entry[t] OBVIOUS
<1>0. /\ pc[t] = "del_all" /\ pc' = [pc EXCEPT ![t] = "del_put"] /\ pc'[t] = "del_put"
  BY DEF TabInv, TypeOK, DelAll, Goto, UnlockTable
<1>1. /\ link_all' = link_all \ {e} /\ entry_num_in_use' = entry_num_in_use - 1
      /\ UNCHANGED <<setup, mem_pool, mem, held, next_id, hash_tab_by_id, hash_tab_by_key, add_del_lock, id_line_lock, key_line_lock, arg, node, pt_entry>>
  BY <1>e DEF DelAll, locks, UnlockTable
<1>2. /\ e = pt_entry[t] /\ e \in Buffers
      /\ \A u \in Thread \ {t} : pc[u] \notin TablePc
      /\ e \in link_all
  BY <1>0, <1>e DEF TabInv, ArgTypes, Mutex, Links, TablePc, AddPc, DelPc, OwnPc
<1>3. Frame(t) BY <1>0, <1>1 DEF Frame, TabInv, TypeOK
<1>4. /\ TableRefers(e) /\ TableRefers(e)' /\ e \in InUse'
  <2>1. e \in hash_tab_by_id \cup hash_tab_by_key \/ pc[t] \in {"add_id", "add_all", "del_all", "del_put"}
    BY <1>0, <1>2 DEF TabInv, Links, TablePc, AddPc, DelPc, OwnPc
  <2>2. e \in hash_tab_by_id' \cup hash_tab_by_key' \/ (pc'[t] \in {"add_id", "add_all", "del_all", "del_put"} /\ pt_entry'[t] = e)
    BY <1>0, <1>1, <1>2 DEF TabInv, Links, TablePc, AddPc, DelPc, OwnPc
  <2>3. e \in InUse'
    BY <1>0, <1>1, <1>2, <2>2 DEF InUse, Linked, Owned, OwnPc
  <2> QED BY <1>2, <2>1, <2>2, <2>3 DEF TableRefers
<1>5. /\ PoolTypes' /\ Owners' /\ RefCntExact' /\ (InUse \subseteq Buffers)' /\ FreeCount' /\ FreeList' /\ ReadFirst'
  <2>1. pc[t] \in OwnPc \ {"add_build"} /\ pc'[t] \notin {"add_build", "put_free", "del_free", "add_alloc"} /\ (pc'[t] \in OwnPc => pt_entry'[t] = e)
    BY <1>0, <1>1, <1>2 DEF OwnPc
  <2>2. \A f : f # e => /\ f \in hash_tab_by_id' <=> f \in hash_tab_by_id
                        /\ f \in hash_tab_by_key' <=> f \in hash_tab_by_key
                        /\ f \in link_all' <=> f \in link_all
    BY <1>1
  <2>3. UNCHANGED <<setup, mem_pool, mem, held>> BY <1>1
  <2> QED BY <1>2, <1>3, <1>4, <2>1, <2>2, <2>3, Linking
<1>6. ArgTypes' BY <1>0, <1>1, <1>2, <1>3 DEF TabInv, ArgTypes, Frame, TablePc, AddPc, DelPc, OwnPc, Buffers, Node
<1>7. Mutex' BY <1>0, <1>1, <1>2, <1>3, TabAssumption DEF TabInv, Mutex, Frame, TablePc, AddPc, DelPc, OwnPc
<1>8. Counted'
  <2>1. IsFiniteSet(link_all)
    <3>1. link_all \subseteq 1 .. setup.max_entry_num BY DEF TabInv, TypeOK
    <3>2. setup.max_entry_num \in Nat BY TabAssumption DEF TabInv, TypeOK
    <3>3. IsFiniteSet(1 .. setup.max_entry_num) BY <3>2, FS_Interval
    <3> QED BY <3>1, <3>3, FS_Subset
  <2>2. Cardinality(link_all') = Cardinality(link_all) - 1
    BY <1>1, <1>2, <2>1, FS_RemoveElement
  <2> QED BY <1>1, <2>2 DEF TabInv, Counted
<1>9. TypeOK'
  <2>1. entry_num_in_use' \in Nat
    <3>1. IsFiniteSet(link_all')
      <4>1. link_all' \subseteq 1 .. setup.max_entry_num BY <1>1, <1>2 DEF TabInv, TypeOK, ArgTypes, OwnPc, Buffers
      <4>2. setup.max_entry_num \in Nat BY TabAssumption DEF TabInv, TypeOK
      <4>3. IsFiniteSet(1 .. setup.max_entry_num) BY <4>2, FS_Interval
      <4> QED BY <4>1, <4>3, FS_Subset
    <3> QED BY <1>8, <3>1, FS_CardinalityType DEF Counted
  <2> QED BY <1>0, <1>1, <1>2, <2>1 DEF TabInv, TypeOK, PcValues, Buffers
<1>10. Links' BY <1>0, <1>1, <1>2, <1>3 DEF TabInv, Links, Owners, Frame, TablePc, AddPc, DelPc, OwnPc
<1>11. Distinct' BY <1>0, <1>1, <1>2, <1>3 DEF TabInv, Distinct, Links, Linked, Frame, TablePc, AddPc, DelPc, OwnPc
<1>12. Getting' BY <1>0, <1>1, <1>2, <1>3, TabAssumption DEF TabInv, Getting, Frame
<1> QED BY <1>5, <1>6, <1>7, <1>8, <1>9, <1>10, <1>11, <1>12 DEF TabInv

LEMMA AddReturnStep == ASSUME TabInv, NEW t \in Thread, AddReturn(t) PROVE TabInv'
<1>e. PICK e : e = pt_entry[t] OBVIOUS
<1>0. /\ pc[t] = "add_all" /\ pc' = [pc EXCEPT ![t] = "idle"] /\ pc'[t] = "idle"
  BY DEF TabInv, TypeOK, AddReturn, Goto, UnlockTable
<1>1. /\ link_all' = link_all \cup {e} /\ entry_num_in_use' = entry_num_in_use + 1
      /\ UNCHANGED <<setup, mem_pool, mem, held, next_id, hash_tab_by_id, hash_tab_by_key, id_line_lock, key_line_lock>>
      /\ add_del_lock' = NoThread /\ arg' = [arg EXCEPT ![t] = NONE] /\ node' = [node EXCEPT ![t] = NONE]
      /\ pt_entry' = [pt_entry EXCEPT ![t] = NONE]
  BY <1>e DEF AddReturn, locks, UnlockTable
<1>2. /\ e = pt_entry[t] /\ e \in Buffers
      /\ \A u \in Thread \ {t} : pc[u] \notin TablePc
      /\ e \notin link_all
  BY <1>0, <1>e DEF TabInv, ArgTypes, Mutex, Links, TablePc, AddPc, DelPc, OwnPc
<1>3. Frame(t) BY <1>0, <1>1 DEF Frame, TabInv, TypeOK
<1>4. /\ TableRefers(e) /\ TableRefers(e)' /\ e \in InUse'
  <2>1. e \in hash_tab_by_id \cup hash_tab_by_key \/ pc[t] \in {"add_id", "add_all", "del_all", "del_put"}
    BY <1>0, <1>2 DEF TabInv, Links, TablePc, AddPc, DelPc, OwnPc
  <2>2. e \in hash_tab_by_id' \cup hash_tab_by_key' \/ (pc'[t] \in {"add_id", "add_all", "del_all", "del_put"} /\ pt_entry'[t] = e)
    BY <1>0, <1>1, <1>2 DEF TabInv, Links, TablePc, AddPc, DelPc, OwnPc
  <2>3. e \in InUse'
    BY <1>0, <1>1, <1>2, <2>2 DEF InUse, Linked, Owned, OwnPc
  <2> QED BY <1>2, <2>1, <2>2, <2>3 DEF TableRefers
<1>5. /\ PoolTypes' /\ Owners' /\ RefCntExact' /\ (InUse \subseteq Buffers)' /\ FreeCount' /\ FreeList' /\ ReadFirst'
  <2>1. pc[t] \in OwnPc \ {"add_build"} /\ pc'[t] \notin {"add_build", "put_free", "del_free", "add_alloc"} /\ (pc'[t] \in OwnPc => pt_entry'[t] = e)
    BY <1>0, <1>1, <1>2 DEF OwnPc
  <2>2. \A f : f # e => /\ f \in hash_tab_by_id' <=> f \in hash_tab_by_id
                        /\ f \in hash_tab_by_key' <=> f \in hash_tab_by_key
                        /\ f \in link_all' <=> f \in link_all
    BY <1>1
  <2>3. UNCHANGED <<setup, mem_pool, mem, held>> BY <1>1
  <2> QED BY <1>2, <1>3, <1>4, <2>1, <2>2, <2>3, Linking
<1>6. ArgTypes' BY <1>0, <1>1, <1>2, <1>3 DEF TabInv, ArgTypes, Frame, TablePc, AddPc, DelPc, OwnPc, Buffers, Node
<1>7. Mutex' BY <1>0, <1>1, <1>2, <1>3, TabAssumption DEF TabInv, Mutex, Frame, TablePc, AddPc, DelPc, OwnPc
<1>8. Counted'
  <2>1. IsFiniteSet(link_all)
    <3>1. link_all \subseteq 1 .. setup.max_entry_num BY DEF TabInv, TypeOK
    <3>2. setup.max_entry_num \in Nat BY TabAssumption DEF TabInv, TypeOK
    <3>3. IsFiniteSet(1 .. setup.max_entry_num) BY <3>2, FS_Interval
    <3> QED BY <3>1, <3>3, FS_Subset
  <2>2. Cardinality(link_all') = Cardinality(link_all) + 1
    BY <1>1, <1>2, <2>1, FS_AddElement
  <2> QED BY <1>1, <2>2 DEF TabInv, Counted
<1>9. TypeOK'
  <2>1. entry_num_in_use' \in Nat
    <3>1. IsFiniteSet(link_all')
      <4>1. link_all' \subseteq 1 .. setup.max_entry_num BY <1>1, <1>2 DEF TabInv, TypeOK, ArgTypes, OwnPc, Buffers
      <4>2. setup.max_entry_num \in Nat BY TabAssumption DEF TabInv, TypeOK
      <4>3. IsFiniteSet(1 .. setup.max_entry_num) BY <4>2, FS_Interval
      <4> QED BY <4>1, <4>3, FS_Subset
    <3> QED BY <1>8, <3>1, FS_CardinalityType DEF Counted
  <2> QED BY <1>0, <1>1, <1>2, <2>1 DEF TabInv, TypeOK, PcValues, Buffers
<1>10. Links' BY <1>0, <1>1, <1>2, <1>3 DEF TabInv, Links, Owners, Frame, TablePc, AddPc, DelPc, OwnPc
<1>11. Distinct' BY <1>0, <1>1, <1>2, <1>3 DEF TabInv, Distinct, Links, Linked, Frame, TablePc, AddPc, DelPc, OwnPc
<1>12. Getting' BY <1>0, <1>1, <1>2, <1>3, TabAssumption DEF TabInv, Getting, Frame
<1> QED BY <1>5, <1>6, <1>7, <1>8, <1>9, <1>10, <1>11, <1>12 DEF TabInv
-----------------------------------------------------------------------------
\* The entries that calls own are linked at most while the table refers to them.
LEMMA NotLinked ==
  ASSUME TabInv, NEW t \in Thread, pc[t] \in {"add_build", "add_id", "put_free", "del_put", "del_free"}
  PROVE  pt_entry[t] \notin Linked
<1>1. pt_entry[t] \notin link_all BY DEF TabInv, Links, OwnPc
<1>2. CASE \A u \in Thread : pc[u] \notin {"add_key", "add_all", "del_key", "del_all"}
  BY <1>1, <1>2 DEF TabInv, Links, Linked
<1>3. ASSUME NEW u \in Thread, pc[u] \in {"add_key", "add_all", "del_key", "del_all"}
      PROVE  pt_entry[t] \notin Linked
  <2>1. pt_entry[t] # pt_entry[u] BY <1>3 DEF TabInv, Owners, OwnPc
  <2> QED BY <1>1, <1>3, <2>1 DEF TabInv, Links, Linked
<1> QED BY <1>2, <1>3

LEMMA InUseFinite == ASSUME TabInv PROVE IsFiniteSet(InUse) /\ Cardinality(InUse) \in Nat
<1>1. setup.max_entry_num \in Nat BY TabAssumption DEF TabInv, TypeOK
<1>2. IsFiniteSet(1 .. setup.max_entry_num) BY <1>1, FS_Interval
<1>3. IsFiniteSet(InUse) BY <1>2, FS_Subset DEF TabInv, Buffers
<1> QED BY <1>3, FS_CardinalityType

PoolSet(num) ==
  [next : [0 .. num -> 0 .. num], prev : [0 .. num -> 0 .. num], buffer_num_free : Int,
   buffer_num_total : {num}]

\* What alloc_buffer and free_buffer make of a pool is a pool.
LEMMA TakeTypes ==
  ASSUME NEW num \in Nat, NEW p \in PoolSet(num), NEW n \in 0 .. num
  PROVE  alloc_take(p, n) \in PoolSet(num) /\ alloc_take(p, n).buffer_num_free = p.buffer_num_free - 1
<1> DEFINE q == list_del(p, n)
<1> DEFINE prev == [p.prev EXCEPT ![p.next[n]] = p.prev[n]]
<1> DEFINE next == [p.next EXCEPT ![p.prev[n]] = p.next[n]]
<1>1. p.next[n] \in 0 .. num /\ p.prev[n] \in 0 .. num BY DEF PoolSet
<1>2. prev \in [0 .. num -> 0 .. num] /\ next \in [0 .. num -> 0 .. num]
  BY <1>1 DEF PoolSet
<1>3. q = [p EXCEPT !.prev = prev, !.next = next] BY DEF list_del
<1>4. q \in PoolSet(num) /\ q.buffer_num_free = p.buffer_num_free
  <2> HIDE DEF prev, next, q
  <2> QED BY <1>2, <1>3 DEF PoolSet
<1> QED
  <2> HIDE DEF q
  <2>1. alloc_take(p, n) = [q EXCEPT !.buffer_num_free = @ - 1] BY DEF alloc_take, q
  <2>2. q.buffer_num_free - 1 \in Int BY <1>4 DEF PoolSet
  <2> QED BY <1>4, <2>1, <2>2 DEF PoolSet

LEMMA FreeTypes ==
  ASSUME NEW num \in Nat, NEW p \in PoolSet(num), NEW b \in 0 .. num
  PROVE  free_buffer(p, b) \in PoolSet(num) /\ free_buffer(p, b).buffer_num_free = p.buffer_num_free + 1
<1> DEFINE q == list_add_tail(p, b)
<1> DEFINE prev == [p.prev EXCEPT ![b] = p.prev[0], ![0] = b]
<1> DEFINE next == [p.next EXCEPT ![b] = 0, ![p.prev[0]] = b]
<1>1. 0 \in 0 .. num /\ p.prev[0] \in 0 .. num BY DEF PoolSet
<1>2. prev \in [0 .. num -> 0 .. num] /\ next \in [0 .. num -> 0 .. num]
  BY <1>1 DEF PoolSet
<1>3. q = [p EXCEPT !.prev = prev, !.next = next] BY DEF list_add_tail, Head0
<1>4. q \in PoolSet(num) /\ q.buffer_num_free = p.buffer_num_free
  <2> HIDE DEF prev, next, q
  <2> QED BY <1>2, <1>3 DEF PoolSet
<1> QED
  <2> HIDE DEF q
  <2>1. free_buffer(p, b) = [q EXCEPT !.buffer_num_free = @ + 1] BY DEF free_buffer, q
  <2>2. q.buffer_num_free + 1 \in Int BY <1>4 DEF PoolSet
  <2> QED BY <1>4, <2>1, <2>2 DEF PoolSet

\* Unlinking the first node of the list, and linking a node that was not on it.
LEMMA TakeCloses ==
  ASSUME NEW num \in Nat, NEW p \in PoolSet(num), NEW F \in SUBSET (0 .. num), Head0 \in F, Closed(p, F),
         NEW n, n = p.next[Head0], n # Head0
  PROVE  Closed(alloc_take(p, n), F \ {n})
<1>1. PICK q : q = list_del(p, n) OBVIOUS
<1>2. /\ n \in F /\ p.prev[n] = Head0 /\ p.next[n] \in F /\ p.next[n] # n
  BY DEF Closed, BothWays
<1>3. /\ q.prev = [p.prev EXCEPT ![p.next[n]] = Head0] /\ q.next = [p.next EXCEPT ![Head0] = p.next[n]]
  BY <1>1, <1>2 DEF list_del, PoolSet
<1>4. /\ \A m \in F : q.prev[m] = IF m = p.next[n] THEN Head0 ELSE p.prev[m]
      /\ \A m \in F : q.next[m] = IF m = Head0 THEN p.next[n] ELSE p.next[m]
  BY <1>3 DEF PoolSet
<1>5. BothWays(q, F \ {n})
  <2> SUFFICES ASSUME NEW m \in F \ {n}
               PROVE  /\ q.next[m] \in F \ {n} /\ q.prev[m] \in F \ {n}
                      /\ q.next[q.prev[m]] = m /\ q.prev[q.next[m]] = m
    BY DEF Closed, BothWays
  <2>1. m \in F /\ p.next[m] \in F /\ p.prev[m] \in F /\ p.next[p.prev[m]] = m /\ p.prev[p.next[m]] = m
    BY DEF Closed, BothWays
  <2>2. p.prev[p.next[n]] = n /\ p.next[p.prev[n]] = n BY <1>2 DEF Closed, BothWays
  <2>3. q.next[m] \in F \ {n}
    <3>1. CASE m = Head0 BY <1>2, <1>4, <3>1
    <3>2. CASE m # Head0
      <4>1. q.next[m] = p.next[m] BY <1>4, <2>1, <3>2
      <4>2. p.next[m] # n BY <1>2, <2>1, <3>2
      <4> QED BY <2>1, <4>1, <4>2
    <3> QED BY <3>1, <3>2
  <2>6. q.prev[m] \in F \ {n}
    <3>1. CASE m = p.next[n] BY <1>2, <1>4, <3>1
    <3>2. CASE m # p.next[n]
      <4>1. q.prev[m] = p.prev[m] BY <1>4, <2>1, <3>2
      <4>2. p.prev[m] # n BY <2>1, <3>2
      <4> QED BY <2>1, <4>1, <4>2
    <3> QED BY <3>1, <3>2
  <2>4. q.next[q.prev[m]] = m BY <1>2, <1>4, <2>1, <2>2, <2>6
  <2>5. q.prev[q.next[m]] = m BY <1>2, <1>4, <2>1, <2>2, <2>3
  <2> QED BY <2>3, <2>4, <2>5, <2>6
<1>6. q \in [next : [0 .. num -> 0 .. num], prev : [0 .. num -> 0 .. num], buffer_num_free : Int, buffer_num_total : {num}]
  BY <1>1, <1>2 DEF list_del, PoolSet
<1>7. alloc_take(p, n).prev = q.prev /\ alloc_take(p, n).next = q.next
  BY <1>1, <1>6 DEF alloc_take
<1>8. OneCircle(q, F \ {n})
  <2> SUFFICES ASSUME NEW S \in SUBSET (F \ {n}), Head0 \in S, ClosedUnderNext(q, S)
               PROVE  S = F \ {n}
    BY DEF OneCircle
  <2>1. ClosedUnderNext(p, S \cup {n})
    <3> SUFFICES ASSUME NEW m \in S \cup {n} PROVE p.next[m] \in S \cup {n}
      BY DEF ClosedUnderNext
    <3>1. CASE m = n BY <1>4, <3>1 DEF ClosedUnderNext
    <3>2. CASE m = Head0 BY <3>2
    <3>3. CASE m # n /\ m # Head0
      <4>1. m \in S /\ q.next[m] = p.next[m] BY <1>4, <3>3
      <4> QED BY <4>1 DEF ClosedUnderNext
    <3> QED BY <3>1, <3>2, <3>3
  <2>2. S \cup {n} = F BY <1>2, <2>1 DEF Closed, OneCircle
  <2> QED BY <2>2
<1> QED
  <2>1. BothWays(alloc_take(p, n), F \ {n}) BY <1>5, <1>7 DEF BothWays
  <2>2. OneCircle(alloc_take(p, n), F \ {n}) BY <1>7, <1>8 DEF OneCircle, ClosedUnderNext
  <2> QED BY <2>1, <2>2 DEF Closed

LEMMA FreeCloses ==
  ASSUME NEW num \in Nat, NEW p \in PoolSet(num), NEW F \in SUBSET (0 .. num), Head0 \in F, Closed(p, F),
         NEW b \in 0 .. num, b \notin F
  PROVE  /\ Closed(free_buffer(p, b), F \cup {b})
         /\ p.next[Head0] # Head0 => free_buffer(p, b).next[Head0] = p.next[Head0]
<1>1. PICK q : q = list_add_tail(p, b) OBVIOUS
<1>2. PICK l : l = p.prev[Head0] OBVIOUS
<1>3. l \in F /\ p.next[l] = Head0 /\ b # Head0 /\ l # b BY <1>2 DEF Closed, BothWays
<1>4. /\ q.prev = [p.prev EXCEPT ![b] = l, ![Head0] = b] /\ q.next = [p.next EXCEPT ![b] = Head0, ![l] = b]
  BY <1>1, <1>2 DEF list_add_tail, PoolSet
<1>5. /\ \A m \in F \cup {b} : q.prev[m] = IF m = Head0 THEN b ELSE IF m = b THEN l ELSE p.prev[m]
      /\ \A m \in F \cup {b} : q.next[m] = IF m = l THEN b ELSE IF m = b THEN Head0 ELSE p.next[m]
  BY <1>3, <1>4, ZenonT(60) DEF PoolSet
<1>6. BothWays(q, F \cup {b})
  <2> SUFFICES ASSUME NEW m \in F \cup {b}
               PROVE  /\ q.next[m] \in F \cup {b} /\ q.prev[m] \in F \cup {b}
                      /\ q.next[q.prev[m]] = m /\ q.prev[q.next[m]] = m
    BY DEF Closed, BothWays
  <2>1. CASE m = b BY <1>3, <1>5, <2>1
  <2>2. CASE m # b
    <3>1. m \in F /\ p.next[m] \in F /\ p.prev[m] \in F /\ p.next[p.prev[m]] = m /\ p.prev[p.next[m]] = m
      BY <2>2 DEF Closed, BothWays
    <3>2. q.next[m] \in F \cup {b} /\ q.prev[m] \in F \cup {b}
      BY <1>3, <1>5, <2>2, <3>1
    <3>3. q.next[q.prev[m]] = m BY <1>2, <1>3, <1>5, <2>2, <3>1, <3>2
    <3>4. q.prev[q.next[m]] = m BY <1>2, <1>3, <1>5, <2>2, <3>1, <3>2
    <3> QED BY <3>2, <3>3, <3>4
  <2> QED BY <2>1, <2>2
<1>7. q \in [next : [0 .. num -> 0 .. num], prev : [0 .. num -> 0 .. num], buffer_num_free : Int, buffer_num_total : {num}]
  BY <1>1 DEF list_add_tail, PoolSet, Head0
<1>8. free_buffer(p, b).prev = q.prev /\ free_buffer(p, b).next = q.next
  BY <1>1, <1>7 DEF free_buffer
<1>9. p.next[Head0] # Head0 => q.next[Head0] = p.next[Head0]
  BY <1>2, <1>3, <1>5 DEF Closed, BothWays
<1>10. OneCircle(q, F \cup {b})
  <2> SUFFICES ASSUME NEW S \in SUBSET (F \cup {b}), Head0 \in S, ClosedUnderNext(q, S)
               PROVE  S = F \cup {b}
    BY DEF OneCircle
  <2>1. ClosedUnderNext(p, S \ {b})
    <3> SUFFICES ASSUME NEW m \in S, m # b PROVE p.next[m] \in S \ {b}
      BY DEF ClosedUnderNext
    <3>1. m \in F /\ p.next[m] \in F /\ p.next[m] # b BY DEF Closed, BothWays
    <3>2. CASE m = l BY <1>3, <3>2
    <3>3. CASE m # l
      <4>1. q.next[m] = p.next[m] BY <1>5, <3>1, <3>3
      <4> QED BY <3>1, <4>1 DEF ClosedUnderNext
    <3> QED BY <3>2, <3>3
  <2>2. S \ {b} = F BY <1>3, <2>1 DEF Closed, OneCircle
  <2>3. l \in S /\ q.next[l] = b BY <1>3, <1>5, <2>2
  <2>4. b \in S BY <2>3 DEF ClosedUnderNext
  <2> QED BY <2>2, <2>4
<1> QED
  <2>1. BothWays(free_buffer(p, b), F \cup {b}) BY <1>6, <1>8 DEF BothWays
  <2>2. OneCircle(free_buffer(p, b), F \cup {b}) BY <1>8, <1>10 DEF OneCircle, ClosedUnderNext
  <2> QED BY <1>8, <1>9, <2>1, <2>2 DEF Closed

\* A buffer was counted when alloc_buffer had the mutex, and linked when it read the list:
\* then what it read is nobody's, because only who has add_del_lock takes one.
LEMMA Fresh == ASSUME TabInv, HeadNotTaken PROVE AllocFresh
<1> SUFFICES ASSUME NEW t \in Thread, pc[t] = "add_alloc", ~alloc_empty(mem_pool)
             PROVE  node[t] \in Buffers \ InUse
  BY DEF AllocFresh
<1>1. node[t] # Head0 BY DEF HeadNotTaken
<1>2. node[t] = mem_pool.next[Head0] BY <1>1 DEF TabInv, ReadFirst
<1>3. setup.max_entry_num \in Nat BY TabAssumption DEF TabInv, TypeOK
<1>4. Head0 \in Node \ InUse BY <1>3 DEF TabInv, Node, Buffers, Head0
<1>5. node[t] \in Node \ InUse BY <1>2, <1>4 DEF TabInv, FreeList, Closed, BothWays
<1> QED BY <1>1, <1>3, <1>5 DEF Node, Buffers, Head0

\* Who uses an entry.
LEMMA Users ==
  \A e : e \in InUse <=> \/ e \in Linked \/ \E t \in Thread : pc[t] \in OwnPc /\ pt_entry[t] = e
                         \/ e # NONE /\ \E t \in Thread : held[t] = e
BY DEF InUse, Owned

LEMMA AddAllocStep == ASSUME TabInv, HeadNotTaken, NEW t \in Thread, AddAlloc(t) PROVE TabInv'
<1>e. PICK n : n = node[t] OBVIOUS
<1>0. /\ pc[t] = "add_alloc" /\ pc' = [pc EXCEPT ![t] = "add_build"] /\ pc'[t] = "add_build"
  BY DEF TabInv, TypeOK, AddAlloc, Goto
<1>1. /\ mem_pool' = alloc_take(mem_pool, n) /\ pt_entry' = [pt_entry EXCEPT ![t] = n]
      /\ UNCHANGED <<setup, mem, hash_tab_by_id, hash_tab_by_key, link_all, entry_num_in_use, next_id, add_del_lock, id_line_lock, key_line_lock, arg, node, held>>
  BY <1>e DEF AddAlloc, table, locks
<1>2. /\ n \in Buffers /\ n \notin InUse /\ n \in Node /\ pt_entry'[t] = n
      /\ \A u \in Thread \ {t} : pc[u] \notin TablePc
      /\ Node \subseteq Int
  <2>1. n \in Buffers /\ n \notin InUse BY <1>0, <1>e, Fresh DEF AllocFresh, AddAlloc
  <2>2. pt_entry'[t] = n BY <1>1 DEF TabInv, TypeOK
  <2> QED BY <1>0, <1>1, <2>1, <2>2 DEF TabInv, Mutex, TablePc, AddPc, DelPc, OwnPc, Node, Buffers
<1>3. Frame(t) BY <1>0, <1>1 DEF Frame, TabInv, TypeOK
<1>u. \A f : f \in InUse' <=> f \in InUse \/ f = n
  BY <1>0, <1>1, <1>2, <1>3 DEF InUse, Owned, Linked, Frame, OwnPc
<1>v. InUse' = InUse \cup {n} BY <1>u
<1>4. TypeOK' BY <1>0, <1>1, <1>2, <1>3 DEF TabInv, TypeOK, PcValues, Node
<1>5. PoolTypes'
  <2>1. setup' = setup /\ setup.max_entry_num \in Nat BY <1>1, TabAssumption DEF TabInv, TypeOK
  <2> QED BY <1>1, <1>2, <2>1, TakeTypes DEF TabInv, PoolTypes, Node, PoolSet
<1>6. ArgTypes' BY <1>0, <1>1, <1>2, <1>3 DEF TabInv, ArgTypes, Frame, TablePc, AddPc, DelPc, OwnPc, Buffers, Node
<1>7. Mutex' BY <1>0, <1>1, <1>2, <1>3, TabAssumption DEF TabInv, Mutex, Frame, TablePc, AddPc, DelPc, OwnPc
<1>8. Links' BY <1>0, <1>1, <1>2, <1>3 DEF TabInv, Links, Frame, TablePc, AddPc, DelPc, OwnPc, InUse, Linked
<1>9. Counted' BY <1>0, <1>1, <1>2, <1>3 DEF TabInv, Counted
<1>10. Distinct' BY <1>0, <1>1, <1>2, <1>3 DEF TabInv, Distinct, Linked, Frame
<1>11. Getting' BY <1>0, <1>1, <1>2, <1>3, TabAssumption DEF TabInv, Getting, Frame
<1>12. Owners'
  <2>1. \A u \in Thread : pc[u] \in OwnPc => pt_entry[u] # n BY <1>2, Users
  <2>2. \A u \in Thread : held[u] # n BY <1>2, Users, TabAssumption
  <2>3. pt_entry'[t] = n /\ pc'[t] = "add_build" BY <1>0, <1>2
  <2> QED BY <1>0, <1>1, <1>3, <2>1, <2>2, <2>3 DEF TabInv, Owners, Frame, OwnPc
<1>13. RefCntExact'
  <2> DEFINE building == {pt_entry[u] : u \in {v \in Thread : pc[v] = "add_build"}}
  <2> SUFFICES ASSUME NEW f \in InUse' \ building'
               PROVE  mem'[f].ref_cnt = TablesRef(f)' + Cardinality({u \in Thread : held'[u] = f})
    BY DEF RefCntExact
  <2>1. f # n BY <1>0, <1>1, <1>2, <1>3
  <2>2. f \in InUse \ building BY <1>u, <2>1, <1>0, <1>3 DEF Frame
  <2>3. TableRefers(f)' <=> TableRefers(f) BY <1>0, <1>1, <1>2, <1>3 DEF TableRefers, Frame
  <2> QED BY <1>1, <2>2, <2>3 DEF TabInv, RefCntExact, TablesRef
<1>14. (InUse \subseteq Buffers)' BY <1>0, <1>1, <1>2, <1>3, <1>v DEF TabInv, Buffers
<1>15. FreeCount'
  <2>1. Cardinality(InUse \cup {n}) = Cardinality(InUse) + 1 BY <1>2, InUseFinite, FS_AddElement
  <2>3. setup.max_entry_num \in Nat /\ setup.garbage \in Int BY TabAssumption DEF TabInv, TypeOK
  <2>2. mem_pool'.buffer_num_free = mem_pool.buffer_num_free - 1
    <3>1. mem_pool \in PoolSet(setup.max_entry_num) /\ n \in 0 .. setup.max_entry_num
      BY <1>2 DEF TabInv, PoolTypes, PoolSet, Node
    <3> QED BY <1>1, <2>3, <3>1, TakeTypes
  <2> QED BY <1>1, <1>v, <2>1, <2>2, <2>3, InUseFinite DEF TabInv, FreeCount
<1>16. FreeList'
  <2>1. setup.max_entry_num \in Nat BY TabAssumption DEF TabInv, TypeOK
  <2>2. n = mem_pool.next[Head0] /\ n # Head0
    BY <1>0, <1>1, <1>2, <1>e, <2>1 DEF TabInv, ReadFirst, Buffers, Head0
  <2>3. mem_pool \in PoolSet(setup.max_entry_num) BY DEF TabInv, PoolTypes, PoolSet, Node
  <2>4. Node \ InUse \subseteq 0 .. setup.max_entry_num /\ Head0 \in Node \ InUse
    BY <2>1 DEF TabInv, Node, Buffers, Head0
  <2>5. Closed(alloc_take(mem_pool, n), (Node \ InUse) \ {n})
    BY <2>1, <2>2, <2>3, <2>4, TakeCloses DEF TabInv, FreeList
  <2>6. (Node \ InUse)' = (Node \ InUse) \ {n} BY <1>1, <1>v DEF Node
  <2> QED BY <1>1, <2>5, <2>6 DEF FreeList
<1>17. ReadFirst' BY <1>0, <1>2, <1>3 DEF ReadFirst, Frame, TablePc, AddPc, DelPc, OwnPc
<1> QED BY <1>4, <1>5, <1>6, <1>7, <1>8, <1>9, <1>10, <1>11, <1>12, <1>13, <1>14, <1>15, <1>16, <1>17 DEF TabInv

LEMMA DelFoundStep == ASSUME TabInv, NEW t \in Thread, DelFound(t) PROVE TabInv'
<1>0. /\ pc[t] = "del_search" /\ pc' = [pc EXCEPT ![t] = "del_id"] /\ pc'[t] = "del_id"
  BY DEF TabInv, TypeOK, DelFound, Goto
<1>1. PICK e \in hash_tab_by_key :
        /\ pt_entry' = [pt_entry EXCEPT ![t] = e]
        /\ UNCHANGED <<setup, mem_pool, mem, hash_tab_by_id, hash_tab_by_key, link_all, entry_num_in_use, next_id, add_del_lock, id_line_lock, key_line_lock, arg, node, held>>
  BY DEF DelFound, search_entry_by_key, table, locks
<1>2. /\ e \in Buffers /\ pt_entry'[t] = e /\ e \in link_all
      /\ \A u \in Thread \ {t} : pc[u] \notin TablePc
  <2>1. \A u \in Thread \ {t} : pc[u] \notin TablePc
    BY <1>0 DEF TabInv, Mutex, TablePc, AddPc, DelPc, OwnPc
  <2>2. e \in link_all BY <1>0, <2>1 DEF TabInv, Links, TablePc, AddPc, DelPc, OwnPc
  <2> QED BY <1>1, <2>1, <2>2 DEF TabInv, TypeOK, Buffers
<1>3. Frame(t) BY <1>0, <1>1 DEF Frame, TabInv, TypeOK
<1>u. InUse' = InUse
  <2>1. \A f : f \in InUse' <=> f \in InUse
    BY <1>0, <1>1, <1>2, <1>3 DEF InUse, Owned, Linked, Frame, OwnPc
  <2> QED BY <2>1
<1>4. TypeOK' BY <1>0, <1>1, <1>2, <1>3 DEF TabInv, TypeOK, PcValues, Buffers
<1>5. PoolTypes' BY <1>0, <1>1, <1>2, <1>3 DEF TabInv, PoolTypes, Node
<1>6. ArgTypes' BY <1>0, <1>1, <1>2, <1>3 DEF TabInv, ArgTypes, Frame, TablePc, AddPc, DelPc, OwnPc, Buffers, Node
<1>7. Mutex' BY <1>0, <1>1, <1>2, <1>3, TabAssumption DEF TabInv, Mutex, Frame, TablePc, AddPc, DelPc, OwnPc
<1>8. Links' BY <1>0, <1>1, <1>2, <1>3 DEF TabInv, Links, Frame, TablePc, AddPc, DelPc, OwnPc
<1>9. Counted' BY <1>0, <1>1, <1>2, <1>3 DEF TabInv, Counted
<1>10. Distinct' BY <1>0, <1>1, <1>2, <1>3 DEF TabInv, Distinct, Linked, Frame
<1>11. Getting' BY <1>0, <1>1, <1>2, <1>3, TabAssumption DEF TabInv, Getting, Frame
<1>12. Owners' BY <1>0, <1>1, <1>2, <1>3 DEF TabInv, Owners, Links, Frame, TablePc, AddPc, DelPc, OwnPc
<1>13. RefCntExact'
  <2> DEFINE building == {pt_entry[u] : u \in {v \in Thread : pc[v] = "add_build"}}
  <2> SUFFICES ASSUME NEW f \in InUse' \ building'
               PROVE  mem'[f].ref_cnt = TablesRef(f)' + Cardinality({u \in Thread : held'[u] = f})
    BY DEF RefCntExact
  <2>1. f \in InUse \ building BY <1>u, <1>0, <1>3 DEF Frame
  <2>2. TableRefers(f)' <=> TableRefers(f) BY <1>0, <1>1, <1>2, <1>3 DEF TableRefers, Frame
  <2> QED BY <1>1, <2>1, <2>2 DEF TabInv, RefCntExact, TablesRef
<1>14. (InUse \subseteq Buffers)' BY <1>0, <1>1, <1>2, <1>3, <1>u DEF TabInv, Buffers
<1>15. FreeCount' BY <1>0, <1>1, <1>2, <1>3, <1>u DEF TabInv, FreeCount
<1>16. FreeList' BY <1>1, <1>u DEF TabInv, FreeList, Closed, Node
<1>17. ReadFirst' BY <1>0, <1>1, <1>3 DEF TabInv, ReadFirst, Frame
<1> QED BY <1>4, <1>5, <1>6, <1>7, <1>8, <1>9, <1>10, <1>11, <1>12, <1>13, <1>14, <1>15, <1>16, <1>17 DEF TabInv

LEMMA AddBuildStep == ASSUME TabInv, NEW t \in Thread, AddBuild(t) PROVE TabInv'
<1>e. PICK e : e = pt_entry[t] OBVIOUS
<1>0. /\ pc[t] = "add_build" /\ pc' = [pc EXCEPT ![t] = "add_id"] /\ pc'[t] = "add_id"
  BY DEF TabInv, TypeOK, AddBuild, Goto
<1>a. PICK d \in FreeIds :
        /\ mem' = [mem EXCEPT ![e] = [id |-> IdAfter(d), key |-> arg[t], ref_cnt |-> 1]]
        /\ next_id' = IdAfter(d + 1)
  BY <1>e DEF AddBuild
<1>b. /\ IdAfter(d) \in Id /\ IdAfter(d + 1) \in Id /\ \A f \in hash_tab_by_id : mem[f].id # IdAfter(d)
  BY TabAssumption DEF FreeIds, IdAfter, Id, search_entry_by_id, TabInv, TypeOK
<1>1. PICK i \in Id : /\ mem' = [mem EXCEPT ![e] = [id |-> i, key |-> arg[t], ref_cnt |-> 1]]
                      /\ next_id' \in Id
                      /\ \A f \in hash_tab_by_id : mem[f].id # i
                      /\ UNCHANGED <<setup, mem_pool, hash_tab_by_id, hash_tab_by_key, link_all, entry_num_in_use, add_del_lock, id_line_lock, key_line_lock, arg, node, pt_entry, held>>
  BY <1>a, <1>b DEF AddBuild, table, locks
<1>2. /\ e = pt_entry[t] /\ e \in Buffers /\ e \notin Linked /\ arg[t] \in Key
      /\ mem'[e] = [id |-> i, key |-> arg[t], ref_cnt |-> 1] /\ \A f : f # e => mem'[f] = mem[f]
      /\ \A u \in Thread \ {t} : pc[u] \notin TablePc
      /\ hash_tab_by_id = link_all /\ hash_tab_by_key = link_all
  <2>1. \A u \in Thread \ {t} : pc[u] \notin TablePc
    BY <1>0 DEF TabInv, Mutex, TablePc, AddPc, DelPc, OwnPc
  <2>2. e = pt_entry[t] /\ e \in Buffers /\ arg[t] \in Key BY <1>0, <1>e DEF TabInv, ArgTypes, TablePc, AddPc, DelPc, OwnPc
  <2>3. e \notin Linked BY <1>0, <1>e, NotLinked
  <2>4. hash_tab_by_id = link_all /\ hash_tab_by_key = link_all
    BY <1>0, <2>1 DEF TabInv, Links, TablePc, AddPc, DelPc, OwnPc
  <2>5. mem'[e] = [id |-> i, key |-> arg[t], ref_cnt |-> 1] /\ \A f : f # e => mem'[f] = mem[f]
    BY <1>1, <2>2 DEF TabInv, TypeOK, Buffers
  <2> QED BY <2>1, <2>2, <2>3, <2>4, <2>5
<1>3. Frame(t) BY <1>0, <1>1 DEF Frame, TabInv, TypeOK
<1>u. InUse' = InUse
  <2>1. \A f : f \in InUse' <=> f \in InUse
    BY <1>0, <1>1, <1>2, <1>3 DEF InUse, Owned, Linked, Frame, OwnPc
  <2> QED BY <2>1
<1>4. TypeOK'
  <2>1. mem' \in [0 .. setup.max_entry_num -> [id : Id, key : Key \cup {0}, ref_cnt : Nat]]
    BY <1>0, <1>1, <1>2, <1>3 DEF TabInv, TypeOK
  <2> QED BY <1>0, <1>1, <1>2, <1>3, <2>1 DEF TabInv, TypeOK, PcValues
<1>5. PoolTypes' BY <1>0, <1>1, <1>2, <1>3 DEF TabInv, PoolTypes, Node
<1>6. ArgTypes' BY <1>0, <1>1, <1>2, <1>3 DEF TabInv, ArgTypes, Frame, TablePc, AddPc, DelPc, OwnPc, Buffers, Node
<1>7. Mutex' BY <1>0, <1>1, <1>2, <1>3, TabAssumption DEF TabInv, Mutex, Frame, TablePc, AddPc, DelPc, OwnPc
<1>8. Links' BY <1>0, <1>1, <1>2, <1>3 DEF TabInv, Links, Frame, TablePc, AddPc, DelPc, OwnPc
<1>9. Counted' BY <1>0, <1>1, <1>2, <1>3 DEF TabInv, Counted
<1>10. Distinct' BY <1>0, <1>1, <1>2, <1>3 DEF TabInv, Distinct, Linked, Frame, TablePc, AddPc, DelPc, OwnPc
<1>11. Getting' BY <1>0, <1>1, <1>2, <1>3, TabAssumption DEF TabInv, Getting, Frame, Linked
<1>12. Owners' BY <1>0, <1>1, <1>2, <1>3 DEF TabInv, Owners, Frame, OwnPc
<1>13. RefCntExact'
  <2> DEFINE building == {pt_entry[u] : u \in {v \in Thread : pc[v] = "add_build"}}
  <2> SUFFICES ASSUME NEW f \in InUse' \ building'
               PROVE  mem'[f].ref_cnt = TablesRef(f)' + Cardinality({u \in Thread : held'[u] = f})
    BY DEF RefCntExact
  <2>1. CASE f = e
    <3>1. Cardinality({u \in Thread : held'[u] = f}) = 0
      <4>1. {u \in Thread : held'[u] = f} = {} BY <1>0, <1>1, <1>2, <1>3, <2>1 DEF TabInv, Owners
      <4> QED BY <4>1, FS_EmptySet
    <3>2. TableRefers(f)' BY <1>0, <1>1, <1>2, <1>3, <2>1 DEF TableRefers
    <3> QED BY <1>2, <2>1, <3>1, <3>2 DEF TablesRef
  <2>2. CASE f # e
    <3>1. f \in InUse \ building BY <1>0, <1>1, <1>2, <1>3, <1>u, <2>2 DEF Frame
    <3>2. TableRefers(f)' <=> TableRefers(f) BY <1>0, <1>1, <1>2, <1>3, <2>2 DEF TableRefers, Frame
    <3> QED BY <1>1, <1>2, <2>2, <3>1, <3>2 DEF TabInv, RefCntExact, TablesRef
  <2> QED BY <2>1, <2>2
<1>14. (InUse \subseteq Buffers)' BY <1>0, <1>1, <1>2, <1>3, <1>u DEF TabInv, Buffers
<1>15. FreeCount' BY <1>0, <1>1, <1>2, <1>3, <1>u DEF TabInv, FreeCount
<1>16. FreeList' BY <1>1, <1>u DEF TabInv, FreeList, Closed, Node
<1>17. ReadFirst' BY <1>0, <1>1, <1>3 DEF TabInv, ReadFirst, Frame
<1> QED BY <1>4, <1>5, <1>6, <1>7, <1>8, <1>9, <1>10, <1>11, <1>12, <1>13, <1>14, <1>15, <1>16, <1>17 DEF TabInv
-----------------------------------------------------------------------------
\* What counting up or down does to the entries.
LEMMA Counts ==
  ASSUME TabInv, NEW e \in Buffers, NEW n \in Nat, mem' = [mem EXCEPT ![e].ref_cnt = n]
  PROVE  /\ mem' \in [0 .. setup.max_entry_num -> [id : Id, key : Key \cup {0}, ref_cnt : Nat]]
         /\ \A f \in Buffers : mem'[f].id = mem[f].id /\ mem'[f].key = mem[f].key
         /\ mem'[e].ref_cnt = n /\ \A f : f # e => mem'[f] = mem[f]
<1>1. mem \in [0 .. setup.max_entry_num -> [id : Id, key : Key \cup {0}, ref_cnt : Nat]] /\ e \in 0 .. setup.max_entry_num
  BY DEF TabInv, TypeOK, Buffers
<1>2. mem[e] \in [id : Id, key : Key \cup {0}, ref_cnt : Nat] BY <1>1
<1> DEFINE m == [mem[e] EXCEPT !.ref_cnt = n]
<1>3. /\ m \in [id : Id, key : Key \cup {0}, ref_cnt : Nat] /\ m.id = mem[e].id /\ m.key = mem[e].key
      /\ m.ref_cnt = n
  BY <1>2
<1>4. mem' = [mem EXCEPT ![e] = m] BY <1>1
<1> HIDE DEF m
<1> QED BY <1>1, <1>3, <1>4 DEF Buffers

\* What RefCntExact says of one entry.
LEMMA RefCnt ==
  ASSUME TabInv, NEW e \in InUse, \A t \in Thread : pc[t] = "add_build" => pt_entry[t] # e
  PROVE  /\ mem[e].ref_cnt = TablesRef(e) + Cardinality(Holders(e))
         /\ Cardinality(Holders(e)) \in Nat /\ TablesRef(e) \in {0, 1} /\ mem[e].ref_cnt \in Nat
<1>1. mem[e].ref_cnt = TablesRef(e) + Cardinality(Holders(e))
  BY DEF TabInv, RefCntExact, Holders
<1>2. Cardinality(Holders(e)) \in Nat BY HoldersCount
<1>3. TablesRef(e) \in {0, 1} BY DEF TablesRef
<1> QED BY <1>1, <1>2, <1>3

\* Whom an entry belongs to that a call frees, or puts for the table.
LEMMA OnlyOwner ==
  ASSUME TabInv, NEW t \in Thread, pc[t] \in {"put_free", "del_put", "del_free"}, NEW e, e = pt_entry[t]
  PROVE  /\ e \in Buffers /\ e \in InUse /\ e \notin Linked /\ e # NONE
         /\ \A u \in Thread : u # t /\ pc[u] \in OwnPc \cup {"get_by_key", "get_by_id"} => pt_entry[u] # e
         /\ pc[t] # "del_put" => \A u \in Thread : held[u] # e
<1>1. e \in Buffers /\ e # NONE
  <2>1. e \in Buffers BY DEF TabInv, ArgTypes, OwnPc
  <2>2. setup.max_entry_num \in Nat BY TabAssumption DEF TabInv, TypeOK
  <2> QED BY <2>1, <2>2, TabAssumption DEF Buffers
<1>2. e \notin Linked BY NotLinked
<1>3. e \in InUse BY Users DEF OwnPc
<1>4. \A u \in Thread : u # t /\ pc[u] \in OwnPc => pt_entry[u] # e
  BY DEF TabInv, Owners, OwnPc
<1>5. \A u \in Thread : pc[u] \in {"get_by_key", "get_by_id"} => pt_entry[u] # e
  BY <1>2 DEF TabInv, Getting, Linked
<1>6. pc[t] # "del_put" => \A u \in Thread : held[u] # e
  BY DEF TabInv, Owners
<1> QED BY <1>1, <1>2, <1>3, <1>4, <1>5, <1>6

LEMMA DelReturnStep == ASSUME TabInv, NEW t \in Thread, DelReturn(t) PROVE TabInv'
<1>e. PICK e : e = pt_entry[t] OBVIOUS
<1>0. /\ pc[t] = "del_put" /\ pc' = [pc EXCEPT ![t] = "idle"] /\ pc'[t] = "idle"
  BY DEF TabInv, TypeOK, DelReturn, Goto, UnlockTable
<1>m. mem' = [mem EXCEPT ![e].ref_cnt = mem[e].ref_cnt - 1] /\ mem[e].ref_cnt # 1
  BY <1>e DEF DelReturn, dec_entry_ref_cnt
<1>o. /\ e \in Buffers /\ e \in InUse /\ e \notin Linked /\ e # NONE
      /\ \A u \in Thread : u # t /\ pc[u] \in OwnPc \cup {"get_by_key", "get_by_id"} => pt_entry[u] # e
  BY <1>0, <1>e, OnlyOwner
<1>r. /\ mem[e].ref_cnt = 1 + Cardinality(Holders(e)) /\ Cardinality(Holders(e)) \in Nat
      /\ mem[e].ref_cnt # 1 /\ mem[e].ref_cnt - 1 \in Nat /\ TableRefers(e)
  <2>1. TableRefers(e) BY <1>0, <1>e DEF TableRefers
  <2>2. \A u \in Thread : pc[u] = "add_build" => pt_entry[u] # e
    BY <1>0, <1>o DEF OwnPc
  <2> QED BY <1>m, <1>o, <2>1, <2>2, RefCnt DEF TablesRef
<1>c. /\ mem' \in [0 .. setup.max_entry_num -> [id : Id, key : Key \cup {0}, ref_cnt : Nat]]
      /\ \A f \in Buffers : mem'[f].id = mem[f].id /\ mem'[f].key = mem[f].key
      /\ mem'[e].ref_cnt = mem[e].ref_cnt - 1 /\ \A f : f # e => mem'[f] = mem[f]
  BY <1>m, <1>o, <1>r, Counts
<1>1. /\ add_del_lock' = NoThread /\ arg' = [arg EXCEPT ![t] = NONE] /\ node' = [node EXCEPT ![t] = NONE]
      /\ pt_entry' = [pt_entry EXCEPT ![t] = NONE]
      /\ UNCHANGED <<setup, mem_pool, hash_tab_by_id, hash_tab_by_key, link_all, entry_num_in_use, next_id, id_line_lock, key_line_lock, held>>
  BY DEF DelReturn, UnlockTable, table, locks
<1>2. /\ e = pt_entry[t] /\ e \in Buffers /\ e \in InUse /\ e \notin Linked /\ e # NONE
      /\ \A u \in Thread : u # t /\ pc[u] \in OwnPc \cup {"get_by_key", "get_by_id"} => pt_entry[u] # e
      /\ \A u \in Thread \ {t} : pc[u] \notin TablePc
      /\ \A f \in Buffers : mem'[f].id = mem[f].id /\ mem'[f].key = mem[f].key
      /\ \A f : f # e => mem'[f] = mem[f]
      /\ Linked \subseteq Buffers
  <2>1. \A u \in Thread \ {t} : pc[u] \notin TablePc
    BY <1>0 DEF TabInv, Mutex, TablePc, AddPc, DelPc, OwnPc
  <2> QED BY <1>e, <1>o, <1>c, <2>1 DEF TabInv, InUse
<1>3. Frame(t) BY <1>0, <1>1 DEF Frame, TabInv, TypeOK
<1>u. InUse' = InUse
  <2>1. PICK u \in Thread : held[u] = e
    <3>1. Cardinality(Holders(e)) > 0 BY <1>r
    <3> QED BY <3>1, HoldersCount
  <2>2. \A f : f # e => (f \in InUse' <=> f \in InUse)
    BY <1>0, <1>1, <1>2, <1>3 DEF InUse, Owned, Linked, Frame, OwnPc
  <2>3. e \in InUse' BY <1>0, <1>1, <1>2, <1>3, <2>1 DEF InUse
  <2> QED BY <1>2, <2>2, <2>3
<1>4. TypeOK' BY <1>0, <1>1, <1>2, <1>3, <1>c DEF TabInv, TypeOK, PcValues, Buffers
<1>5. PoolTypes' BY <1>0, <1>1, <1>2, <1>3 DEF TabInv, PoolTypes, Node
<1>6. ArgTypes' BY <1>0, <1>1, <1>2, <1>3 DEF TabInv, ArgTypes, Frame, TablePc, AddPc, DelPc, OwnPc, Buffers, Node
<1>7. Mutex' BY <1>0, <1>1, <1>2, <1>3, TabAssumption DEF TabInv, Mutex, Frame, TablePc, AddPc, DelPc, OwnPc
<1>8. Links' BY <1>0, <1>1, <1>2, <1>3 DEF TabInv, Links, Frame, TablePc, AddPc, DelPc, OwnPc
<1>9. Counted' BY <1>0, <1>1, <1>2, <1>3 DEF TabInv, Counted
<1>10. Distinct' BY <1>0, <1>1, <1>2, <1>3 DEF TabInv, TypeOK, Distinct, Linked, Frame, Buffers, TablePc, AddPc, DelPc, OwnPc
<1>11. Getting' BY <1>0, <1>1, <1>2, <1>3, TabAssumption DEF TabInv, TypeOK, Getting, Frame, Buffers
<1>12. Owners' BY <1>0, <1>1, <1>2, <1>3 DEF TabInv, Owners, Frame, OwnPc
<1>13. RefCntExact'
  <2> DEFINE building == {pt_entry[u] : u \in {v \in Thread : pc[v] = "add_build"}}
  <2> SUFFICES ASSUME NEW f \in InUse' \ building'
               PROVE  mem'[f].ref_cnt = TablesRef(f)' + Cardinality({u \in Thread : held'[u] = f})
    BY DEF RefCntExact
  <2>h. {u \in Thread : held'[u] = f} = Holders(f) BY <1>1 DEF Holders
  <2>1. CASE f = e
    <3>1. ~TableRefers(f)'
      BY <1>0, <1>1, <1>2, <1>3, <2>1 DEF TableRefers, Frame, OwnPc, Linked
    <3>2. TablesRef(f)' = 0 BY <3>1 DEF TablesRef
    <3>3. Cardinality({u \in Thread : held'[u] = f}) = Cardinality(Holders(e)) BY <2>h, <2>1
    <3>4. mem'[f].ref_cnt = Cardinality(Holders(e)) BY <1>c, <1>r, <2>1
    <3> QED BY <1>r, <3>2, <3>3, <3>4
  <2>2. CASE f # e
    <3>1. f \in InUse \ building BY <1>0, <1>1, <1>2, <1>3, <1>u, <2>2 DEF Frame
    <3>2. TableRefers(f)' <=> TableRefers(f) BY <1>0, <1>1, <1>2, <1>3, <2>2 DEF TableRefers, Frame
    <3> QED BY <1>1, <1>2, <2>2, <2>h, <3>1, <3>2 DEF TabInv, RefCntExact, TablesRef, Holders
  <2> QED BY <2>1, <2>2
<1>14. (InUse \subseteq Buffers)' BY <1>0, <1>1, <1>2, <1>3, <1>u DEF TabInv, Buffers
<1>15. FreeCount' BY <1>0, <1>1, <1>2, <1>3, <1>u DEF TabInv, FreeCount
<1>16. FreeList' BY <1>1, <1>u DEF TabInv, FreeList, Closed, Node
<1>17. ReadFirst' BY <1>0, <1>1, <1>3 DEF TabInv, ReadFirst, Frame
<1> QED BY <1>4, <1>5, <1>6, <1>7, <1>8, <1>9, <1>10, <1>11, <1>12, <1>13, <1>14, <1>15, <1>16, <1>17 DEF TabInv

LEMMA DelLastRefStep == ASSUME TabInv, NEW t \in Thread, DelLastRef(t) PROVE TabInv'
<1>e. PICK e : e = pt_entry[t] OBVIOUS
<1>0. /\ pc[t] = "del_put" /\ pc' = [pc EXCEPT ![t] = "del_free"] /\ pc'[t] = "del_free"
  BY DEF TabInv, TypeOK, DelLastRef, Goto, UnlockTable
<1>m. mem' = [mem EXCEPT ![e].ref_cnt = mem[e].ref_cnt - 1] /\ mem[e].ref_cnt = 1
  BY <1>e DEF DelLastRef, dec_entry_ref_cnt
<1>o. /\ e \in Buffers /\ e \in InUse /\ e \notin Linked /\ e # NONE
      /\ \A u \in Thread : u # t /\ pc[u] \in OwnPc \cup {"get_by_key", "get_by_id"} => pt_entry[u] # e
  BY <1>0, <1>e, OnlyOwner
<1>r. /\ mem[e].ref_cnt = 1 + Cardinality(Holders(e)) /\ Cardinality(Holders(e)) \in Nat
      /\ mem[e].ref_cnt = 1 /\ mem[e].ref_cnt - 1 \in Nat /\ TableRefers(e)
  <2>1. TableRefers(e) BY <1>0, <1>e DEF TableRefers
  <2>2. \A u \in Thread : pc[u] = "add_build" => pt_entry[u] # e
    BY <1>0, <1>o DEF OwnPc
  <2> QED BY <1>m, <1>o, <2>1, <2>2, RefCnt DEF TablesRef
<1>c. /\ mem' \in [0 .. setup.max_entry_num -> [id : Id, key : Key \cup {0}, ref_cnt : Nat]]
      /\ \A f \in Buffers : mem'[f].id = mem[f].id /\ mem'[f].key = mem[f].key
      /\ mem'[e].ref_cnt = mem[e].ref_cnt - 1 /\ \A f : f # e => mem'[f] = mem[f]
  BY <1>m, <1>o, <1>r, Counts
<1>1. /\ UNCHANGED <<setup, mem_pool, hash_tab_by_id, hash_tab_by_key, link_all, entry_num_in_use, next_id, add_del_lock, id_line_lock, key_line_lock, arg, node, pt_entry, held>>
  BY DEF DelLastRef, UnlockTable, table, locks
<1>2. /\ e = pt_entry[t] /\ e \in Buffers /\ e \in InUse /\ e \notin Linked /\ e # NONE
      /\ \A u \in Thread : u # t /\ pc[u] \in OwnPc \cup {"get_by_key", "get_by_id"} => pt_entry[u] # e
      /\ \A u \in Thread \ {t} : pc[u] \notin TablePc
      /\ \A f \in Buffers : mem'[f].id = mem[f].id /\ mem'[f].key = mem[f].key
      /\ \A f : f # e => mem'[f] = mem[f]
      /\ Linked \subseteq Buffers
  <2>1. \A u \in Thread \ {t} : pc[u] \notin TablePc
    BY <1>0 DEF TabInv, Mutex, TablePc, AddPc, DelPc, OwnPc
  <2> QED BY <1>e, <1>o, <1>c, <2>1 DEF TabInv, InUse
<1>3. Frame(t) BY <1>0, <1>1 DEF Frame, TabInv, TypeOK
<1>u. InUse' = InUse
  <2>1. \A f : f \in InUse' <=> f \in InUse
    BY <1>0, <1>1, <1>2, <1>3 DEF InUse, Owned, Linked, Frame, OwnPc
  <2> QED BY <2>1
<1>v. \A u \in Thread : held[u] # e
  BY <1>r, HoldersCount
<1>4. TypeOK' BY <1>0, <1>1, <1>2, <1>3, <1>c DEF TabInv, TypeOK, PcValues, Buffers
<1>5. PoolTypes' BY <1>0, <1>1, <1>2, <1>3 DEF TabInv, PoolTypes, Node
<1>6. ArgTypes' BY <1>0, <1>1, <1>2, <1>3 DEF TabInv, ArgTypes, Frame, TablePc, AddPc, DelPc, OwnPc, Buffers, Node
<1>7. Mutex' BY <1>0, <1>1, <1>2, <1>3, TabAssumption DEF TabInv, Mutex, Frame, TablePc, AddPc, DelPc, OwnPc
<1>8. Links' BY <1>0, <1>1, <1>2, <1>3 DEF TabInv, Links, Frame, TablePc, AddPc, DelPc, OwnPc
<1>9. Counted' BY <1>0, <1>1, <1>2, <1>3 DEF TabInv, Counted
<1>10. Distinct' BY <1>0, <1>1, <1>2, <1>3 DEF TabInv, TypeOK, Distinct, Linked, Frame, Buffers, TablePc, AddPc, DelPc, OwnPc
<1>11. Getting' BY <1>0, <1>1, <1>2, <1>3, TabAssumption DEF TabInv, TypeOK, Getting, Frame, Buffers
<1>12. Owners' BY <1>0, <1>1, <1>2, <1>3, <1>v DEF TabInv, Owners, Frame, OwnPc
<1>13. RefCntExact'
  <2> DEFINE building == {pt_entry[u] : u \in {v \in Thread : pc[v] = "add_build"}}
  <2> SUFFICES ASSUME NEW f \in InUse' \ building'
               PROVE  mem'[f].ref_cnt = TablesRef(f)' + Cardinality({u \in Thread : held'[u] = f})
    BY DEF RefCntExact
  <2>h. {u \in Thread : held'[u] = f} = Holders(f) BY <1>1 DEF Holders
  <2>1. CASE f = e
    <3>1. ~TableRefers(f)'
      BY <1>0, <1>1, <1>2, <1>3, <2>1 DEF TableRefers, Frame, OwnPc, Linked
    <3>2. TablesRef(f)' = 0 BY <3>1 DEF TablesRef
    <3>3. Cardinality({u \in Thread : held'[u] = f}) = Cardinality(Holders(e)) BY <2>h, <2>1
    <3>4. mem'[f].ref_cnt = Cardinality(Holders(e)) BY <1>c, <1>r, <2>1
    <3> QED BY <1>r, <3>2, <3>3, <3>4
  <2>2. CASE f # e
    <3>1. f \in InUse \ building BY <1>0, <1>1, <1>2, <1>3, <1>u, <2>2 DEF Frame
    <3>2. TableRefers(f)' <=> TableRefers(f) BY <1>0, <1>1, <1>2, <1>3, <2>2 DEF TableRefers, Frame
    <3> QED BY <1>1, <1>2, <2>2, <2>h, <3>1, <3>2 DEF TabInv, RefCntExact, TablesRef, Holders
  <2> QED BY <2>1, <2>2
<1>14. (InUse \subseteq Buffers)' BY <1>0, <1>1, <1>2, <1>3, <1>u DEF TabInv, Buffers
<1>15. FreeCount' BY <1>0, <1>1, <1>2, <1>3, <1>u DEF TabInv, FreeCount
<1>16. FreeList' BY <1>1, <1>u DEF TabInv, FreeList, Closed, Node
<1>17. ReadFirst' BY <1>0, <1>1, <1>3 DEF TabInv, ReadFirst, Frame
<1> QED BY <1>4, <1>5, <1>6, <1>7, <1>8, <1>9, <1>10, <1>11, <1>12, <1>13, <1>14, <1>15, <1>16, <1>17 DEF TabInv

LEMMA DelFreeStep == ASSUME TabInv, NEW t \in Thread, DelFree(t) PROVE TabInv'
<1>e. PICK e : e = pt_entry[t] OBVIOUS
<1>0. /\ pc[t] = "del_free" /\ pc' = [pc EXCEPT ![t] = "idle"] /\ pc'[t] = "idle"
  BY DEF TabInv, TypeOK, DelFree, Goto, UnlockTable
<1>1. /\ mem' = [mem EXCEPT ![e] = Blank] /\ mem_pool' = free_buffer(mem_pool, e)
      /\ add_del_lock' = NoThread /\ arg' = [arg EXCEPT ![t] = NONE] /\ node' = [node EXCEPT ![t] = NONE]
      /\ pt_entry' = [pt_entry EXCEPT ![t] = NONE]
      /\ UNCHANGED <<setup, hash_tab_by_id, hash_tab_by_key, link_all, entry_num_in_use, next_id, id_line_lock, key_line_lock, held>>
  BY <1>e DEF DelFree, Free, UnlockTable, table, locks
<1>2. /\ e = pt_entry[t] /\ e \in Buffers /\ e \in InUse /\ e \notin Linked /\ e # NONE
      /\ \A u \in Thread : u # t /\ pc[u] \in OwnPc \cup {"get_by_key", "get_by_id"} => pt_entry[u] # e
      /\ \A u \in Thread : held[u] # e
      /\ \A f : f # e => mem'[f] = mem[f]
      /\ Linked \subseteq Buffers
  <2>1. \A f : f # e => mem'[f] = mem[f] BY <1>1 DEF TabInv, TypeOK
  <2> QED BY <1>0, <1>e, <2>1, OnlyOwner DEF TabInv, InUse
<1>3. Frame(t) BY <1>0, <1>1 DEF Frame, TabInv, TypeOK
<1>p. /\ setup.max_entry_num \in Nat /\ setup.garbage \in Int
      /\ mem_pool' \in PoolSet(setup.max_entry_num)
      /\ mem_pool'.buffer_num_free = mem_pool.buffer_num_free + 1
  <2>1. setup.max_entry_num \in Nat /\ setup.garbage \in Int BY TabAssumption DEF TabInv, TypeOK
  <2>2. mem_pool \in PoolSet(setup.max_entry_num) /\ e \in 0 .. setup.max_entry_num
    BY <1>2 DEF TabInv, PoolTypes, PoolSet, Node, Buffers
  <2> QED BY <1>1, <2>1, <2>2, FreeTypes
<1>u. \A f : f \in InUse' <=> f \in InUse /\ f # e
  BY <1>0, <1>1, <1>2, <1>3 DEF InUse, Owned, Linked, Frame, OwnPc
<1>v. InUse' = InUse \ {e} BY <1>u
<1>f. /\ Closed(mem_pool', (Node \ InUse) \cup {e})
      /\ mem_pool.next[Head0] # Head0 => mem_pool'.next[Head0] = mem_pool.next[Head0]
  <2>1. mem_pool \in PoolSet(setup.max_entry_num) /\ e \in 0 .. setup.max_entry_num
    BY <1>2 DEF TabInv, PoolTypes, PoolSet, Node, Buffers
  <2>2. /\ Node \ InUse \subseteq 0 .. setup.max_entry_num /\ Head0 \in Node \ InUse
        /\ e \notin Node \ InUse /\ Closed(mem_pool, Node \ InUse)
    BY <1>2, <1>p DEF TabInv, Node, Buffers, Head0, FreeList
  <2> QED BY <1>1, <1>p, <2>1, <2>2, FreeCloses
<1>4. TypeOK'
  <2>1. mem' \in [0 .. setup.max_entry_num -> [id : Id, key : Key \cup {0}, ref_cnt : Nat]]
    <3>1. Blank \in [id : Id, key : Key \cup {0}, ref_cnt : Nat] BY TabAssumption DEF Blank, Id
    <3> QED BY <1>1, <3>1 DEF TabInv, TypeOK
  <2> QED BY <1>0, <1>1, <1>2, <1>3, <2>1 DEF TabInv, TypeOK, PcValues, Buffers
<1>5. PoolTypes' BY <1>0, <1>1, <1>2, <1>3, <1>p DEF PoolTypes, PoolSet, Node
<1>6. ArgTypes' BY <1>0, <1>1, <1>2, <1>3 DEF TabInv, ArgTypes, Frame, TablePc, AddPc, DelPc, OwnPc, Buffers, Node
<1>7. Mutex' BY <1>0, <1>1, <1>2, <1>3, TabAssumption DEF TabInv, Mutex, Frame, TablePc, AddPc, DelPc, OwnPc
<1>8. Links' BY <1>0, <1>1, <1>2, <1>3 DEF TabInv, Links, Frame, TablePc, AddPc, DelPc, OwnPc
<1>9. Counted' BY <1>0, <1>1, <1>2, <1>3 DEF TabInv, Counted
<1>10. Distinct' BY <1>0, <1>1, <1>2, <1>3 DEF TabInv, TypeOK, Distinct, Linked, Frame, TablePc, AddPc, DelPc, OwnPc
<1>11. Getting' BY <1>0, <1>1, <1>2, <1>3, TabAssumption DEF TabInv, TypeOK, Getting, Frame, Linked
<1>12. Owners' BY <1>0, <1>1, <1>2, <1>3 DEF TabInv, Owners, Frame, OwnPc
<1>13. RefCntExact'
  <2> DEFINE building == {pt_entry[u] : u \in {v \in Thread : pc[v] = "add_build"}}
  <2> SUFFICES ASSUME NEW f \in InUse' \ building'
               PROVE  mem'[f].ref_cnt = TablesRef(f)' + Cardinality({u \in Thread : held'[u] = f})
    BY DEF RefCntExact
  <2>1. f # e BY <1>u
  <2>2. f \in InUse \ building BY <1>0, <1>1, <1>2, <1>3, <1>u DEF Frame
  <2>3. TableRefers(f)' <=> TableRefers(f) BY <1>0, <1>1, <1>2, <1>3, <2>1 DEF TableRefers, Frame
  <2> QED BY <1>1, <1>2, <2>1, <2>2, <2>3 DEF TabInv, RefCntExact, TablesRef
<1>14. (InUse \subseteq Buffers)' BY <1>0, <1>1, <1>2, <1>3, <1>v DEF TabInv, Buffers
<1>15. FreeCount'
  <2>1. Cardinality(InUse \ {e}) = Cardinality(InUse) - 1 BY <1>2, InUseFinite, FS_RemoveElement
  <2> QED BY <1>1, <1>v, <1>p, <2>1, InUseFinite DEF TabInv, FreeCount
<1>16. FreeList'
  <2>1. (Node \ InUse)' = (Node \ InUse) \cup {e} BY <1>1, <1>2, <1>v DEF Node, Buffers
  <2> QED BY <1>f, <2>1 DEF FreeList
<1>17. ReadFirst' BY <1>0, <1>1, <1>3, <1>f DEF TabInv, ReadFirst, Frame
<1> QED BY <1>4, <1>5, <1>6, <1>7, <1>8, <1>9, <1>10, <1>11, <1>12, <1>13, <1>14, <1>15, <1>16, <1>17 DEF TabInv

LEMMA PutFreeStep == ASSUME TabInv, NEW t \in Thread, PutFree(t) PROVE TabInv'
<1>e. PICK e : e = pt_entry[t] OBVIOUS
<1>0. /\ pc[t] = "put_free" /\ pc' = [pc EXCEPT ![t] = "idle"] /\ pc'[t] = "idle"
  BY DEF TabInv, TypeOK, PutFree, Goto, UnlockTable
<1>1. /\ mem' = [mem EXCEPT ![e] = Blank] /\ mem_pool' = free_buffer(mem_pool, e)
      /\ pt_entry' = [pt_entry EXCEPT ![t] = NONE]
      /\ UNCHANGED <<setup, hash_tab_by_id, hash_tab_by_key, link_all, entry_num_in_use, next_id, add_del_lock, id_line_lock, key_line_lock, arg, node, held>>
  BY <1>e DEF PutFree, Free, UnlockTable, table, locks
<1>2. /\ e = pt_entry[t] /\ e \in Buffers /\ e \in InUse /\ e \notin Linked /\ e # NONE
      /\ \A u \in Thread : u # t /\ pc[u] \in OwnPc \cup {"get_by_key", "get_by_id"} => pt_entry[u] # e
      /\ \A u \in Thread : held[u] # e
      /\ \A f : f # e => mem'[f] = mem[f]
      /\ Linked \subseteq Buffers
  <2>1. \A f : f # e => mem'[f] = mem[f] BY <1>1 DEF TabInv, TypeOK
  <2> QED BY <1>0, <1>e, <2>1, OnlyOwner DEF TabInv, InUse
<1>3. Frame(t) BY <1>0, <1>1 DEF Frame, TabInv, TypeOK
<1>p. /\ setup.max_entry_num \in Nat /\ setup.garbage \in Int
      /\ mem_pool' \in PoolSet(setup.max_entry_num)
      /\ mem_pool'.buffer_num_free = mem_pool.buffer_num_free + 1
  <2>1. setup.max_entry_num \in Nat /\ setup.garbage \in Int BY TabAssumption DEF TabInv, TypeOK
  <2>2. mem_pool \in PoolSet(setup.max_entry_num) /\ e \in 0 .. setup.max_entry_num
    BY <1>2 DEF TabInv, PoolTypes, PoolSet, Node, Buffers
  <2> QED BY <1>1, <2>1, <2>2, FreeTypes
<1>u. \A f : f \in InUse' <=> f \in InUse /\ f # e
  BY <1>0, <1>1, <1>2, <1>3 DEF InUse, Owned, Linked, Frame, OwnPc
<1>v. InUse' = InUse \ {e} BY <1>u
<1>f. /\ Closed(mem_pool', (Node \ InUse) \cup {e})
      /\ mem_pool.next[Head0] # Head0 => mem_pool'.next[Head0] = mem_pool.next[Head0]
  <2>1. mem_pool \in PoolSet(setup.max_entry_num) /\ e \in 0 .. setup.max_entry_num
    BY <1>2 DEF TabInv, PoolTypes, PoolSet, Node, Buffers
  <2>2. /\ Node \ InUse \subseteq 0 .. setup.max_entry_num /\ Head0 \in Node \ InUse
        /\ e \notin Node \ InUse /\ Closed(mem_pool, Node \ InUse)
    BY <1>2, <1>p DEF TabInv, Node, Buffers, Head0, FreeList
  <2> QED BY <1>1, <1>p, <2>1, <2>2, FreeCloses
<1>4. TypeOK'
  <2>1. mem' \in [0 .. setup.max_entry_num -> [id : Id, key : Key \cup {0}, ref_cnt : Nat]]
    <3>1. Blank \in [id : Id, key : Key \cup {0}, ref_cnt : Nat] BY TabAssumption DEF Blank, Id
    <3> QED BY <1>1, <3>1 DEF TabInv, TypeOK
  <2> QED BY <1>0, <1>1, <1>2, <1>3, <2>1 DEF TabInv, TypeOK, PcValues, Buffers
<1>5. PoolTypes' BY <1>0, <1>1, <1>2, <1>3, <1>p DEF PoolTypes, PoolSet, Node
<1>6. ArgTypes' BY <1>0, <1>1, <1>2, <1>3 DEF TabInv, ArgTypes, Frame, TablePc, AddPc, DelPc, OwnPc, Buffers, Node
<1>7. Mutex' BY <1>0, <1>1, <1>2, <1>3, TabAssumption DEF TabInv, Mutex, Frame, TablePc, AddPc, DelPc, OwnPc
<1>8. Links' BY <1>0, <1>1, <1>2, <1>3 DEF TabInv, Links, Frame, TablePc, AddPc, DelPc, OwnPc
<1>9. Counted' BY <1>0, <1>1, <1>2, <1>3 DEF TabInv, Counted
<1>10. Distinct' BY <1>0, <1>1, <1>2, <1>3 DEF TabInv, TypeOK, Distinct, Linked, Frame, TablePc, AddPc, DelPc, OwnPc
<1>11. Getting' BY <1>0, <1>1, <1>2, <1>3, TabAssumption DEF TabInv, TypeOK, Getting, Frame, Linked
<1>12. Owners' BY <1>0, <1>1, <1>2, <1>3 DEF TabInv, Owners, Frame, OwnPc
<1>13. RefCntExact'
  <2> DEFINE building == {pt_entry[u] : u \in {v \in Thread : pc[v] = "add_build"}}
  <2> SUFFICES ASSUME NEW f \in InUse' \ building'
               PROVE  mem'[f].ref_cnt = TablesRef(f)' + Cardinality({u \in Thread : held'[u] = f})
    BY DEF RefCntExact
  <2>1. f # e BY <1>u
  <2>2. f \in InUse \ building BY <1>0, <1>1, <1>2, <1>3, <1>u DEF Frame
  <2>3. TableRefers(f)' <=> TableRefers(f) BY <1>0, <1>1, <1>2, <1>3, <2>1 DEF TableRefers, Frame
  <2> QED BY <1>1, <1>2, <2>1, <2>2, <2>3 DEF TabInv, RefCntExact, TablesRef
<1>14. (InUse \subseteq Buffers)' BY <1>0, <1>1, <1>2, <1>3, <1>v DEF TabInv, Buffers
<1>15. FreeCount'
  <2>1. Cardinality(InUse \ {e}) = Cardinality(InUse) - 1 BY <1>2, InUseFinite, FS_RemoveElement
  <2> QED BY <1>1, <1>v, <1>p, <2>1, InUseFinite DEF TabInv, FreeCount
<1>16. FreeList'
  <2>1. (Node \ InUse)' = (Node \ InUse) \cup {e} BY <1>1, <1>2, <1>v DEF Node, Buffers
  <2> QED BY <1>f, <2>1 DEF FreeList
<1>17. ReadFirst' BY <1>0, <1>1, <1>3, <1>f DEF TabInv, ReadFirst, Frame
<1> QED BY <1>4, <1>5, <1>6, <1>7, <1>8, <1>9, <1>10, <1>11, <1>12, <1>13, <1>14, <1>15, <1>16, <1>17 DEF TabInv
-----------------------------------------------------------------------------
\* Who puts an entry holds it, so that no call is about to count it, or has ceased to.
LEMMA Held ==
  ASSUME TabInv, NEW t \in Thread, NEW e, e = held[t], e # NONE
  PROVE  /\ e \in Buffers /\ e \in InUse
         /\ \A u \in Thread : pc[u] \in {"add_build", "put_free", "del_free"} => pt_entry[u] # e
         /\ mem[e].ref_cnt = TablesRef(e) + Cardinality(Holders(e))
         /\ Cardinality(Holders(e)) \in Nat /\ Cardinality(Holders(e)) > 0
         /\ TablesRef(e) \in {0, 1} /\ mem[e].ref_cnt \in Nat /\ mem[e].ref_cnt - 1 \in Nat
<1>1. e \in Buffers BY DEF TabInv, TypeOK, Buffers
<1>2. e \in InUse BY Users
<1>3. \A u \in Thread : pc[u] \in {"add_build", "put_free", "del_free"} => pt_entry[u] # e
  BY DEF TabInv, Owners
<1>4. /\ mem[e].ref_cnt = TablesRef(e) + Cardinality(Holders(e))
      /\ Cardinality(Holders(e)) \in Nat /\ TablesRef(e) \in {0, 1} /\ mem[e].ref_cnt \in Nat
  BY <1>2, <1>3, RefCnt
<1>5. Cardinality(Holders(e)) > 0 BY HoldersCount
<1> QED BY <1>1, <1>2, <1>3, <1>4, <1>5

\* What the table does not refer to is nowhere in it, nor on its way there or from there.
LEMMA Unreferred ==
  ASSUME TabInv, NEW e, ~TableRefers(e),
         \A u \in Thread : pc[u] \in {"add_build", "put_free", "del_free"} => pt_entry[u] # e
  PROVE  e \notin Linked /\ \A u \in Thread : pc[u] \in OwnPc => pt_entry[u] # e
<1>1. e \notin hash_tab_by_id /\ e \notin hash_tab_by_key BY DEF TableRefers
<1>2. \A u \in Thread : pc[u] \in {"add_id", "add_all", "del_all", "del_put"} => pt_entry[u] # e
  BY DEF TableRefers
<1>3. e \notin link_all
  <2>1. CASE \A u \in Thread : pc[u] \notin {"add_key", "add_all", "del_key", "del_all"}
    BY <1>1, <2>1 DEF TabInv, Links
  <2>2. ASSUME NEW u \in Thread, pc[u] \in {"add_key", "add_all", "del_key", "del_all"}
        PROVE  e \notin link_all
    BY <1>1, <1>2, <2>2 DEF TabInv, Links
  <2> QED BY <2>1, <2>2
<1>4. \A u \in Thread : pc[u] = "add_key" => pt_entry[u] # e
  BY <1>1 DEF TabInv, Links
<1>5. \A u \in Thread : pc[u] \in {"del_id", "del_key"} => pt_entry[u] # e
  BY <1>3 DEF TabInv, Links
<1> QED BY <1>1, <1>2, <1>3, <1>4, <1>5 DEF Linked, OwnPc

LEMMA PutLastStep == ASSUME TabInv, NEW t \in Thread, Put(t), mem[held[t]].ref_cnt = 1 PROVE TabInv'
<1>e. PICK e : e = held[t] /\ e # NONE /\ mem[e].ref_cnt = 1 BY DEF Put
<1>0. /\ pc[t] = "idle" /\ pc' = [pc EXCEPT ![t] = "put_free"] /\ pc'[t] = "put_free"
      /\ pt_entry' = [pt_entry EXCEPT ![t] = e] /\ pt_entry'[t] = e
  BY <1>e DEF TabInv, TypeOK, Put, Goto
<1>1. held' = [held EXCEPT ![t] = NONE] /\ UNCHANGED <<setup, mem_pool, hash_tab_by_id, hash_tab_by_key, link_all, entry_num_in_use, next_id, add_del_lock, id_line_lock, key_line_lock, arg, node>>
  BY DEF Put, table, locks
<1>k. /\ e \in Buffers /\ e \in InUse
      /\ \A u \in Thread : pc[u] \in {"add_build", "put_free", "del_free"} => pt_entry[u] # e
      /\ mem[e].ref_cnt = TablesRef(e) + Cardinality(Holders(e))
      /\ Cardinality(Holders(e)) \in Nat /\ Cardinality(Holders(e)) > 0
      /\ TablesRef(e) \in {0, 1} /\ mem[e].ref_cnt \in Nat /\ mem[e].ref_cnt - 1 \in Nat
  BY <1>e, Held
<1>m. mem' = [mem EXCEPT ![e].ref_cnt = mem[e].ref_cnt - 1]
  BY <1>e DEF Put, dec_entry_ref_cnt
<1>c. /\ mem' \in [0 .. setup.max_entry_num -> [id : Id, key : Key \cup {0}, ref_cnt : Nat]]
      /\ \A f \in Buffers : mem'[f].id = mem[f].id /\ mem'[f].key = mem[f].key
      /\ mem'[e].ref_cnt = mem[e].ref_cnt - 1 /\ \A f : f # e => mem'[f] = mem[f]
  BY <1>m, <1>k, Counts
<1>h. /\ Cardinality(Holders(e)') = Cardinality(Holders(e)) - 1
      /\ \A f \in Int \ {e} : Holders(f)' = Holders(f)
  <2>1. setup.max_entry_num \in Nat BY TabAssumption DEF TabInv, TypeOK
  <2>2. held \in [Thread -> Int \cup {NONE}] /\ e \in Int BY <1>k, <2>1 DEF TabInv, TypeOK, Buffers
  <2> QED BY <1>1, <1>e, <2>2, HolderGoes
<1>2. /\ e \in Buffers /\ e \in InUse
      /\ \A f \in Buffers : mem'[f].id = mem[f].id /\ mem'[f].key = mem[f].key
      /\ \A f : f # e => mem'[f] = mem[f]
      /\ Linked \subseteq Buffers /\ Buffers \subseteq Int /\ NONE \notin Buffers
  <2>1. setup.max_entry_num \in Nat BY TabAssumption DEF TabInv, TypeOK
  <2> QED BY <1>k, <1>c, <2>1, TabAssumption DEF TabInv, InUse, Buffers
<1>3. Frame(t) BY <1>0, <1>1, <1>e DEF Frame, TabInv, TypeOK
<1>v. /\ ~TableRefers(e) /\ \A u \in Thread : held'[u] # e
      /\ e \notin Linked /\ \A u \in Thread : pc[u] \in OwnPc => pt_entry[u] # e
  <2>1. TablesRef(e) = 0 /\ Cardinality(Holders(e)) = 1 BY <1>e, <1>k
  <2>2. ~TableRefers(e) BY <2>1 DEF TablesRef
  <2>3. \A u \in Thread : u # t => held[u] # e BY <1>e, <2>1, HoldersCount
  <2>4. held'[t] # e BY <1>1, <1>e DEF TabInv, TypeOK
  <2>5. e \notin Linked /\ \A u \in Thread : pc[u] \in OwnPc => pt_entry[u] # e
    BY <1>k, <2>2, Unreferred
  <2> QED BY <1>1, <2>2, <2>3, <2>4, <2>5 DEF TabInv, TypeOK
<1>u. InUse' = InUse
  <2>1. \A f : f \in Linked' <=> f \in Linked BY <1>1 DEF Linked
  <2>2. \A f : f \in Owned' <=> f \in Owned \/ f = e BY <1>0, <1>1, <1>2, <1>3 DEF Owned, Frame, OwnPc
  <2>3. \A f : f # e => ((\E u \in Thread : held'[u] = f /\ f # NONE) <=> (\E u \in Thread : held[u] = f /\ f # NONE))
    BY <1>1, <1>e DEF TabInv, TypeOK
  <2>4. \A f : f \in InUse' <=> f \in InUse
    <3>1. e \in InUse /\ e \in InUse' BY <1>2, <2>2 DEF InUse
    <3>2. \A f : f # e => (f \in InUse' <=> f \in InUse) BY <2>1, <2>2, <2>3 DEF InUse
    <3> QED BY <3>1, <3>2
  <2> QED BY <2>4
<1>4. TypeOK' BY <1>0, <1>1, <1>2, <1>3, <1>c DEF TabInv, TypeOK, PcValues, Buffers
<1>5. PoolTypes' BY <1>0, <1>1, <1>2, <1>3 DEF TabInv, PoolTypes, Node
<1>6. ArgTypes' BY <1>0, <1>1, <1>2, <1>3 DEF TabInv, ArgTypes, Frame, TablePc, AddPc, DelPc, OwnPc, Buffers, Node
<1>7. Mutex' BY <1>0, <1>1, <1>2, <1>3, TabAssumption DEF TabInv, Mutex, Frame, TablePc, AddPc, DelPc, OwnPc
<1>8. Links' BY <1>0, <1>1, <1>2, <1>3, <1>v DEF TabInv, Links, Frame, TablePc, AddPc, DelPc, OwnPc, Linked
<1>9. Counted' BY <1>0, <1>1, <1>2, <1>3 DEF TabInv, Counted
<1>10. Distinct'
  <2>1. \A u \in Thread : pc'[u] = "add_id" => pc[u] = "add_id" /\ pt_entry'[u] = pt_entry[u] /\ pt_entry[u] \in Buffers
    BY <1>0, <1>3 DEF TabInv, ArgTypes, Frame, OwnPc
  <2>2. \A u \in Thread : pc'[u] \in {"add_read", "add_alloc", "add_build", "add_id"} => pc'[u] = pc[u]
    BY <1>0, <1>3 DEF Frame
  <2> QED BY <1>1, <1>2, <2>1, <2>2 DEF TabInv, Distinct, Linked
<1>11. Getting'
  <2>1. \A u \in Thread : pc'[u] \in {"get_by_key", "get_by_id"} =>
          pc'[u] = pc[u] /\ u # t /\ pt_entry'[u] = pt_entry[u] /\ held'[u] = held[u]
    BY <1>0, <1>3 DEF Frame
  <2> QED BY <1>1, <1>2, <2>1 DEF TabInv, Getting, Linked
<1>12. Owners'
  <2>1. \A u \in Thread : u # t => pc'[u] = pc[u] /\ pt_entry'[u] = pt_entry[u]
    BY <1>3 DEF Frame
  <2>2. \A u \in Thread : held'[u] = held[u] \/ held'[u] = NONE BY <1>1 DEF TabInv, TypeOK
  <2>3. \A u \in Thread : pc[u] \in OwnPc => pt_entry[u] # e /\ pt_entry[u] # NONE
    BY <1>2, <1>v, TabAssumption DEF TabInv, ArgTypes
  <2> QED BY <1>0, <1>v, <2>1, <2>2, <2>3 DEF TabInv, Owners, OwnPc
<1>13. RefCntExact'
  <2> DEFINE building == {pt_entry[u] : u \in {v \in Thread : pc[v] = "add_build"}}
  <2> SUFFICES ASSUME NEW f \in InUse' \ building'
               PROVE  mem'[f].ref_cnt = TablesRef(f)' + Cardinality({u \in Thread : held'[u] = f})
    BY DEF RefCntExact
  <2>h. Cardinality({u \in Thread : held'[u] = f}) = Cardinality(Holders(f)') BY DEF Holders
  <2>1. CASE f = e
    <3>1. ~TableRefers(f)' BY <1>0, <1>1, <1>3, <1>v, <2>1 DEF TableRefers, Frame
    <3>2. TablesRef(f)' = 0 BY <3>1 DEF TablesRef
    <3>3. Cardinality(Holders(f)') = Cardinality(Holders(e)) - 1 BY <1>h, <2>1
    <3>4. TablesRef(e) = 0 BY <1>v DEF TablesRef
    <3> QED BY <1>k, <1>c, <2>h, <2>1, <3>2, <3>3, <3>4
  <2>2. CASE f # e
    <3>1. f \in InUse \ building BY <1>0, <1>1, <1>2, <1>3, <1>u, <2>2 DEF Frame
    <3>2. TableRefers(f)' <=> TableRefers(f) BY <1>0, <1>1, <1>2, <1>3, <2>2 DEF TableRefers, Frame
    <3>3. f \in Int \ {e} BY <1>2, <2>2, <3>1 DEF TabInv, Buffers
    <3>4. Cardinality({u \in Thread : held'[u] = f}) = Cardinality(Holders(f)) BY <1>h, <2>h, <3>3
    <3>5. mem[f].ref_cnt = TablesRef(f) + Cardinality(Holders(f)) BY <3>1 DEF TabInv, RefCntExact, Holders
    <3>6. TablesRef(f)' = TablesRef(f) BY <3>2 DEF TablesRef
    <3> QED BY <1>2, <2>2, <3>4, <3>5, <3>6
  <2> QED BY <2>1, <2>2
<1>14. (InUse \subseteq Buffers)' BY <1>0, <1>1, <1>2, <1>3, <1>u DEF TabInv, Buffers
<1>15. FreeCount' BY <1>0, <1>1, <1>2, <1>3, <1>u DEF TabInv, FreeCount
<1>16. FreeList' BY <1>1, <1>u DEF TabInv, FreeList, Closed, Node
<1>17. ReadFirst' BY <1>0, <1>1, <1>3 DEF TabInv, ReadFirst, Frame
<1> QED BY <1>4, <1>5, <1>6, <1>7, <1>8, <1>9, <1>10, <1>11, <1>12, <1>13, <1>14, <1>15, <1>16, <1>17 DEF TabInv

LEMMA PutOtherStep == ASSUME TabInv, NEW t \in Thread, Put(t), mem[held[t]].ref_cnt # 1 PROVE TabInv'
<1>e. PICK e : e = held[t] /\ e # NONE /\ mem[e].ref_cnt # 1 BY DEF Put
<1>0. pc[t] = "idle" /\ pc' = pc /\ pt_entry' = pt_entry
  BY DEF TabInv, TypeOK, Put
<1>1. held' = [held EXCEPT ![t] = NONE] /\ UNCHANGED <<setup, mem_pool, hash_tab_by_id, hash_tab_by_key, link_all, entry_num_in_use, next_id, add_del_lock, id_line_lock, key_line_lock, arg, node>>
  BY DEF Put, table, locks
<1>k. /\ e \in Buffers /\ e \in InUse
      /\ \A u \in Thread : pc[u] \in {"add_build", "put_free", "del_free"} => pt_entry[u] # e
      /\ mem[e].ref_cnt = TablesRef(e) + Cardinality(Holders(e))
      /\ Cardinality(Holders(e)) \in Nat /\ Cardinality(Holders(e)) > 0
      /\ TablesRef(e) \in {0, 1} /\ mem[e].ref_cnt \in Nat /\ mem[e].ref_cnt - 1 \in Nat
  BY <1>e, Held
<1>m. mem' = [mem EXCEPT ![e].ref_cnt = mem[e].ref_cnt - 1]
  BY <1>e DEF Put, dec_entry_ref_cnt
<1>c. /\ mem' \in [0 .. setup.max_entry_num -> [id : Id, key : Key \cup {0}, ref_cnt : Nat]]
      /\ \A f \in Buffers : mem'[f].id = mem[f].id /\ mem'[f].key = mem[f].key
      /\ mem'[e].ref_cnt = mem[e].ref_cnt - 1 /\ \A f : f # e => mem'[f] = mem[f]
  BY <1>m, <1>k, Counts
<1>h. /\ Cardinality(Holders(e)') = Cardinality(Holders(e)) - 1
      /\ \A f \in Int \ {e} : Holders(f)' = Holders(f)
  <2>1. setup.max_entry_num \in Nat BY TabAssumption DEF TabInv, TypeOK
  <2>2. held \in [Thread -> Int \cup {NONE}] /\ e \in Int BY <1>k, <2>1 DEF TabInv, TypeOK, Buffers
  <2> QED BY <1>1, <1>e, <2>2, HolderGoes
<1>2. /\ e \in Buffers /\ e \in InUse
      /\ \A f \in Buffers : mem'[f].id = mem[f].id /\ mem'[f].key = mem[f].key
      /\ \A f : f # e => mem'[f] = mem[f]
      /\ Linked \subseteq Buffers /\ Buffers \subseteq Int /\ NONE \notin Buffers
  <2>1. setup.max_entry_num \in Nat BY TabAssumption DEF TabInv, TypeOK
  <2> QED BY <1>k, <1>c, <2>1, TabAssumption DEF TabInv, InUse, Buffers
<1>3. Frame(t) BY <1>0, <1>1, <1>e DEF Frame, TabInv, TypeOK
<1>u. InUse' = InUse
  <2>1. \A f : f \in Linked' <=> f \in Linked BY <1>1 DEF Linked
  <2>2. \A f : f \in Owned' <=> f \in Owned BY <1>0 DEF Owned
  <2>3. \A f : f # e => ((\E u \in Thread : held'[u] = f /\ f # NONE) <=> (\E u \in Thread : held[u] = f /\ f # NONE))
    BY <1>1, <1>e DEF TabInv, TypeOK
  <2>4. e \in InUse'
    <3>1. TableRefers(e) \/ Cardinality(Holders(e)) > 1
      BY <1>e, <1>k DEF TablesRef
    <3>2. CASE TableRefers(e) BY <1>0, <1>1, <3>2 DEF TableRefers, InUse, Linked, Owned, OwnPc
    <3>3. CASE Cardinality(Holders(e)) > 1
      <4>1. PICK u \in Thread : u # t /\ held[u] = e BY <3>3, HoldersCount
      <4>2. held'[u] = e BY <1>1, <4>1 DEF TabInv, TypeOK
      <4> QED BY <1>e, <4>2 DEF InUse
    <3> QED BY <3>1, <3>2, <3>3
  <2>5. \A f : f \in InUse' <=> f \in InUse
    <3>1. e \in InUse /\ e \in InUse' BY <1>2, <2>4
    <3>2. \A f : f # e => (f \in InUse' <=> f \in InUse) BY <2>1, <2>2, <2>3 DEF InUse
    <3> QED BY <3>1, <3>2
  <2> QED BY <2>5
<1>4. TypeOK' BY <1>0, <1>1, <1>2, <1>3, <1>c DEF TabInv, TypeOK, PcValues, Buffers
<1>5. PoolTypes' BY <1>0, <1>1, <1>2, <1>3 DEF TabInv, PoolTypes, Node
<1>6. ArgTypes' BY <1>0, <1>1, <1>2, <1>3 DEF TabInv, ArgTypes, Frame, TablePc, AddPc, DelPc, OwnPc, Buffers, Node
<1>7. Mutex' BY <1>0, <1>1, <1>2, <1>3, TabAssumption DEF TabInv, Mutex, Frame, TablePc, AddPc, DelPc, OwnPc
<1>8. Links' BY <1>0, <1>1, <1>2, <1>3 DEF TabInv, Links, Frame, TablePc, AddPc, DelPc, OwnPc
<1>9. Counted' BY <1>0, <1>1, <1>2, <1>3 DEF TabInv, Counted
<1>10. Distinct'
  <2>1. \A u \in Thread : pc'[u] = "add_id" => pc[u] = "add_id" /\ pt_entry'[u] = pt_entry[u] /\ pt_entry[u] \in Buffers
    BY <1>0, <1>3 DEF TabInv, ArgTypes, Frame, OwnPc
  <2>2. \A u \in Thread : pc'[u] \in {"add_read", "add_alloc", "add_build", "add_id"} => pc'[u] = pc[u]
    BY <1>0, <1>3 DEF Frame
  <2> QED BY <1>1, <1>2, <2>1, <2>2 DEF TabInv, Distinct, Linked
<1>11. Getting'
  <2>1. \A u \in Thread : pc'[u] \in {"get_by_key", "get_by_id"} =>
          pc'[u] = pc[u] /\ u # t /\ pt_entry'[u] = pt_entry[u] /\ held'[u] = held[u]
    BY <1>0, <1>3 DEF Frame
  <2> QED BY <1>1, <1>2, <2>1 DEF TabInv, Getting, Linked
<1>12. Owners'
  <2>1. \A u \in Thread : held'[u] = held[u] \/ held'[u] = NONE BY <1>1 DEF TabInv, TypeOK
  <2>2. \A u \in Thread : pc[u] \in OwnPc => pt_entry[u] # NONE
    BY <1>2, TabAssumption DEF TabInv, ArgTypes
  <2> QED BY <1>0, <2>1, <2>2 DEF TabInv, Owners, OwnPc
<1>13. RefCntExact'
  <2> DEFINE building == {pt_entry[u] : u \in {v \in Thread : pc[v] = "add_build"}}
  <2> SUFFICES ASSUME NEW f \in InUse' \ building'
               PROVE  mem'[f].ref_cnt = TablesRef(f)' + Cardinality({u \in Thread : held'[u] = f})
    BY DEF RefCntExact
  <2>h. Cardinality({u \in Thread : held'[u] = f}) = Cardinality(Holders(f)') BY DEF Holders
  <2>1. CASE f = e
    <3>1. TableRefers(f)' <=> TableRefers(f) BY <1>0, <1>1, <2>1 DEF TableRefers
    <3>2. TablesRef(f)' = TablesRef(f) BY <3>1 DEF TablesRef
    <3>3. Cardinality(Holders(f)') = Cardinality(Holders(e)) - 1 BY <1>h, <2>1
    <3> QED BY <1>k, <1>c, <2>h, <2>1, <3>2, <3>3
  <2>2. CASE f # e
    <3>1. f \in InUse \ building BY <1>0, <1>1, <1>2, <1>3, <1>u, <2>2 DEF Frame
    <3>2. TableRefers(f)' <=> TableRefers(f) BY <1>0, <1>1, <1>2, <1>3, <2>2 DEF TableRefers, Frame
    <3>3. f \in Int \ {e} BY <1>2, <2>2, <3>1 DEF TabInv, Buffers
    <3>4. Cardinality({u \in Thread : held'[u] = f}) = Cardinality(Holders(f)) BY <1>h, <2>h, <3>3
    <3>5. mem[f].ref_cnt = TablesRef(f) + Cardinality(Holders(f)) BY <3>1 DEF TabInv, RefCntExact, Holders
    <3>6. TablesRef(f)' = TablesRef(f) BY <3>2 DEF TablesRef
    <3> QED BY <1>2, <2>2, <3>4, <3>5, <3>6
  <2> QED BY <2>1, <2>2
<1>14. (InUse \subseteq Buffers)' BY <1>0, <1>1, <1>2, <1>3, <1>u DEF TabInv, Buffers
<1>15. FreeCount' BY <1>0, <1>1, <1>2, <1>3, <1>u DEF TabInv, FreeCount
<1>16. FreeList' BY <1>1, <1>u DEF TabInv, FreeList, Closed, Node
<1>17. ReadFirst' BY <1>0, <1>1, <1>3 DEF TabInv, ReadFirst, Frame
<1> QED BY <1>4, <1>5, <1>6, <1>7, <1>8, <1>9, <1>10, <1>11, <1>12, <1>13, <1>14, <1>15, <1>16, <1>17 DEF TabInv

LEMMA GetIncByKeyStep == ASSUME TabInv, NEW t \in Thread, GetInc(t), pc[t] = "get_by_key" PROVE TabInv'
<1>e. PICK e : e = pt_entry[t] OBVIOUS
<1>0. /\ pc[t] = "get_by_key" /\ pc' = [pc EXCEPT ![t] = "idle"] /\ pc'[t] = "idle"
  BY DEF TabInv, TypeOK, GetInc, Goto
<1>1. /\ held' = [held EXCEPT ![t] = e] /\ arg' = [arg EXCEPT ![t] = NONE]
      /\ pt_entry' = [pt_entry EXCEPT ![t] = NONE]
      /\ key_line_lock' = [key_line_lock EXCEPT ![key_hash(arg[t])] = NoThread]
      /\ UNCHANGED <<setup, mem_pool, hash_tab_by_id, hash_tab_by_key, link_all, entry_num_in_use, next_id, add_del_lock, id_line_lock, node>>
  BY <1>e, <1>0 DEF GetInc, Goto, table
<1>k. /\ e \in Linked /\ e \in Buffers /\ e \in InUse /\ held[t] = NONE /\ e \in Int
      /\ \A u \in Thread : pc[u] \in {"add_build", "put_free", "del_free"} => pt_entry[u] # e
      /\ key_line_lock[key_hash(arg[t])] = t
  <2>1. e \in Linked /\ held[t] = NONE /\ key_line_lock[key_hash(arg[t])] = t
    BY <1>0, <1>e DEF TabInv, Getting, Linked
  <2>2. e \in Buffers /\ e \in InUse /\ e \in Int
    <3>1. setup.max_entry_num \in Nat BY TabAssumption DEF TabInv, TypeOK
    <3> QED BY <2>1, <3>1 DEF TabInv, InUse, Buffers
  <2> QED BY <2>1, <2>2, NotLinked
<1>r. /\ mem[e].ref_cnt = TablesRef(e) + Cardinality(Holders(e))
      /\ Cardinality(Holders(e)) \in Nat /\ TablesRef(e) \in {0, 1} /\ mem[e].ref_cnt + 1 \in Nat
  BY <1>k, RefCnt
<1>m. mem' = [mem EXCEPT ![e].ref_cnt = mem[e].ref_cnt + 1]
  BY <1>e DEF GetInc, inc_entry_ref_cnt
<1>c. /\ mem' \in [0 .. setup.max_entry_num -> [id : Id, key : Key \cup {0}, ref_cnt : Nat]]
      /\ \A f \in Buffers : mem'[f].id = mem[f].id /\ mem'[f].key = mem[f].key
      /\ mem'[e].ref_cnt = mem[e].ref_cnt + 1 /\ \A f : f # e => mem'[f] = mem[f]
  BY <1>m, <1>k, <1>r, Counts
<1>h. /\ Cardinality(Holders(e)') = Cardinality(Holders(e)) + 1
      /\ \A f \in Int \ {e} : Holders(f)' = Holders(f)
  <2>1. setup.max_entry_num \in Nat BY TabAssumption DEF TabInv, TypeOK
  <2>2. held \in [Thread -> Int \cup {NONE}] BY <2>1 DEF TabInv, TypeOK, Buffers
  <2> QED BY <1>1, <1>k, <2>2, HolderComes
<1>2. /\ e \in Buffers /\ e \in InUse /\ e # NONE
      /\ \A f \in Buffers : mem'[f].id = mem[f].id /\ mem'[f].key = mem[f].key
      /\ \A f : f # e => mem'[f] = mem[f]
      /\ Linked \subseteq Buffers /\ Buffers \subseteq Int
  <2>1. setup.max_entry_num \in Nat BY TabAssumption DEF TabInv, TypeOK
  <2>2. Buffers \subseteq Int BY <2>1 DEF Buffers
  <2>3. Linked \subseteq Buffers BY DEF TabInv, InUse
  <2>4. e # NONE BY <1>k, TabAssumption
  <2> QED BY <1>k, <1>c, <2>2, <2>3, <2>4
<1>3. Frame(t) BY <1>0, <1>1, <1>e DEF Frame, TabInv, TypeOK
<1>u. InUse' = InUse
  <2>1. \A f : f \in Linked' <=> f \in Linked BY <1>1 DEF Linked
  <2>2. \A f : f \in Owned' <=> f \in Owned BY <1>0, <1>3 DEF Owned, Frame, OwnPc
  <2>3. \A f : f # e => ((\E u \in Thread : held'[u] = f /\ f # NONE) <=> (\E u \in Thread : held[u] = f /\ f # NONE))
    BY <1>1, <1>k DEF TabInv, TypeOK
  <2>4. \A f : f \in InUse' <=> f \in InUse
    <3>1. e \in InUse /\ e \in InUse' BY <1>k, <2>1 DEF InUse
    <3>2. \A f : f # e => (f \in InUse' <=> f \in InUse) BY <2>1, <2>2, <2>3 DEF InUse
    <3> QED BY <3>1, <3>2
  <2> QED BY <2>4
<1>4. TypeOK' BY <1>0, <1>1, <1>2, <1>3, <1>c DEF TabInv, TypeOK, PcValues, Buffers
<1>5. PoolTypes' BY <1>0, <1>1, <1>2, <1>3 DEF TabInv, PoolTypes, Node
<1>6. ArgTypes' BY <1>0, <1>1, <1>2, <1>3 DEF TabInv, ArgTypes, Frame, TablePc, AddPc, DelPc, OwnPc, Buffers, Node
<1>7. Mutex' BY <1>0, <1>1, <1>2, <1>3, TabAssumption DEF TabInv, Mutex, Frame, TablePc, AddPc, DelPc, OwnPc
<1>8. Links' BY <1>0, <1>1, <1>2, <1>3 DEF TabInv, Links, Frame, TablePc, AddPc, DelPc, OwnPc
<1>9. Counted' BY <1>0, <1>1, <1>2, <1>3 DEF TabInv, Counted
<1>10. Distinct'
  <2>1. \A u \in Thread : pc'[u] = "add_id" => pc[u] = "add_id" /\ pt_entry'[u] = pt_entry[u] /\ pt_entry[u] \in Buffers
    BY <1>0, <1>3 DEF TabInv, ArgTypes, Frame, OwnPc
  <2>2. \A u \in Thread : pc'[u] \in {"add_read", "add_alloc", "add_build", "add_id"} => pc'[u] = pc[u] /\ arg'[u] = arg[u]
    BY <1>0, <1>3 DEF Frame
  <2> QED BY <1>1, <1>2, <2>1, <2>2 DEF TabInv, Distinct, Linked
<1>11. Getting'
  <2>1. \A u \in Thread : pc'[u] \in {"get_by_key", "get_by_id"} =>
          pc'[u] = pc[u] /\ u # t /\ pt_entry'[u] = pt_entry[u] /\ held'[u] = held[u] /\ arg'[u] = arg[u]
    BY <1>0, <1>3 DEF Frame
  <2>2. \A u \in Thread : pc[u] = "get_by_key" /\ u # t => key_line_lock'[key_hash(arg[u])] = key_line_lock[key_hash(arg[u])]
    BY <1>1, <1>k DEF TabInv, TypeOK, Getting
  <2> QED BY <1>1, <1>2, <2>1, <2>2 DEF TabInv, Getting, Linked
<1>12. Owners'
  <2>1. \A u \in Thread : held'[u] = held[u] \/ held'[u] = e BY <1>1 DEF TabInv, TypeOK
  <2>2. \A u \in Thread : pc'[u] \in OwnPc => pc'[u] = pc[u] /\ pt_entry'[u] = pt_entry[u] /\ pc[u] \in OwnPc
    BY <1>0, <1>3 DEF Frame, OwnPc
  <2> QED BY <1>k, <2>1, <2>2 DEF TabInv, Owners, OwnPc
<1>13. RefCntExact'
  <2> DEFINE building == {pt_entry[u] : u \in {v \in Thread : pc[v] = "add_build"}}
  <2> SUFFICES ASSUME NEW f \in InUse' \ building'
               PROVE  mem'[f].ref_cnt = TablesRef(f)' + Cardinality({u \in Thread : held'[u] = f})
    BY DEF RefCntExact
  <2>h. Cardinality({u \in Thread : held'[u] = f}) = Cardinality(Holders(f)') BY DEF Holders
  <2>1. CASE f = e
    <3>1. TableRefers(f)' <=> TableRefers(f) BY <1>0, <1>1, <1>3, <1>k DEF TableRefers, Frame
    <3>2. TablesRef(f)' = TablesRef(f) BY <3>1 DEF TablesRef
    <3>3. Cardinality(Holders(f)') = Cardinality(Holders(e)) + 1 BY <1>h, <2>1
    <3> QED BY <1>r, <1>c, <2>h, <2>1, <3>2, <3>3
  <2>2. CASE f # e
    <3>1. f \in InUse \ building BY <1>0, <1>1, <1>2, <1>3, <1>u, <2>2 DEF Frame
    <3>2. TableRefers(f)' <=> TableRefers(f) BY <1>0, <1>1, <1>2, <1>3, <2>2 DEF TableRefers, Frame
    <3>3. f \in Int \ {e} BY <1>2, <2>2, <3>1 DEF TabInv, Buffers
    <3>4. Cardinality({u \in Thread : held'[u] = f}) = Cardinality(Holders(f)) BY <1>h, <2>h, <3>3
    <3>5. mem[f].ref_cnt = TablesRef(f) + Cardinality(Holders(f)) BY <3>1 DEF TabInv, RefCntExact, Holders
    <3>6. TablesRef(f)' = TablesRef(f) BY <3>2 DEF TablesRef
    <3> QED BY <1>2, <2>2, <3>4, <3>5, <3>6
  <2> QED BY <2>1, <2>2
<1>14. (InUse \subseteq Buffers)' BY <1>0, <1>1, <1>2, <1>3, <1>u DEF TabInv, Buffers
<1>15. FreeCount' BY <1>0, <1>1, <1>2, <1>3, <1>u DEF TabInv, FreeCount
<1>16. FreeList' BY <1>1, <1>u DEF TabInv, FreeList, Closed, Node
<1>17. ReadFirst' BY <1>0, <1>1, <1>3 DEF TabInv, ReadFirst, Frame
<1> QED BY <1>4, <1>5, <1>6, <1>7, <1>8, <1>9, <1>10, <1>11, <1>12, <1>13, <1>14, <1>15, <1>16, <1>17 DEF TabInv

LEMMA GetIncByIdStep == ASSUME TabInv, NEW t \in Thread, GetInc(t), pc[t] = "get_by_id" PROVE TabInv'
<1>e. PICK e : e = pt_entry[t] OBVIOUS
<1>0. /\ pc[t] = "get_by_id" /\ pc' = [pc EXCEPT ![t] = "idle"] /\ pc'[t] = "idle"
  BY DEF TabInv, TypeOK, GetInc, Goto
<1>1. /\ held' = [held EXCEPT ![t] = e] /\ arg' = [arg EXCEPT ![t] = NONE]
      /\ pt_entry' = [pt_entry EXCEPT ![t] = NONE]
      /\ id_line_lock' = [id_line_lock EXCEPT ![id_hash(arg[t])] = NoThread]
      /\ UNCHANGED <<setup, mem_pool, hash_tab_by_id, hash_tab_by_key, link_all, entry_num_in_use, next_id, add_del_lock, key_line_lock, node>>
  BY <1>e, <1>0 DEF GetInc, Goto, table
<1>k. /\ e \in Linked /\ e \in Buffers /\ e \in InUse /\ held[t] = NONE /\ e \in Int
      /\ \A u \in Thread : pc[u] \in {"add_build", "put_free", "del_free"} => pt_entry[u] # e
      /\ id_line_lock[id_hash(arg[t])] = t
  <2>1. e \in Linked /\ held[t] = NONE /\ id_line_lock[id_hash(arg[t])] = t
    BY <1>0, <1>e DEF TabInv, Getting, Linked
  <2>2. e \in Buffers /\ e \in InUse /\ e \in Int
    <3>1. setup.max_entry_num \in Nat BY TabAssumption DEF TabInv, TypeOK
    <3> QED BY <2>1, <3>1 DEF TabInv, InUse, Buffers
  <2> QED BY <2>1, <2>2, NotLinked
<1>r. /\ mem[e].ref_cnt = TablesRef(e) + Cardinality(Holders(e))
      /\ Cardinality(Holders(e)) \in Nat /\ TablesRef(e) \in {0, 1} /\ mem[e].ref_cnt + 1 \in Nat
  BY <1>k, RefCnt
<1>m. mem' = [mem EXCEPT ![e].ref_cnt = mem[e].ref_cnt + 1]
  BY <1>e DEF GetInc, inc_entry_ref_cnt
<1>c. /\ mem' \in [0 .. setup.max_entry_num -> [id : Id, key : Key \cup {0}, ref_cnt : Nat]]
      /\ \A f \in Buffers : mem'[f].id = mem[f].id /\ mem'[f].key = mem[f].key
      /\ mem'[e].ref_cnt = mem[e].ref_cnt + 1 /\ \A f : f # e => mem'[f] = mem[f]
  BY <1>m, <1>k, <1>r, Counts
<1>h. /\ Cardinality(Holders(e)') = Cardinality(Holders(e)) + 1
      /\ \A f \in Int \ {e} : Holders(f)' = Holders(f)
  <2>1. setup.max_entry_num \in Nat BY TabAssumption DEF TabInv, TypeOK
  <2>2. held \in [Thread -> Int \cup {NONE}] BY <2>1 DEF TabInv, TypeOK, Buffers
  <2> QED BY <1>1, <1>k, <2>2, HolderComes
<1>2. /\ e \in Buffers /\ e \in InUse /\ e # NONE
      /\ \A f \in Buffers : mem'[f].id = mem[f].id /\ mem'[f].key = mem[f].key
      /\ \A f : f # e => mem'[f] = mem[f]
      /\ Linked \subseteq Buffers /\ Buffers \subseteq Int
  <2>1. setup.max_entry_num \in Nat BY TabAssumption DEF TabInv, TypeOK
  <2>2. Buffers \subseteq Int BY <2>1 DEF Buffers
  <2>3. Linked \subseteq Buffers BY DEF TabInv, InUse
  <2>4. e # NONE BY <1>k, TabAssumption
  <2> QED BY <1>k, <1>c, <2>2, <2>3, <2>4
<1>3. Frame(t) BY <1>0, <1>1, <1>e DEF Frame, TabInv, TypeOK
<1>u. InUse' = InUse
  <2>1. \A f : f \in Linked' <=> f \in Linked BY <1>1 DEF Linked
  <2>2. \A f : f \in Owned' <=> f \in Owned BY <1>0, <1>3 DEF Owned, Frame, OwnPc
  <2>3. \A f : f # e => ((\E u \in Thread : held'[u] = f /\ f # NONE) <=> (\E u \in Thread : held[u] = f /\ f # NONE))
    BY <1>1, <1>k DEF TabInv, TypeOK
  <2>4. \A f : f \in InUse' <=> f \in InUse
    <3>1. e \in InUse /\ e \in InUse' BY <1>k, <2>1 DEF InUse
    <3>2. \A f : f # e => (f \in InUse' <=> f \in InUse) BY <2>1, <2>2, <2>3 DEF InUse
    <3> QED BY <3>1, <3>2
  <2> QED BY <2>4
<1>4. TypeOK' BY <1>0, <1>1, <1>2, <1>3, <1>c DEF TabInv, TypeOK, PcValues, Buffers
<1>5. PoolTypes' BY <1>0, <1>1, <1>2, <1>3 DEF TabInv, PoolTypes, Node
<1>6. ArgTypes' BY <1>0, <1>1, <1>2, <1>3 DEF TabInv, ArgTypes, Frame, TablePc, AddPc, DelPc, OwnPc, Buffers, Node
<1>7. Mutex' BY <1>0, <1>1, <1>2, <1>3, TabAssumption DEF TabInv, Mutex, Frame, TablePc, AddPc, DelPc, OwnPc
<1>8. Links' BY <1>0, <1>1, <1>2, <1>3 DEF TabInv, Links, Frame, TablePc, AddPc, DelPc, OwnPc
<1>9. Counted' BY <1>0, <1>1, <1>2, <1>3 DEF TabInv, Counted
<1>10. Distinct'
  <2>1. \A u \in Thread : pc'[u] = "add_id" => pc[u] = "add_id" /\ pt_entry'[u] = pt_entry[u] /\ pt_entry[u] \in Buffers
    BY <1>0, <1>3 DEF TabInv, ArgTypes, Frame, OwnPc
  <2>2. \A u \in Thread : pc'[u] \in {"add_read", "add_alloc", "add_build", "add_id"} => pc'[u] = pc[u] /\ arg'[u] = arg[u]
    BY <1>0, <1>3 DEF Frame
  <2> QED BY <1>1, <1>2, <2>1, <2>2 DEF TabInv, Distinct, Linked
<1>11. Getting'
  <2>1. \A u \in Thread : pc'[u] \in {"get_by_key", "get_by_id"} =>
          pc'[u] = pc[u] /\ u # t /\ pt_entry'[u] = pt_entry[u] /\ held'[u] = held[u] /\ arg'[u] = arg[u]
    BY <1>0, <1>3 DEF Frame
  <2>2. \A u \in Thread : pc[u] = "get_by_id" /\ u # t => id_line_lock'[id_hash(arg[u])] = id_line_lock[id_hash(arg[u])]
    BY <1>1, <1>k DEF TabInv, TypeOK, Getting
  <2> QED BY <1>1, <1>2, <2>1, <2>2 DEF TabInv, Getting, Linked
<1>12. Owners'
  <2>1. \A u \in Thread : held'[u] = held[u] \/ held'[u] = e BY <1>1 DEF TabInv, TypeOK
  <2>2. \A u \in Thread : pc'[u] \in OwnPc => pc'[u] = pc[u] /\ pt_entry'[u] = pt_entry[u] /\ pc[u] \in OwnPc
    BY <1>0, <1>3 DEF Frame, OwnPc
  <2> QED BY <1>k, <2>1, <2>2 DEF TabInv, Owners, OwnPc
<1>13. RefCntExact'
  <2> DEFINE building == {pt_entry[u] : u \in {v \in Thread : pc[v] = "add_build"}}
  <2> SUFFICES ASSUME NEW f \in InUse' \ building'
               PROVE  mem'[f].ref_cnt = TablesRef(f)' + Cardinality({u \in Thread : held'[u] = f})
    BY DEF RefCntExact
  <2>h. Cardinality({u \in Thread : held'[u] = f}) = Cardinality(Holders(f)') BY DEF Holders
  <2>1. CASE f = e
    <3>1. TableRefers(f)' <=> TableRefers(f) BY <1>0, <1>1, <1>3, <1>k DEF TableRefers, Frame
    <3>2. TablesRef(f)' = TablesRef(f) BY <3>1 DEF TablesRef
    <3>3. Cardinality(Holders(f)') = Cardinality(Holders(e)) + 1 BY <1>h, <2>1
    <3> QED BY <1>r, <1>c, <2>h, <2>1, <3>2, <3>3
  <2>2. CASE f # e
    <3>1. f \in InUse \ building BY <1>0, <1>1, <1>2, <1>3, <1>u, <2>2 DEF Frame
    <3>2. TableRefers(f)' <=> TableRefers(f) BY <1>0, <1>1, <1>2, <1>3, <2>2 DEF TableRefers, Frame
    <3>3. f \in Int \ {e} BY <1>2, <2>2, <3>1 DEF TabInv, Buffers
    <3>4. Cardinality({u \in Thread : held'[u] = f}) = Cardinality(Holders(f)) BY <1>h, <2>h, <3>3
    <3>5. mem[f].ref_cnt = TablesRef(f) + Cardinality(Holders(f)) BY <3>1 DEF TabInv, RefCntExact, Holders
    <3>6. TablesRef(f)' = TablesRef(f) BY <3>2 DEF TablesRef
    <3> QED BY <1>2, <2>2, <3>4, <3>5, <3>6
  <2> QED BY <2>1, <2>2
<1>14. (InUse \subseteq Buffers)' BY <1>0, <1>1, <1>2, <1>3, <1>u DEF TabInv, Buffers
<1>15. FreeCount' BY <1>0, <1>1, <1>2, <1>3, <1>u DEF TabInv, FreeCount
<1>16. FreeList' BY <1>1, <1>u DEF TabInv, FreeList, Closed, Node
<1>17. ReadFirst' BY <1>0, <1>1, <1>3 DEF TabInv, ReadFirst, Frame
<1> QED BY <1>4, <1>5, <1>6, <1>7, <1>8, <1>9, <1>10, <1>11, <1>12, <1>13, <1>14, <1>15, <1>16, <1>17 DEF TabInv
-----------------------------------------------------------------------------
LEMMA InitInv == Init => TabInv
<1> SUFFICES ASSUME Init PROVE TabInv OBVIOUS
<1>1. /\ setup \in Setup /\ setup.max_entry_num \in Nat /\ setup.garbage \in Int
      /\ MAX_ENTRY_ID \in Nat /\ 0 \in Id /\ \A t \in Thread : held[t] = NONE /\ pc[t] = "idle"
      /\ link_all = {} /\ hash_tab_by_id = {} /\ hash_tab_by_key = {}
  BY TabAssumption DEF Init, Id
<1> DEFINE N == setup.max_entry_num
<1>2. \A t \in Thread : pc[t] \notin TablePc /\ pc[t] \notin OwnPc /\ pc[t] \notin {"get_by_key", "get_by_id"}
  BY <1>1 DEF TablePc, AddPc, DelPc, OwnPc
<1>3. /\ mem_pool.next = [i \in 0 .. N |-> IF i = N THEN 0 ELSE i + 1]
      /\ mem_pool.prev = [i \in 0 .. N |-> IF i = 0 THEN N ELSE i - 1]
      /\ mem_pool.buffer_num_free = setup.garbage + N
      /\ mem_pool = [next |-> mem_pool.next, prev |-> mem_pool.prev, buffer_num_free |-> setup.garbage + N,
                     buffer_num_total |-> N]
  BY DEF Init, create_buffer_manager, Head0
<1>4. InUse = {}
  <2>1. Linked = {} /\ Owned = {} BY <1>1, <1>2 DEF Linked, Owned
  <2> QED BY <1>1, <2>1 DEF InUse
<1>5. mem_pool.next \in [Node -> Node] /\ mem_pool.prev \in [Node -> Node]
  <2>1. \A i \in 0 .. N : (IF i = N THEN 0 ELSE i + 1) \in 0 .. N /\ (IF i = 0 THEN N ELSE i - 1) \in 0 .. N
    BY <1>1
  <2> QED BY <1>3, <2>1 DEF Node
<1>6. TypeOK
  <2>1. next_id \in Id
    BY TabAssumption, <1>1 DEF Init, Id, MIN_ENTRY_ID
  <2>2. mem \in [0 .. N -> [id : Id, key : Key \cup {0}, ref_cnt : Nat]]
    BY <1>1 DEF Init, Blank
  <2> QED BY <1>1, <2>1, <2>2 DEF Init, TypeOK, PcValues, Linked
<1>7. PoolTypes
  <2>1. setup.garbage + N \in Int BY <1>1
  <2>2. PICK nx, pv : nx = mem_pool.next /\ pv = mem_pool.prev OBVIOUS
  <2>3. mem_pool = [next |-> nx, prev |-> pv, buffer_num_free |-> setup.garbage + N,
                    buffer_num_total |-> setup.max_entry_num]
    BY <1>3, <2>2
  <2>4. nx \in [Node -> Node] /\ pv \in [Node -> Node] BY <1>5, <2>2
  <2> QED BY <2>1, <2>3, <2>4 DEF PoolTypes
<1>8. ArgTypes /\ Mutex /\ Links
  BY <1>1, <1>2, TabAssumption DEF Init, ArgTypes, Mutex, Links
<1>9. Counted BY <1>1, FS_EmptySet DEF Init, Counted
<1>10. Distinct /\ Getting /\ Owners BY <1>1, <1>2 DEF Distinct, Getting, Owners, Linked
<1>11. RefCntExact /\ InUse \subseteq Buffers BY <1>4 DEF RefCntExact
<1>12. FreeCount
  <2>1. Cardinality(InUse) = 0 BY <1>4, FS_EmptySet
  <2> QED BY <1>1, <1>3, <2>1 DEF FreeCount
<1>13. BothWays(mem_pool, Node)
  <2> SUFFICES ASSUME NEW n \in 0 .. N
               PROVE  /\ mem_pool.next[n] \in 0 .. N /\ mem_pool.prev[n] \in 0 .. N
                      /\ mem_pool.next[mem_pool.prev[n]] = n /\ mem_pool.prev[mem_pool.next[n]] = n
    BY DEF BothWays, Node
  <2>1. mem_pool.next[n] \in 0 .. N /\ mem_pool.prev[n] \in 0 .. N BY <1>5 DEF Node
  <2>2. mem_pool.next[n] = (IF n = N THEN 0 ELSE n + 1) /\ mem_pool.prev[n] = (IF n = 0 THEN N ELSE n - 1)
    BY <1>3
  <2>3. mem_pool.next[mem_pool.prev[n]] = n BY <1>1, <1>3, <2>1, <2>2
  <2>4. mem_pool.prev[mem_pool.next[n]] = n BY <1>1, <1>3, <2>1, <2>2
  <2> QED BY <2>1, <2>3, <2>4
<1>18. OneCircle(mem_pool, Node)
  <2> SUFFICES ASSUME NEW S \in SUBSET (0 .. N), Head0 \in S, ClosedUnderNext(mem_pool, S), S # 0 .. N
               PROVE  FALSE
    BY DEF OneCircle, Node
  <2>1. PICK T : T = (0 .. N) \ S OBVIOUS
  <2>6. T \subseteq Nat BY <1>1, <2>1
  <2>7. T # {} BY <2>1, Zenon
  <2>2. PICK x \in T : \A y \in T : x <= y BY <2>6, <2>7, Least
  <2>3. x \in 0 .. N /\ x \notin S /\ x # 0 /\ x - 1 \in 0 .. N /\ x - 1 # N BY <1>1, <2>1, <2>2 DEF Head0
  <2>4. x - 1 \in S BY <1>1, <2>1, <2>2, <2>3
  <2>5. mem_pool.next[x - 1] = x BY <1>1, <1>3, <2>3
  <2> QED BY <2>3, <2>4, <2>5 DEF ClosedUnderNext
<1>19. FreeList
  <2>1. Node \ InUse = Node BY <1>4
  <2> QED BY <1>13, <1>18, <2>1 DEF FreeList, Closed
<1>14. ReadFirst BY <1>1 DEF ReadFirst
<1> QED BY <1>6, <1>7, <1>8, <1>9, <1>10, <1>11, <1>12, <1>14, <1>19 DEF TabInv

LEMMA StepInv == TabInv /\ HeadNotTaken /\ [Next]_vars => TabInv'
<1> SUFFICES ASSUME TabInv, HeadNotTaken, [Next]_vars PROVE TabInv' OBVIOUS
<1>1. ASSUME NEW t \in Thread, Call(t) PROVE TabInv'
  BY <1>1, AddCallStep, DelCallStep, GetByKeyStep, GetByIdStep DEF Call
<1>2. ASSUME NEW t \in Thread, tab_xxx_add_entry(t) PROVE TabInv'
  BY <1>2, AddExistsStep, AddNewStep, AddReadStep, AddNoMemStep, AddAllocStep, AddBuildStep,
     AddIdHashStep, AddKeyHashStep, AddReturnStep DEF tab_xxx_add_entry
<1>3. ASSUME NEW t \in Thread, tab_xxx_del_entry_by_key(t) PROVE TabInv'
  BY <1>3, DelMissingStep, DelFoundStep, DelIdHashStep, DelKeyHashStep, DelAllStep, DelReturnStep,
     DelLastRefStep, DelFreeStep DEF tab_xxx_del_entry_by_key
<1>4. ASSUME NEW t \in Thread, GetInc(t) PROVE TabInv'
  <2>1. pc[t] = "get_by_key" \/ pc[t] = "get_by_id" BY <1>4 DEF GetInc, Goto
  <2> QED BY <1>4, <2>1, GetIncByKeyStep, GetIncByIdStep
<1>5. ASSUME NEW t \in Thread, Put(t) PROVE TabInv'
  BY <1>5, PutLastStep, PutOtherStep
<1>6. ASSUME UNCHANGED vars PROVE TabInv'
  <2>1. /\ setup' = setup /\ mem_pool' = mem_pool /\ mem' = mem /\ hash_tab_by_id' = hash_tab_by_id
        /\ hash_tab_by_key' = hash_tab_by_key /\ link_all' = link_all /\ entry_num_in_use' = entry_num_in_use
        /\ next_id' = next_id /\ add_del_lock' = add_del_lock /\ id_line_lock' = id_line_lock
        /\ key_line_lock' = key_line_lock /\ pc' = pc /\ arg' = arg /\ node' = node
        /\ pt_entry' = pt_entry /\ held' = held
    BY <1>6 DEF vars, table, locks
  <2>2. InUse' = InUse BY <2>1 DEF InUse, Linked, Owned
  <2>3. /\ TypeOK' /\ PoolTypes' /\ ArgTypes' /\ Mutex' /\ Links'
    BY <2>1 DEF TabInv, TypeOK, PoolTypes, ArgTypes, Mutex, Links, Node, Buffers
  <2>4. Counted' /\ Distinct' /\ Getting' /\ Owners'
    BY <2>1 DEF TabInv, Counted, Distinct, Getting, Owners, Linked
  <2>5. RefCntExact' BY <2>1, <2>2 DEF TabInv, RefCntExact, TablesRef, TableRefers
  <2>6. (InUse \subseteq Buffers)' /\ FreeCount' /\ FreeList' /\ ReadFirst'
    BY <2>1, <2>2 DEF TabInv, Buffers, FreeCount, FreeList, Closed, ReadFirst, Node
  <2> QED BY <2>3, <2>4, <2>5, <2>6 DEF TabInv
<1>7. ASSUME NEW t \in Thread, PutFree(t) PROVE TabInv'
  BY <1>7, PutFreeStep
<1> QED BY <1>1, <1>2, <1>3, <1>4, <1>5, <1>6, <1>7 DEF Next, InCall

LEMMA Inv == Spec /\ []HeadNotTaken => []TabInv
BY InitInv, StepInv, PTL DEF Spec

\* The variables have their types in every state: ids stay within a uint16_t and the counts of
\* references never become negative, as long as alloc_buffer does not take the list head.
THEOREM TypeCorrect == Spec /\ []HeadNotTaken => []TypeOK
<1>1. TabInv => TypeOK BY DEF TabInv
<1> QED BY <1>1, Inv, PTL

\* The buffers on the free list are those that nobody uses, and the one that alloc_buffer
\* has read before it takes the mutex is one of them.
LEMMA FreeIsUnused == ASSUME TabInv, HeadNotTaken PROVE FreeOrInUse
<1>1. setup.max_entry_num \in Nat BY TabAssumption DEF TabInv, TypeOK
<1>2. DOMAIN mem_pool.next = Node BY DEF TabInv, PoolTypes
<1>3. PICK F : F = Node \ InUse OBVIOUS
<1>4. Head0 \in F BY <1>1, <1>3 DEF TabInv, Node, Buffers, Head0
<1>5. BothWays(mem_pool, F) /\ OneCircle(mem_pool, F) BY <1>3 DEF TabInv, FreeList, Closed
<1>6. Buffers \ InUse = F \ {Head0} BY <1>1, <1>3 DEF Node, Buffers, Head0
<1>7. FreeBuffers(mem_pool) \subseteq F \ {Head0}
  <2>1. F \in SUBSET Node BY <1>3
  <2>2. ClosedUnderNext(mem_pool, F) BY <1>5 DEF BothWays, ClosedUnderNext
  <2> QED BY <1>2, <1>4, <2>1, <2>2 DEF FreeBuffers
<1>8. ASSUME NEW b \in F \ {Head0}, NEW S \in SUBSET Node, Head0 \in S, ClosedUnderNext(mem_pool, S)
      PROVE  b \in S
  <2>1. Head0 \in S \cap F BY <1>4, <1>8
  <2>2. ClosedUnderNext(mem_pool, S \cap F) BY <1>5, <1>8 DEF BothWays, ClosedUnderNext
  <2>3. S \cap F = F BY <1>5, <2>1, <2>2 DEF OneCircle
  <2> QED BY <2>3
<1>9. F \ {Head0} \subseteq FreeBuffers(mem_pool) BY <1>2, <1>3, <1>8 DEF FreeBuffers
<1>10. ASSUME NEW t \in Thread, pc[t] \in {"get_by_key", "get_by_id"} PROVE pt_entry[t] \in Linked
  BY <1>10 DEF TabInv, Getting, Linked
<1> QED BY <1>6, <1>7, <1>9, <1>10, Fresh DEF TabInv, FreeOrInUse

\* The free list holds the buffers that no link, no reference and no call in progress reaches:
\* none is lost, and alloc_buffer never hands out one that is in use, although it reads the list
\* before it takes the mutex, because only the holder of add_del_lock takes buffers.
THEOREM FreeOrUsed == Spec /\ []HeadNotTaken => []FreeOrInUse
<1>1. TabInv /\ HeadNotTaken => FreeOrInUse BY FreeIsUnused
<1> QED BY <1>1, Inv, PTL

\* The reference count of every entry in use is the table's reference plus the callers'.
THEOREM ReferencesCounted == Spec /\ []HeadNotTaken => []RefCntExact
<1>1. TabInv => RefCntExact BY DEF TabInv
<1> QED BY <1>1, Inv, PTL

\* While nobody adds or deletes, both hash tables and the list hold the same entries, counted
\* by entry_num_in_use, all with keys and ids of their own.
THEOREM TablesAgree == Spec /\ []HeadNotTaken => []TableConsistent
<1>1. ASSUME TabInv, add_del_lock = NoThread
      PROVE  /\ hash_tab_by_id = hash_tab_by_key /\ link_all = hash_tab_by_id
             /\ entry_num_in_use = Cardinality(link_all)
             /\ \A e, f \in link_all : e # f => mem[e].key # mem[f].key /\ mem[e].id # mem[f].id
  <2>1. \A t \in Thread : pc[t] \notin TablePc
    BY <1>1, TabAssumption DEF TabInv, Mutex
  <2>2. hash_tab_by_id = link_all /\ hash_tab_by_key = link_all
    BY <1>1, <2>1 DEF TabInv, Links, TablePc, AddPc, DelPc
  <2> QED BY <1>1, <2>2 DEF TabInv, Counted, Distinct, Linked
<1>2. TabInv => TableConsistent BY <1>1 DEF TableConsistent
<1> QED BY <1>2, Inv, PTL

\* Whatever malloc left in the count, free_buffer_num is off by that from the number of the
\* buffers that are not used, and no call adds to the error or takes from it.
THEOREM FreeCounted == Spec /\ []HeadNotTaken => []FreeCountExact
<1>1. ASSUME TabInv PROVE FreeCountExact
  <2>1. setup.garbage \in Int /\ setup.max_entry_num \in Nat BY <1>1, TabAssumption DEF TabInv, TypeOK
  <2>2. InUse \cap Buffers = InUse BY <1>1 DEF TabInv
  <2>3. Cardinality(InUse) \in Nat BY <1>1, InUseFinite
  <2>4. mem_pool.buffer_num_total = setup.max_entry_num BY <1>1 DEF TabInv, PoolTypes
  <2>5. mem_pool.buffer_num_free = setup.garbage + setup.max_entry_num - Cardinality(InUse)
    BY <1>1, <2>1 DEF TabInv, FreeCount
  <2>6. Cardinality(InUse \cap Buffers) = Cardinality(InUse) BY <2>2
  <2> QED BY <2>1, <2>3, <2>4, <2>5, <2>6 DEF FreeCountExact, NotHandedOut
<1> QED BY <1>1, Inv, PTL

-----------------------------------------------------------------------------
\* What a step may do to an entry that a caller holds: count, no more.
LEMMA StableStep ==
  ASSUME TabInv, [Next]_vars, NEW u \in Thread, held[u] # NONE
  PROVE  mem'[held[u]].id = mem[held[u]].id /\ mem'[held[u]].key = mem[held[u]].key
<1> PICK h : h = held[u] OBVIOUS
<1>1. /\ h \in 0 .. setup.max_entry_num /\ mem \in [0 .. setup.max_entry_num -> [id : Id, key : Key \cup {0}, ref_cnt : Nat]]
  <2>1. setup.max_entry_num \in Nat BY TabAssumption DEF TabInv, TypeOK
  <2> QED BY <2>1 DEF TabInv, TypeOK
<1>2. \A t \in Thread : pc[t] \in {"add_build", "put_free", "del_free"} => pt_entry[t] # h
  BY DEF TabInv, Owners
<1>3. ASSUME NEW e, NEW n, mem' = [mem EXCEPT ![e].ref_cnt = n]
      PROVE  mem'[h].id = mem[h].id /\ mem'[h].key = mem[h].key
  <2>1. CASE e = h
    <3>1. mem'[h] = [mem[h] EXCEPT !.ref_cnt = n] BY <1>1, <1>3, <2>1
    <3>2. mem[h] \in [id : Id, key : Key \cup {0}, ref_cnt : Nat] BY <1>1
    <3> QED BY <3>1, <3>2
  <2>2. CASE e # h BY <1>1, <1>3, <2>2
  <2> QED BY <2>1, <2>2
<1>4. ASSUME NEW e, NEW v, e # h, mem' = [mem EXCEPT ![e] = v]
      PROVE  mem'[h].id = mem[h].id /\ mem'[h].key = mem[h].key
  BY <1>1, <1>4
<1>5. CASE UNCHANGED mem BY <1>5
<1>6. \/ UNCHANGED mem \/ (\E e, n : mem' = [mem EXCEPT ![e].ref_cnt = n])
      \/ (\E e, v : e # h /\ mem' = [mem EXCEPT ![e] = v])
  <2>1. ASSUME NEW t \in Thread, AddBuild(t) PROVE \E e, v : e # h /\ mem' = [mem EXCEPT ![e] = v]
    <3>1. pt_entry[t] # h BY <1>2, <2>1 DEF AddBuild, Goto
    <3> QED BY <2>1, <3>1 DEF AddBuild
  <2>2. ASSUME NEW t \in Thread, DelFree(t) \/ PutFree(t) PROVE \E e, v : e # h /\ mem' = [mem EXCEPT ![e] = v]
    <3>1. pt_entry[t] # h BY <1>2, <2>2 DEF DelFree, PutFree, UnlockTable, Goto
    <3> QED BY <2>2, <3>1 DEF DelFree, PutFree, Free
  <2>3. ASSUME NEW t \in Thread, DelReturn(t) \/ DelLastRef(t) PROVE \E e, n : mem' = [mem EXCEPT ![e].ref_cnt = n]
    BY <2>3 DEF DelReturn, DelLastRef, dec_entry_ref_cnt
  <2>4. ASSUME NEW t \in Thread, Put(t) PROVE \E e, n : mem' = [mem EXCEPT ![e].ref_cnt = n]
    BY <2>4 DEF Put, dec_entry_ref_cnt
  <2>5. ASSUME NEW t \in Thread, GetInc(t) PROVE \E e, n : mem' = [mem EXCEPT ![e].ref_cnt = n]
    BY <2>5 DEF GetInc, inc_entry_ref_cnt
  <2>6. ASSUME NEW t \in Thread, Call(t) PROVE UNCHANGED mem
    BY <2>6 DEF Call, AddCall, DelCall, GetByKey, GetById
  <2>7. ASSUME NEW t \in Thread,
               \/ AddExists(t) \/ AddNew(t) \/ AddRead(t) \/ AddNoMem(t) \/ AddAlloc(t) \/ AddIdHash(t)
               \/ AddKeyHash(t) \/ AddReturn(t) \/ DelMissing(t) \/ DelFound(t) \/ DelIdHash(t)
               \/ DelKeyHash(t) \/ DelAll(t)
        PROVE  UNCHANGED mem
    BY <2>7 DEF AddExists, AddNew, AddRead, AddNoMem, AddAlloc, AddIdHash, AddKeyHash, AddReturn,
                DelMissing, DelFound, DelIdHash, DelKeyHash, DelAll
  <2>8. ASSUME UNCHANGED vars PROVE UNCHANGED mem BY <2>8 DEF vars
  <2> QED BY <2>1, <2>2, <2>3, <2>4, <2>5, <2>6, <2>7, <2>8
       DEF Next, InCall, tab_xxx_add_entry, tab_xxx_del_entry_by_key
<1> QED BY <1>3, <1>4, <1>5, <1>6

\* An entry keeps its id and key as long as somebody holds it, whoever deletes it meanwhile.
THEOREM HeldStable == Spec /\ []HeadNotTaken => HeldIsStable
<1>1. ASSUME TabInv, [Next]_vars
      PROVE  [\A t \in Thread : held[t] # NONE => /\ mem'[held[t]].id = mem[held[t]].id
                                                  /\ mem'[held[t]].key = mem[held[t]].key]_vars
  BY <1>1, StableStep
<1> QED BY <1>1, Inv, PTL DEF Spec, HeldIsStable
=============================================================================
