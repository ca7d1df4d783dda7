--------------------------- MODULE PcQueueProofs ---------------------------
(***************************************************************************)
(* IInv is an inductive invariant of PcQueue, for a ring of any size and   *)
(* any number of items; from it follow exclusive access to the entries,    *)
(* delivery in order, and that the ring implements BoundedFifo.            *)
(***************************************************************************)
EXTENDS PcQueue, Sequences, SequenceTheorems, TLAPS

\* Moving a ring index stays in the ring, and is Wrap of the next number.
LEMMA AdvanceWraps ==
  ASSUME NEW i \in Slots
  PROVE  /\ Advance(i) \in Slots
         /\ Advance(i) = Wrap(i + 1)
BY PcQueueAssumption DEF Slots, Advance, Wrap

\* The zeroed ring satisfies the invariant.
LEMMA InitIInv == Init => IInv
<1> SUFFICES ASSUME Init PROVE IInv
  OBVIOUS
<1> USE PcQueueAssumption DEF Init, Slots, Item, NULL, Whole, NoCopy
<1>1. TypeOK
  BY DEF TypeOK, Entry, Copy, Word
<1>2. FillingOK /\ CopyingOK
  BY DEF FillingOK, CopyingOK, Filling, Copying
<1>3. WindowOK
  BY DEF WindowOK, Released, Published, ProducerEnd, ConsumerEnd, Wrap, Offset
<1>4. QED
  BY <1>1, <1>2, <1>3 DEF IInv

\* Writing one word, or the flag, of an entry gives an entry.
LEMMA WriteEntry ==
  ASSUME NEW f \in [Slots -> Entry], NEW i \in Slots, NEW w \in Word, NEW b \in BOOLEAN
  PROVE  /\ [f EXCEPT ![i].data = w] \in [Slots -> Entry]
         /\ [f EXCEPT ![i].para_int = w] \in [Slots -> Entry]
         /\ [f EXCEPT ![i].para = w] \in [Slots -> Entry]
         /\ [f EXCEPT ![i].valid = b] \in [Slots -> Entry]
<1>1. /\ [f[i] EXCEPT !.data = w] \in Entry
      /\ [f[i] EXCEPT !.para_int = w] \in Entry
      /\ [f[i] EXCEPT !.para = w] \in Entry
      /\ [f[i] EXCEPT !.valid = b] \in Entry
  BY DEF Entry
<1> QED
  BY <1>1

\* Every step keeps the types.
LEMMA NextTypeOK == TypeOK /\ [Next]_vars => TypeOK'
<1> SUFFICES ASSUME TypeOK, [Next]_vars PROVE TypeOK'
  OBVIOUS
<1> USE DEF TypeOK, Item, NULL
<1>1. CASE EnqFull \/ EnqStart \/ DeqEmpty \/ DeqStart \/ UNCHANGED vars
  BY <1>1 DEF EnqFull, EnqStart, DeqEmpty, DeqStart, vars, Whole, NoCopy, Copy, Word
<1>2. CASE EnqData \/ EnqParaInt \/ EnqPara
  <2>1. /\ next \in Word
        /\ pt_p_ptr \in Slots
        /\ entry \in [Slots -> Entry]
    BY DEF Word
  <2>2. entry' \in [Slots -> Entry]
    <3> HIDE DEF TypeOK
    <3>1. CASE EnqData
      BY <2>1, <3>1, WriteEntry DEF EnqData
    <3>2. CASE EnqParaInt
      BY <2>1, <3>2, WriteEntry DEF EnqParaInt
    <3>3. CASE EnqPara
      BY <2>1, <3>3, WriteEntry DEF EnqPara
    <3> QED
      BY <1>2, <3>1, <3>2, <3>3
  <2> QED
    BY <1>2, <2>2 DEF EnqData, EnqParaInt, EnqPara
<1>3. CASE EnqPublish \/ DeqRelease
  <2>1. entry' \in [Slots -> Entry]
    <3>1. CASE EnqPublish
      BY <3>1, Zenon, WriteEntry DEF EnqPublish, Word
    <3>2. CASE DeqRelease
      BY <3>2, Zenon, WriteEntry DEF DeqRelease, Word
    <3> QED
      BY <1>3, <3>1, <3>2
  <2> QED
    BY <1>3, <2>1 DEF EnqPublish, DeqRelease
<1>4. CASE EnqReturn \/ DeqReturn
  BY <1>4, AdvanceWraps DEF EnqReturn, DeqReturn, Whole, NoCopy, Copy, Word
<1>5. CASE DeqData \/ DeqParaInt \/ DeqPara
  BY <1>5 DEF DeqData, DeqParaInt, DeqPara, Copy, Entry, Word
<1>6. QED
  BY <1>1, <1>2, <1>3, <1>4, <1>5 DEF Next, pc_que_enq_try, pc_que_outq_try

-----------------------------------------------------------------------------
\* The ends of the queue are ring indices and the counts are numbers.
LEMMA EndsType ==
  ASSUME TypeOK
  PROVE  /\ ProducerEnd \in Slots
         /\ ConsumerEnd \in Slots
         /\ Published \in Nat
         /\ Released \in Nat
BY AdvanceWraps DEF TypeOK, ProducerEnd, ConsumerEnd, Published, Released, Item, NULL

\* The slot at the producer's end is one window ahead of the consumer's end, so it
\* is outside the window exactly when the window does not fill the ring; and it is
\* the only slot at that distance.
LEMMA OffsetOfEnd ==
  ASSUME NEW c \in Slots, NEW n \in 0 .. Size, NEW i \in Slots
  PROVE  LET off(x) == IF x >= c THEN x - c ELSE x - c + Size
         IN  /\ off(i) \in 0 .. Size - 1
             /\ off(Wrap(c + n)) = IF n = Size THEN 0 ELSE n
             /\ n < Size => (off(i) = n <=> i = Wrap(c + n))
BY PcQueueAssumption DEF Slots, Wrap

\* Releasing the slot at the consumer's end brings every other slot one nearer and
\* sends that slot to the far end.
LEMMA OffsetAfterRelease ==
  ASSUME NEW c \in Slots, NEW i \in Slots
  PROVE  LET d == Advance(c)
             before == IF i >= c THEN i - c ELSE i - c + Size
             after == IF i >= d THEN i - d ELSE i - d + Size
         IN  after = IF i = c THEN Size - 1 ELSE before - 1
BY PcQueueAssumption DEF Slots, Advance

\* A step that leaves the ring and its ends alone keeps the window.
LEMMA WindowFrame ==
  ASSUME WindowOK, entry' = entry,
         Published' = Published, Released' = Released,
         ProducerEnd' = ProducerEnd, ConsumerEnd' = ConsumerEnd
  PROVE  WindowOK'
<1>1. \A i \in Slots : Offset(i)' = Offset(i)
  BY DEF Offset
<1> QED
  BY <1>1 DEF WindowOK, Wrap

\* Writing a word of an entry that is not valid keeps the window.
LEMMA WindowWord ==
  ASSUME IInv, EnqData \/ EnqParaInt \/ EnqPara
  PROVE  WindowOK'
<1>1. /\ Published' = Published
      /\ Released' = Released
      /\ ProducerEnd' = ProducerEnd
      /\ ConsumerEnd' = ConsumerEnd
  BY DEF EnqData, EnqParaInt, EnqPara, Published, Released, ProducerEnd, ConsumerEnd, Advance
<1>2. \A i \in Slots : Offset(i)' = Offset(i)
  BY <1>1 DEF Offset
<1>3. ~entry[pt_p_ptr].valid /\ pt_p_ptr \in Slots /\ entry \in [Slots -> Entry]
  BY DEF IInv, TypeOK, FillingOK, Filling, EnqData, EnqParaInt, EnqPara
<1>4. \A i \in Slots :
        /\ entry'[i].valid = entry[i].valid
        /\ entry[i].valid => entry'[i] = entry[i]
  BY <1>3 DEF EnqData, EnqParaInt, EnqPara, Entry
<1> QED
  BY <1>1, <1>2, <1>4 DEF IInv, WindowOK, Wrap

\* Publishing extends the window by the entry at the producer's end.
LEMMA WindowPublish ==
  ASSUME IInv, EnqPublish
  PROVE  WindowOK'
<1> DEFINE n == Published - Released
<1>1. /\ p_pc = "publish"
      /\ entry' = [entry EXCEPT ![pt_p_ptr].valid = TRUE]
      /\ Published = next - 1
      /\ Published' = Published + 1
      /\ Released' = Released
      /\ ProducerEnd = pt_p_ptr
      /\ ProducerEnd' = Advance(pt_p_ptr)
      /\ ConsumerEnd' = ConsumerEnd
  BY DEF EnqPublish, IInv, TypeOK, Item, NULL, Published, Released, ProducerEnd, ConsumerEnd, Advance
<1>2. /\ pt_p_ptr \in Slots
      /\ ConsumerEnd \in Slots
      /\ Published \in Nat
      /\ Released \in Nat
      /\ n \in 0 .. Size
      /\ entry \in [Slots -> Entry]
  BY EndsType, PcQueueAssumption DEF IInv, TypeOK, WindowOK
<1>3. \A i \in Slots : Offset(i)' = Offset(i) /\ Offset(i) \in 0 .. Size - 1
  BY <1>1, <1>2, PcQueueAssumption DEF Offset, Slots
<1>4. /\ ~entry[pt_p_ptr].valid
      /\ entry[pt_p_ptr].data = next
      /\ entry[pt_p_ptr].para_int = next
      /\ entry[pt_p_ptr].para = next
  BY <1>1 DEF IInv, FillingOK, Filling
<1>5. pt_p_ptr = Wrap(ConsumerEnd + n)
  BY <1>1 DEF IInv, WindowOK
<1>6. Offset(pt_p_ptr) = IF n = Size THEN 0 ELSE n
  BY <1>2, <1>5, OffsetOfEnd DEF Offset
<1>7. ~(Offset(pt_p_ptr) < n)
  BY <1>2, <1>4 DEF IInv, WindowOK
<1>8. n < Size /\ Offset(pt_p_ptr) = n
  BY <1>2, <1>6, <1>7, PcQueueAssumption
<1>9. \A i \in Slots : Offset(i) = n <=> i = pt_p_ptr
  BY <1>2, <1>5, <1>8, OffsetOfEnd DEF Offset
<1>10. Advance(pt_p_ptr) = Wrap(ConsumerEnd + (n + 1))
  BY <1>2, <1>5, <1>8, PcQueueAssumption DEF Advance, Wrap, Slots
<1>11. \A i \in Slots :
         /\ entry'[i].valid <=> Offset(i) < n + 1
         /\ entry'[i].valid => /\ entry'[i].data = Released + 1 + Offset(i)
                               /\ entry'[i].para_int = Released + 1 + Offset(i)
                               /\ entry'[i].para = Released + 1 + Offset(i)
  <2> SUFFICES ASSUME NEW i \in Slots
               PROVE  /\ entry'[i].valid <=> Offset(i) < n + 1
                      /\ entry'[i].valid => /\ entry'[i].data = Released + 1 + Offset(i)
                                            /\ entry'[i].para_int = Released + 1 + Offset(i)
                                            /\ entry'[i].para = Released + 1 + Offset(i)
    OBVIOUS
  <2>1. CASE i = pt_p_ptr
    <3>1. /\ entry'[i].valid = TRUE
          /\ entry'[i].data = next
          /\ entry'[i].para_int = next
          /\ entry'[i].para = next
      BY <1>1, <1>2, <1>4, <2>1 DEF Entry
    <3>2. next = Released + 1 + n
      BY <1>1, <1>2 DEF IInv, TypeOK, Item, NULL
    <3> QED
      BY <1>2, <1>8, <2>1, <3>1, <3>2
  <2>2. CASE i # pt_p_ptr
    <3>1. entry'[i] = entry[i]
      BY <1>1, <1>2, <2>2
    <3>2. Offset(i) # n /\ Offset(i) \in Int /\ n \in Int
      BY <1>2, <1>3, <1>9, <2>2
    <3>3. Offset(i) < n <=> Offset(i) < n + 1
      BY <3>2
    <3> QED
      BY <3>1, <3>3 DEF IInv, WindowOK
  <2> QED
    BY <2>1, <2>2
<1>12. /\ Published' - Released' = n + 1
       /\ Released' <= Published'
       /\ n + 1 <= Size
  BY <1>1, <1>2, <1>8, PcQueueAssumption
<1>13. ProducerEnd' = Wrap(ConsumerEnd' + (Published' - Released'))
  BY <1>1, <1>10, <1>12
<1>14. \A i \in Slots :
         /\ entry'[i].valid <=> Offset(i)' < Published' - Released'
         /\ entry'[i].valid => /\ entry'[i].data = Released' + 1 + Offset(i)'
                               /\ entry'[i].para_int = Released' + 1 + Offset(i)'
                               /\ entry'[i].para = Released' + 1 + Offset(i)'
  BY <1>1, <1>3, <1>11, <1>12
<1> QED
  BY <1>12, <1>13, <1>14 DEF WindowOK, Wrap

\* Releasing takes the entry at the consumer's end out of the window.
LEMMA WindowRelease ==
  ASSUME IInv, DeqRelease
  PROVE  WindowOK'
<1> DEFINE n == Published - Released
<1>1. /\ c_pc = "release"
      /\ entry' = [entry EXCEPT ![pt_c_ptr].valid = FALSE]
      /\ Published' = Published
      /\ Released' = Released + 1
      /\ ProducerEnd' = ProducerEnd
      /\ ConsumerEnd = pt_c_ptr
      /\ ConsumerEnd' = Advance(pt_c_ptr)
  BY DEF DeqRelease, IInv, TypeOK, Published, Released, ProducerEnd, ConsumerEnd, Advance
<1>2. /\ pt_c_ptr \in Slots
      /\ Published \in Nat
      /\ Released \in Nat
      /\ n \in 0 .. Size
      /\ entry \in [Slots -> Entry]
  BY EndsType, PcQueueAssumption DEF IInv, TypeOK, WindowOK
<1>3. \A i \in Slots : Offset(i) \in 0 .. Size - 1
  BY <1>1, <1>2, PcQueueAssumption DEF Offset, Slots
<1>4. \A i \in Slots : Offset(i)' = IF i = pt_c_ptr THEN Size - 1 ELSE Offset(i) - 1
  BY <1>1, <1>2, OffsetAfterRelease DEF Offset
<1>5. entry[pt_c_ptr].valid
  BY <1>1 DEF IInv, CopyingOK, Copying
<1>6. n >= 1
  BY <1>2, <1>3, <1>5 DEF IInv, WindowOK
<1>7. ProducerEnd = Wrap(Advance(pt_c_ptr) + (n - 1))
  <2>1. ProducerEnd = Wrap(pt_c_ptr + n)
    BY <1>1 DEF IInv, WindowOK
  <2> QED
    BY <1>2, <1>6, <2>1, PcQueueAssumption DEF Advance, Wrap, Slots
<1>8. Published' - Released' = n - 1
  BY <1>1, <1>2
<1>9. \A i \in Slots :
        /\ entry'[i].valid <=> Offset(i)' < n - 1
        /\ entry'[i].valid => /\ entry'[i].data = Released + 2 + Offset(i)'
                              /\ entry'[i].para_int = Released + 2 + Offset(i)'
                              /\ entry'[i].para = Released + 2 + Offset(i)'
  <2> SUFFICES ASSUME NEW i \in Slots
               PROVE  /\ entry'[i].valid <=> Offset(i)' < n - 1
                      /\ entry'[i].valid => /\ entry'[i].data = Released + 2 + Offset(i)'
                                            /\ entry'[i].para_int = Released + 2 + Offset(i)'
                                            /\ entry'[i].para = Released + 2 + Offset(i)'
    OBVIOUS
  <2>1. CASE i = pt_c_ptr
    <3>1. entry'[i].valid = FALSE
      BY <1>1, <1>2, <2>1 DEF Entry
    <3>2. ~(Offset(i)' < n - 1)
      BY <1>2, <1>4, <2>1, PcQueueAssumption
    <3> QED
      BY <3>1, <3>2
  <2>2. CASE i # pt_c_ptr
    <3>1. entry'[i] = entry[i]
      BY <1>1, <1>2, <2>2
    <3>2. Offset(i)' = Offset(i) - 1 /\ Offset(i) \in Int /\ n \in Int /\ Released \in Int
      BY <1>2, <1>3, <1>4, <2>2
    <3>3. /\ Offset(i) < n <=> Offset(i)' < n - 1
          /\ Released + 1 + Offset(i) = Released + 2 + Offset(i)'
      BY <3>2
    <3> QED
      BY <3>1, <3>3 DEF IInv, WindowOK
  <2> QED
    BY <2>1, <2>2
<1>10. Released' + 1 = Released + 2 /\ Released' <= Published' /\ n - 1 <= Size
  BY <1>1, <1>2, <1>6, PcQueueAssumption
<1> QED
  BY <1>1, <1>7, <1>8, <1>9, <1>10 DEF WindowOK, Wrap

-----------------------------------------------------------------------------
\* Steps that leave the ring alone, or only move a pointer over an entry that is
\* already published or released, keep the window.
LEMMA WindowOther ==
  ASSUME IInv,
         \/ EnqFull \/ EnqStart \/ EnqReturn
         \/ DeqEmpty \/ DeqStart \/ DeqData \/ DeqParaInt \/ DeqPara \/ DeqReturn
         \/ UNCHANGED vars
  PROVE  WindowOK'
<1>1. next \in Nat /\ taken \in Nat
  BY DEF IInv, TypeOK, Item, NULL
<1>2. CASE EnqFull \/ EnqStart \/ EnqReturn
  <2>1. /\ entry' = entry
        /\ Published' = Published
        /\ Released' = Released
        /\ ProducerEnd' = ProducerEnd
        /\ ConsumerEnd' = ConsumerEnd
    BY <1>1, <1>2 DEF EnqFull, EnqStart, EnqReturn,
                      Published, Released, ProducerEnd, ConsumerEnd, Advance
  <2> QED
    BY <2>1, WindowFrame DEF IInv
<1>3. CASE \/ DeqEmpty \/ DeqStart \/ DeqData \/ DeqParaInt \/ DeqPara \/ DeqReturn
           \/ UNCHANGED vars
  <2>1. /\ entry' = entry
        /\ Published' = Published
        /\ Released' = Released
        /\ ProducerEnd' = ProducerEnd
        /\ ConsumerEnd' = ConsumerEnd
    BY <1>1, <1>3 DEF DeqEmpty, DeqStart, DeqData, DeqParaInt, DeqPara, DeqReturn, vars,
                      Published, Released, ProducerEnd, ConsumerEnd, Advance
  <2> QED
    BY <2>1, WindowFrame DEF IInv
<1> QED
  BY <1>2, <1>3

LEMMA NextWindowOK == IInv /\ [Next]_vars => WindowOK'
BY WindowOther, WindowWord, WindowPublish, WindowRelease
   DEF Next, pc_que_enq_try, pc_que_outq_try

\* The entry being filled stays invalid, and each word, once written, stays: the
\* consumer only clears a flag.
LEMMA NextFillingOK == IInv /\ [Next]_vars => FillingOK'
<1> SUFFICES ASSUME IInv, [Next]_vars PROVE FillingOK'
  OBVIOUS
<1> USE DEF FillingOK, Filling
<1>1. TypeOK /\ FillingOK
  BY DEF IInv
<1>2. entry \in [Slots -> Entry] /\ pt_p_ptr \in Slots /\ pt_c_ptr \in Slots
  BY <1>1 DEF TypeOK
<1>3. CASE EnqFull \/ EnqStart \/ EnqReturn
  BY <1>1, <1>3 DEF EnqFull, EnqStart, EnqReturn
<1>4. CASE EnqData
  BY <1>1, <1>2, <1>4 DEF EnqData, Entry
<1>5. CASE EnqParaInt
  BY <1>1, <1>2, <1>5 DEF EnqParaInt, Entry
<1>6. CASE EnqPara
  BY <1>1, <1>2, <1>6 DEF EnqPara, Entry
<1>7. CASE EnqPublish
  BY <1>7 DEF EnqPublish
<1>8. CASE DeqRelease
  BY <1>1, <1>2, <1>8 DEF DeqRelease, Entry
<1>9. CASE \/ DeqEmpty \/ DeqStart \/ DeqData \/ DeqParaInt \/ DeqPara \/ DeqReturn
           \/ UNCHANGED vars
  BY <1>1, <1>9 DEF DeqEmpty, DeqStart, DeqData, DeqParaInt, DeqPara, DeqReturn, vars
<1> QED
  BY <1>3, <1>4, <1>5, <1>6, <1>7, <1>8, <1>9 DEF Next, pc_que_enq_try, pc_que_outq_try

\* The entry being copied is the first of the window, stays valid, and its words are
\* those of item taken + 1; the producer only writes words of an invalid entry.
LEMMA NextCopyingOK == IInv /\ [Next]_vars => CopyingOK'
<1> SUFFICES ASSUME IInv, [Next]_vars PROVE CopyingOK'
  OBVIOUS
<1> USE DEF CopyingOK, Copying
<1>1. TypeOK /\ CopyingOK
  BY DEF IInv
<1>2. /\ entry \in [Slots -> Entry]
      /\ pt_p_ptr \in Slots
      /\ pt_c_ptr \in Slots
      /\ out \in Copy
      /\ taken \in Nat
  BY <1>1 DEF TypeOK
<1>3. c_pc # "advance" /\ entry[pt_c_ptr].valid =>
        /\ entry[pt_c_ptr].data = taken + 1
        /\ entry[pt_c_ptr].para_int = taken + 1
        /\ entry[pt_c_ptr].para = taken + 1
  <2> SUFFICES ASSUME c_pc # "advance", entry[pt_c_ptr].valid
               PROVE  /\ entry[pt_c_ptr].data = taken + 1
                      /\ entry[pt_c_ptr].para_int = taken + 1
                      /\ entry[pt_c_ptr].para = taken + 1
    OBVIOUS
  <2>1. Offset(pt_c_ptr) = 0 /\ Released = taken
    BY <1>2, PcQueueAssumption DEF Offset, ConsumerEnd, Released, Slots
  <2> QED
    BY <1>2, <2>1 DEF IInv, WindowOK
<1>4. CASE EnqFull \/ EnqStart \/ EnqReturn \/ UNCHANGED vars
  BY <1>1, <1>4 DEF EnqFull, EnqStart, EnqReturn, vars
<1>5. CASE EnqData \/ EnqParaInt \/ EnqPara \/ EnqPublish
  <2>1. Copying => entry'[pt_c_ptr].valid
    BY <1>1, <1>2, <1>5 DEF EnqData, EnqParaInt, EnqPara, EnqPublish, Entry
  <2>2. UNCHANGED <<pt_c_ptr, c_pc, out, taken>>
    BY <1>5 DEF EnqData, EnqParaInt, EnqPara, EnqPublish
  <2> QED
    BY <1>1, <2>1, <2>2
<1>6. CASE DeqEmpty \/ DeqStart \/ DeqReturn
  BY <1>1, <1>6 DEF DeqEmpty, DeqStart, DeqReturn
<1>7. CASE DeqData
  BY <1>1, <1>2, <1>3, <1>7 DEF DeqData, Copy
<1>8. CASE DeqParaInt
  BY <1>1, <1>2, <1>3, <1>8 DEF DeqParaInt, Copy
<1>9. CASE DeqPara
  BY <1>1, <1>2, <1>3, <1>9 DEF DeqPara, Copy
<1>10. CASE DeqRelease
  BY <1>1, <1>2, <1>10 DEF DeqRelease
<1> QED
  BY <1>4, <1>5, <1>6, <1>7, <1>8, <1>9, <1>10 DEF Next, pc_que_enq_try, pc_que_outq_try

-----------------------------------------------------------------------------
\* IInv holds in every state of every behaviour, whatever the size of the ring and
\* the number of items: in particular the flags describe the window between the
\* two pointers, and every variable keeps its type.
THEOREM Invariance == Spec => []IInv
<1>1. IInv /\ [Next]_vars => IInv'
  BY NextTypeOK, NextFillingOK, NextCopyingOK, NextWindowOK DEF IInv
<1>2. QED
  BY InitIInv, <1>1, PTL DEF Spec

\* The invariant excludes the producer from the entry that the consumer copies.
LEMMA IInvExclusive == IInv => ExclusiveEntry
BY DEF IInv, FillingOK, CopyingOK, ExclusiveEntry

\* The invariant says what is about to be returned.
LEMMA IInvInOrder == IInv => InOrder
<1> SUFFICES ASSUME IInv, c_pc = "advance" PROVE out = Whole(taken + 1)
  BY DEF InOrder
<1> QED
  BY DEF IInv, TypeOK, CopyingOK, Copy, Word, Whole

\* The producer never fills the entry the consumer is copying (pc_que_enq_try and
\* pc_que_outq_try need no lock).
THEOREM Exclusion == Spec => []ExclusiveEntry
BY Invariance, IInvExclusive, PTL

\* pc_que_outq_try returns whole items, each once and in the order they were offered.
THEOREM DeliveryInOrder == Spec => []InOrder
BY Invariance, IInvInOrder, PTL

-----------------------------------------------------------------------------
(***************************************************************************)
(* Every behaviour of PcQueue, read through the mapping of the instance    *)
(* Fifo, is a behaviour of BoundedFifo: the ring is a FIFO of Size items   *)
(* whose answers are right at one instant of the call.                     *)
(***************************************************************************)
\* The n items after item r.
Items(r, n) == [k \in 1 .. n |-> Whole(r + k)]

\* What the operators of Sequences do to such a run of items.
LEMMA ItemsSeq ==
  ASSUME NEW r \in Nat, NEW n \in Nat
  PROVE  /\ Items(r, n) \in Seq(Copy)
         /\ Len(Items(r, n)) = n
         /\ n = 0 <=> Items(r, n) = <<>>
<1>1. \A k \in 1 .. n : Whole(r + k) \in Copy
  BY DEF Whole, Copy, Word
<1>2. Items(r, n) \in [1 .. n -> Copy]
  BY <1>1 DEF Items
<1>3. Items(r, n) \in Seq(Copy) /\ Len(Items(r, n)) = n
  BY <1>2
<1> QED
  BY <1>3, EmptySeq

LEMMA ItemsAppend ==
  ASSUME NEW r \in Nat, NEW n \in Nat
  PROVE  Append(Items(r, n), Whole(r + n + 1)) = Items(r, n + 1)
<1> DEFINE s == Items(r, n)
           t == Items(r, n + 1)
           e == Whole(r + n + 1)
<1>1. s \in Seq(Copy) /\ Len(s) = n
  BY ItemsSeq
<1>2. t \in Seq(Copy) /\ Len(t) = n + 1
  BY ItemsSeq
<1>3. e \in Copy
  BY DEF Whole, Copy, Word
<1>4. /\ Append(s, e) \in Seq(Copy)
      /\ Len(Append(s, e)) = n + 1
      /\ \A i \in 1 .. n : Append(s, e)[i] = s[i]
      /\ Append(s, e)[n + 1] = e
  BY <1>1, <1>3, AppendProperties
<1>5. \A i \in 1 .. n + 1 : Append(s, e)[i] = t[i]
  BY <1>4 DEF Items
<1> HIDE DEF s, t, e
<1>6. Append(s, e) = t
  BY <1>2, <1>4, <1>5, SeqEqual
<1> QED
  BY <1>6 DEF s, t, e

LEMMA ItemsHeadTail ==
  ASSUME NEW r \in Nat, NEW n \in Nat \ {0}
  PROVE  /\ Head(Items(r, n)) = Whole(r + 1)
         /\ Tail(Items(r, n)) = Items(r + 1, n - 1)
<1> DEFINE s == Items(r, n)
           t == Items(r + 1, n - 1)
<1>1. s \in Seq(Copy) /\ Len(s) = n /\ s # <<>>
  BY ItemsSeq
<1>2. t \in Seq(Copy) /\ Len(t) = n - 1
  BY ItemsSeq
<1>3. /\ Head(s) = s[1]
      /\ Tail(s) \in Seq(Copy)
      /\ Len(Tail(s)) = n - 1
      /\ \A i \in 1 .. n - 1 : Tail(s)[i] = s[i + 1]
  BY <1>1, HeadTailProperties
<1>4. Head(s) = Whole(r + 1)
  BY <1>3 DEF Items
<1>5. \A i \in 1 .. n - 1 : s[i + 1] = t[i]
  BY DEF Items
<1> HIDE DEF s, t
<1>6. Tail(s) = t
  BY <1>2, <1>3, <1>5, SeqEqual
<1> QED
  BY <1>4, <1>6 DEF s, t

\* Under the invariant the queue that the mapping reads off the ring is the run of
\* items published and not released.
QueuedIsItems ==
  /\ Queued = Items(Released, Published - Released)
  /\ Published - Released \in 0 .. Size
  /\ Released \in Nat

LEMMA QueuedItems == IInv => QueuedIsItems
<1> SUFFICES ASSUME IInv PROVE QueuedIsItems
  OBVIOUS
<1>1. /\ ConsumerEnd \in Slots
      /\ Published \in Nat
      /\ Released \in Nat
      /\ Published - Released \in 0 .. Size
  BY EndsType, PcQueueAssumption DEF IInv, WindowOK
<1>2. \A k \in 1 .. Published - Released : Content(Wrap(ConsumerEnd + k - 1)) = Whole(Released + k)
  <2> SUFFICES ASSUME NEW k \in 1 .. Published - Released
               PROVE  Content(Wrap(ConsumerEnd + k - 1)) = Whole(Released + k)
    OBVIOUS
  <2> DEFINE i == Wrap(ConsumerEnd + k - 1)
  <2>1. i \in Slots /\ Offset(i) = k - 1
    BY <1>1, PcQueueAssumption DEF Slots, Wrap, Offset
  <2>2. Offset(i) < Published - Released
    BY <1>1, <2>1
  <2>3. /\ entry[i].data = Released + 1 + Offset(i)
        /\ entry[i].para_int = Released + 1 + Offset(i)
        /\ entry[i].para = Released + 1 + Offset(i)
    BY <2>1, <2>2 DEF IInv, WindowOK
  <2>4. Released + 1 + Offset(i) = Released + k
    BY <1>1, <2>1
  <2> HIDE DEF i
  <2>5. Content(i) = Whole(Released + k)
    BY <2>3, <2>4 DEF Content, Whole
  <2> QED
    BY <2>5 DEF i
<1> QED
  BY <1>1, <1>2 DEF QueuedIsItems, Queued, Items

LEMMA QueuedItemsNext == IInv' => QueuedIsItems'
BY QueuedItems, PTL

LEMMA IInvInOrderNext == IInv' => InOrder'
BY IInvInOrder, PTL

-----------------------------------------------------------------------------
LEMMA InitRefines == Init => Fifo!FifoInit
<1> SUFFICES ASSUME Init PROVE Fifo!FifoInit
  OBVIOUS
<1>1. Published = 0 /\ Released = 0
  BY DEF Init, Published, Released
<1>2. Queued = <<>>
  BY <1>1 DEF Queued
<1> QED
  BY <1>2 DEF Init, Fifo!FifoInit

\* Steps between the reading of a flag and the writing of it change nothing that the
\* FIFO sees, and neither does the return after the write.
LEMMA SilentStep ==
  ASSUME IInv, IInv',
         \/ EnqStart \/ EnqData \/ EnqParaInt \/ EnqPara \/ EnqReturn
         \/ DeqStart \/ DeqData \/ DeqParaInt \/ DeqPara \/ DeqReturn
         \/ UNCHANGED vars
  PROVE  UNCHANGED Fifo!fifoVars
<1>1. next \in Nat /\ taken \in Nat
  BY DEF IInv, TypeOK, Item, NULL
<1>2. /\ Published' = Published
      /\ Released' = Released
      /\ (IF p_pc = "advance" THEN 0 ELSE enq_ret)' = IF p_pc = "advance" THEN 0 ELSE enq_ret
      /\ (IF c_pc = "advance" THEN out ELSE deq_ret)' = IF c_pc = "advance" THEN out ELSE deq_ret
  <2>1. CASE \/ EnqStart \/ EnqData \/ EnqParaInt \/ EnqPara \/ EnqReturn
             \/ UNCHANGED vars
    BY <1>1, <2>1 DEF EnqStart, EnqData, EnqParaInt, EnqPara, EnqReturn, vars, Published, Released
  <2>2. CASE DeqStart \/ DeqData \/ DeqParaInt \/ DeqPara \/ DeqReturn
    BY <1>1, <2>2 DEF DeqStart, DeqData, DeqParaInt, DeqPara, DeqReturn, Published, Released
  <2> QED
    BY <2>1, <2>2
<1>3. Queued' = Queued
  <2>1. Queued = Items(Released, Published - Released)
    BY QueuedItems DEF QueuedIsItems
  <2>2. Queued' = Items(Released', Published' - Released')
    BY QueuedItemsNext DEF QueuedIsItems, Items, Whole
  <2> QED
    BY <1>2, <2>1, <2>2
<1> QED
  BY <1>2, <1>3 DEF Fifo!fifoVars

\* The write of valid = 1 is the enqueue.
LEMMA PublishPuts ==
  ASSUME IInv, IInv', EnqPublish
  PROVE  Fifo!Put(Whole(next)) /\ Whole(next) \in {Whole(k) : k \in 1 .. MaxItem}
<1>1. /\ Published = next - 1
      /\ Published' = Published + 1
      /\ Released' = Released
      /\ next \in Nat \ {0}
      /\ UNCHANGED <<c_pc, out, deq_ret>>
      /\ p_pc' = "advance"
  BY DEF EnqPublish, IInv, TypeOK, Item, NULL, Published, Released
<1>2. next \in 1 .. MaxItem
  BY <1>1, PcQueueAssumption DEF EnqPublish, IInv, FillingOK, Filling
<1>3. /\ Released \in Nat
      /\ Published - Released \in 0 .. Size
      /\ Published' - Released' \in 0 .. Size
  BY QueuedItems, QueuedItemsNext DEF QueuedIsItems
<1>4. /\ Published' - Released' = Published - Released + 1
      /\ Released + (Published - Released) + 1 = next
  BY <1>1, <1>3
<1>5. Queued = Items(Released, Published - Released)
  BY QueuedItems, QueuedItemsNext DEF QueuedIsItems
<1>6. Queued' = Items(Released, Published - Released + 1)
  BY <1>1, <1>4, QueuedItemsNext DEF QueuedIsItems, Items, Whole
<1>7. Queued' = Append(Queued, Whole(next))
  <2>1. Published - Released \in Nat
    BY <1>3
  <2>2. Append(Items(Released, Published - Released), Whole(Released + (Published - Released) + 1))
          = Items(Released, Published - Released + 1)
    BY <1>3, <2>1, ItemsAppend
  <2> QED
    BY <1>4, <1>5, <1>6, <2>2
<1>8. Len(Queued) < Size
  BY <1>3, <1>4, <1>5, ItemsSeq, PcQueueAssumption
<1> QED
  BY <1>1, <1>2, <1>7, <1>8 DEF Fifo!Put

\* The write of valid = 0 is the dequeue.
LEMMA ReleaseTakes ==
  ASSUME IInv, IInv', DeqRelease
  PROVE  Fifo!Take
<1>1. /\ Released = taken
      /\ Released' = taken + 1
      /\ Published' = Published
      /\ taken \in Nat
      /\ c_pc' = "advance"
      /\ taken' = taken
      /\ UNCHANGED <<p_pc, enq_ret>>
  BY DEF DeqRelease, IInv, TypeOK, Published, Released
<1>2. /\ Published - Released \in 0 .. Size
      /\ Published' - Released' \in 0 .. Size
      /\ Released \in Nat
      /\ Published \in Nat
  BY QueuedItems, QueuedItemsNext, EndsType DEF IInv, QueuedIsItems
<1>3. Published' - Released' = Published - Released - 1 /\ Published - Released \in Nat \ {0}
  BY <1>1, <1>2, PcQueueAssumption
<1>4. Queued = Items(taken, Published - Released)
  BY <1>1, QueuedItems DEF QueuedIsItems
<1>5. Queued' = Items(taken + 1, Published - Released - 1)
  BY <1>1, <1>3, QueuedItemsNext DEF QueuedIsItems, Items, Whole
<1>6. Queued # <<>>
  BY <1>1, <1>3, <1>4, ItemsSeq
<1>7. Head(Queued) = Whole(taken + 1) /\ Queued' = Tail(Queued)
  BY <1>1, <1>3, <1>4, <1>5, ItemsHeadTail
<1>8. out' = Whole(taken + 1)
  BY <1>1, IInvInOrderNext DEF InOrder, Whole
<1> QED
  BY <1>1, <1>6, <1>7, <1>8 DEF Fifo!Take

\* A flag read as 1 by the producer means the queue is full, and one read as 0 by the
\* consumer that it is empty.
LEMMA FullIsFull ==
  ASSUME IInv, IInv', EnqFull
  PROVE  Fifo!PutFull
<1>1. /\ ProducerEnd = pt_p_ptr
      /\ entry[pt_p_ptr].valid
      /\ pt_p_ptr \in Slots
      /\ ConsumerEnd \in Slots
  BY EndsType DEF EnqFull, IInv, TypeOK, ProducerEnd
<1>2. /\ Published - Released \in 0 .. Size
      /\ Released \in Nat
      /\ Queued = Items(Released, Published - Released)
  BY QueuedItems, QueuedItemsNext DEF QueuedIsItems
<1>3. Offset(pt_p_ptr) = IF Published - Released = Size THEN 0 ELSE Published - Released
  BY <1>1, <1>2, OffsetOfEnd DEF IInv, WindowOK, Offset
<1>4. Offset(pt_p_ptr) < Published - Released
  BY <1>1 DEF IInv, WindowOK
<1>5. Published - Released = Size
  BY <1>2, <1>3, <1>4, PcQueueAssumption
<1>6. Len(Queued) = Size
  BY <1>2, <1>5, ItemsSeq, PcQueueAssumption
<1>7. Published' = Published /\ Released' = Released /\ p_pc' # "advance" /\ enq_ret' = 1
  BY DEF EnqFull, Published, Released
<1>8. Queued' = Queued
  BY <1>2, <1>7, QueuedItemsNext DEF QueuedIsItems, Items, Whole
<1>9. UNCHANGED <<c_pc, out, deq_ret>>
  BY DEF EnqFull
<1> QED
  BY <1>6, <1>7, <1>8, <1>9 DEF Fifo!PutFull

LEMMA EmptyIsEmpty ==
  ASSUME IInv, IInv', DeqEmpty
  PROVE  Fifo!TakeEmpty
<1>1. /\ ConsumerEnd = pt_c_ptr
      /\ ~entry[pt_c_ptr].valid
      /\ pt_c_ptr \in Slots
  BY DEF DeqEmpty, IInv, TypeOK, ConsumerEnd
<1>2. /\ Published - Released \in 0 .. Size
      /\ Released \in Nat
      /\ Queued = Items(Released, Published - Released)
  BY QueuedItems, QueuedItemsNext DEF QueuedIsItems
<1>3. Offset(pt_c_ptr) = 0
  BY <1>1 DEF Offset, Slots
<1>4. Published - Released = 0
  BY <1>1, <1>2, <1>3 DEF IInv, WindowOK
<1>5. Queued = <<>>
  BY <1>2, <1>4, ItemsSeq
<1>6. Published' = Published /\ Released' = Released /\ c_pc' # "advance" /\ deq_ret' = NoCopy
  BY DEF DeqEmpty, Published, Released
<1>7. Queued' = Queued
  BY <1>2, <1>6, QueuedItemsNext DEF QueuedIsItems, Items, Whole
<1>8. UNCHANGED <<p_pc, enq_ret>>
  BY DEF DeqEmpty
<1> QED
  BY <1>5, <1>6, <1>7, <1>8 DEF Fifo!TakeEmpty

\* Every behaviour of the ring is a behaviour of the bounded FIFO: pc_que_enq_try and
\* pc_que_outq_try are atomic operations on a queue of nr_entry items.
THEOREM Refinement == Spec => RefinesFifo
<1>1. IInv /\ IInv' /\ [Next]_vars => [Fifo!FifoNext]_(Fifo!fifoVars)
  BY SilentStep, PublishPuts, ReleaseTakes, FullIsFull, EmptyIsEmpty
     DEF Next, pc_que_enq_try, pc_que_outq_try, Fifo!FifoNext
<1>2. QED
  BY InitRefines, Invariance, <1>1, PTL DEF Spec, RefinesFifo, Fifo!FifoSpec
============================================================================
