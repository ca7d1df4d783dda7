----------------------------- MODULE P2pProofs -----------------------------
(* P2p for any number of users, addresses, buffers and hash lines, any     *)
(* clock and any number of crashes: the table of requests keeps its        *)
(* buffers and implements P2pDirectory, and a client talks to addresses of *)
(* the user it was told to talk to.                                        *)
EXTENDS P2p, SequenceTheorems, FiniteSetTheorems, WellFoundedInduction, TLAPS

(* Lists of buffers.                                                       *)

\* A set of natural numbers that is not empty has a least element.
LEMMA Least ==
  ASSUME NEW T, T \subseteq Nat, T # {}
  PROVE  \E x \in T : \A y \in T : x <= y
<1>1. PICK x \in T : \A y \in T : ~(<<y, x>> \in OpToRel(<, Nat))
  BY NatLessThanWellFounded, WFMin, Zenon
<1>2. \A y \in T : y < x => <<y, x>> \in OpToRel(<, Nat)
  <2> SUFFICES ASSUME NEW y \in T, y < x PROVE <<y, x>> \in OpToRel(<, Nat) OBVIOUS
  <2>1. <<y, x>> \in Nat \X Nat OBVIOUS
  <2>2. <<y, x>>[1] < <<y, x>>[2] OBVIOUS
  <2> QED BY <2>1, <2>2, Zenon DEF OpToRel
<1>3. \A y \in T : ~(y < x) BY <1>1, <1>2, Zenon
<1> QED BY <1>3

\* What a list of members of S holds.
LEMMA Members ==
  ASSUME NEW S, NEW s \in Seq(S)
  PROVE  /\ ToSet(s) \subseteq S /\ Len(s) \in Nat /\ DOMAIN s = 1 .. Len(s)
         /\ \A i \in 1 .. Len(s) : s[i] \in S /\ s[i] \in ToSet(s)
         /\ \A x \in ToSet(s) : \E i \in 1 .. Len(s) : s[i] = x
BY DEF ToSet

\* Unlink takes b out of a list without repetitions and keeps the order of the others.
LEMMA UnlinkList ==
  ASSUME NEW S, NEW s \in Seq(S), IsInjective(s), NEW b
  PROVE  /\ Unlink(s, b) \in Seq(S) /\ IsInjective(Unlink(s, b))
         /\ ToSet(Unlink(s, b)) = ToSet(s) \ {b}
         /\ b \in ToSet(s) => Len(Unlink(s, b)) = Len(s) - 1
         /\ b \notin ToSet(s) => Unlink(s, b) = s
         /\ \A i, j \in 1 .. Len(Unlink(s, b)) : i < j =>
              \E k, l \in 1 .. Len(s) : k < l /\ Unlink(s, b)[i] = s[k] /\ Unlink(s, b)[j] = s[l]
<1>1. CASE b \notin ToSet(s)
  <2>1. Unlink(s, b) = s BY <1>1 DEF Unlink
  <2>2. ToSet(s) = ToSet(s) \ {b} BY <1>1
  <2> QED BY <1>1, <2>1, <2>2
<1>2. CASE b \in ToSet(s)
  <2>1. PICK n : n = CHOOSE i \in DOMAIN s : s[i] = b OBVIOUS
  <2>2. n \in 1 .. Len(s) /\ s[n] = b /\ Len(s) \in Nat BY <1>2, <2>1, Members
  <2>3. PICK u : u = Unlink(s, b) OBVIOUS
  <2>4. u = SubSeq(s, 1, n - 1) \o SubSeq(s, n + 1, Len(s)) BY <1>2, <2>1, <2>3 DEF Unlink, RemoveAt
  <2>5. /\ SubSeq(s, 1, n - 1) \in Seq(S) /\ Len(SubSeq(s, 1, n - 1)) = n - 1
        /\ \A i \in 1 .. n - 1 : SubSeq(s, 1, n - 1)[i] = s[i]
    <3>1. \A i \in 1 .. n - 1 : s[i] \in S BY <2>2
    <3>2. 1 \in Int /\ n - 1 \in Int BY <2>2
    <3>3. /\ SubSeq(s, 1, n - 1) \in Seq(S) /\ Len(SubSeq(s, 1, n - 1)) = IF 1 <= n - 1 THEN (n - 1) - 1 + 1 ELSE 0
          /\ \A i \in 1 .. (n - 1) - 1 + 1 : SubSeq(s, 1, n - 1)[i] = s[1 + i - 1]
      BY <3>1, <3>2, SubSeqProperties
    <3> QED BY <2>2, <3>3
  <2>6. /\ SubSeq(s, n + 1, Len(s)) \in Seq(S) /\ Len(SubSeq(s, n + 1, Len(s))) = Len(s) - n
        /\ \A i \in 1 .. Len(s) - n : SubSeq(s, n + 1, Len(s))[i] = s[n + i]
    <3>1. \A i \in n + 1 .. Len(s) : s[i] \in S BY <2>2
    <3>2. n + 1 \in Int /\ Len(s) \in Int BY <2>2
    <3>3. /\ SubSeq(s, n + 1, Len(s)) \in Seq(S)
          /\ Len(SubSeq(s, n + 1, Len(s))) = IF n + 1 <= Len(s) THEN Len(s) - (n + 1) + 1 ELSE 0
          /\ \A i \in 1 .. Len(s) - (n + 1) + 1 : SubSeq(s, n + 1, Len(s))[i] = s[(n + 1) + i - 1]
      BY <3>1, <3>2, SubSeqProperties
    <3> QED BY <2>2, <3>3
  <2>7. /\ u \in Seq(S) /\ Len(u) = Len(s) - 1
        /\ \A i \in 1 .. Len(s) - 1 : u[i] = IF i < n THEN s[i] ELSE s[i + 1]
    <3>1. PICK v, w : v = SubSeq(s, 1, n - 1) /\ w = SubSeq(s, n + 1, Len(s)) OBVIOUS
    <3>2. /\ v \o w \in Seq(S) /\ Len(v \o w) = Len(v) + Len(w)
          /\ \A i \in 1 .. Len(v) + Len(w) : (v \o w)[i] = IF i <= Len(v) THEN v[i] ELSE w[i - Len(v)]
      BY <2>5, <2>6, <3>1, ConcatProperties, SMTT(60)
    <3>3. u = v \o w BY <2>4, <3>1
    <3>4. Len(v) = n - 1 /\ Len(w) = Len(s) - n BY <2>5, <2>6, <3>1
    <3>5. \A i \in 1 .. n - 1 : v[i] = s[i] BY <2>5, <3>1
    <3>6. \A i \in 1 .. Len(s) - n : w[i] = s[n + i] BY <2>6, <3>1
    <3>9. u \in Seq(S) /\ Len(u) = Len(v) + Len(w) BY <3>2, <3>3, Zenon
    <3>10. (n - 1) + (Len(s) - n) = Len(s) - 1 BY <2>2
    <3>7. u \in Seq(S) /\ Len(u) = Len(s) - 1 BY <3>4, <3>9, <3>10, Zenon
    <3>8. ASSUME NEW i \in 1 .. Len(s) - 1 PROVE u[i] = IF i < n THEN s[i] ELSE s[i + 1]
      <4>1. i \in 1 .. Len(v) + Len(w) BY <2>2, <3>4
      <4>2. u[i] = IF i <= Len(v) THEN v[i] ELSE w[i - Len(v)] BY <3>2, <3>3, <4>1
      <4>3. CASE i < n BY <2>2, <3>4, <3>5, <4>2, <4>3
      <4>4. CASE ~(i < n)
        <5>1. i - (n - 1) \in 1 .. Len(s) - n /\ n + (i - (n - 1)) = i + 1 BY <2>2, <4>4
        <5> QED BY <2>2, <3>4, <3>6, <4>2, <4>4, <5>1
      <4> QED BY <4>3, <4>4
    <3> QED BY <3>7, <3>8
  <2>8. \A i, j \in 1 .. Len(u) : i < j => \E k, l \in 1 .. Len(s) : k < l /\ u[i] = s[k] /\ u[j] = s[l]
    <3> SUFFICES ASSUME NEW i \in 1 .. Len(u), NEW j \in 1 .. Len(u), i < j
                 PROVE  \E k, l \in 1 .. Len(s) : k < l /\ u[i] = s[k] /\ u[j] = s[l]
      OBVIOUS
    <3>1. PICK k : k = IF i < n THEN i ELSE i + 1 OBVIOUS
    <3>2. PICK l : l = IF j < n THEN j ELSE j + 1 OBVIOUS
    <3>3. k \in 1 .. Len(s) /\ l \in 1 .. Len(s) /\ k < l BY <2>2, <2>7, <3>1, <3>2
    <3>4. u[i] = s[k] /\ u[j] = s[l] BY <2>7, <3>1, <3>2
    <3> QED BY <3>3, <3>4
  <2>9. \A i, j \in 1 .. Len(s) : s[i] = s[j] => i = j BY <2>2, Members DEF IsInjective
  <2>10. IsInjective(u)
    <3>1. ASSUME NEW i \in 1 .. Len(u), NEW j \in 1 .. Len(u), i < j PROVE u[i] # u[j]
      <4>1. PICK k, l \in 1 .. Len(s) : k < l /\ u[i] = s[k] /\ u[j] = s[l] BY <2>8, <3>1
      <4> QED BY <2>2, <2>9, <4>1
    <3>2. DOMAIN u = 1 .. Len(u) /\ Len(u) \in Nat BY <2>7
    <3>3. \A i, j \in 1 .. Len(u) : i # j => u[i] # u[j] BY <3>1, <3>2
    <3> QED BY <3>2, <3>3 DEF IsInjective
  <2>11. ToSet(u) = ToSet(s) \ {b}
    <3>1. ASSUME NEW i \in 1 .. Len(u) PROVE u[i] \in ToSet(s) \ {b}
      <4>1. PICK k \in 1 .. Len(s) : k # n /\ u[i] = s[k] BY <2>2, <2>7
      <4> QED BY <2>2, <2>9, <4>1, Members
    <3>2. ASSUME NEW k \in 1 .. Len(s), k # n PROVE \E i \in 1 .. Len(u) : u[i] = s[k]
      <4>1. CASE k < n
        <5>1. k \in 1 .. Len(u) BY <2>2, <2>7, <4>1
        <5> QED BY <2>7, <4>1, <5>1
      <4>2. CASE k > n
        <5>1. k - 1 \in 1 .. Len(u) /\ ~(k - 1 < n) /\ (k - 1) + 1 = k BY <2>2, <2>7, <4>2
        <5> QED BY <2>7, <5>1
      <4> QED BY <2>2, <3>2, <4>1, <4>2
    <3>3. ToSet(u) \subseteq ToSet(s) \ {b} BY <2>7, <3>1, Members
    <3>4. ASSUME NEW x \in ToSet(s) \ {b} PROVE x \in ToSet(u)
      <4>1. PICK k \in 1 .. Len(s) : s[k] = x BY Members
      <4>2. PICK i \in 1 .. Len(u) : u[i] = x BY <2>2, <3>2, <4>1
      <4> QED BY <2>7, <4>2, Members
    <3> QED BY <3>3, <3>4
  <2> QED BY <1>2, <2>3, <2>7, <2>8, <2>10, <2>11
<1> QED BY <1>1, <1>2

\* An element that is new is put at the end.
LEMMA AppendList ==
  ASSUME NEW S, NEW s \in Seq(S), IsInjective(s), NEW b \in S, b \notin ToSet(s)
  PROVE  /\ Append(s, b) \in Seq(S) /\ IsInjective(Append(s, b)) /\ Len(Append(s, b)) = Len(s) + 1
         /\ ToSet(Append(s, b)) = ToSet(s) \cup {b}
         /\ \A i \in 1 .. Len(s) : Append(s, b)[i] = s[i]
         /\ Append(s, b)[Len(s) + 1] = b
<1>1. PICK u : u = Append(s, b) OBVIOUS
<1>2. /\ u \in Seq(S) /\ Len(u) = Len(s) + 1 /\ Len(s) \in Nat
      /\ \A i \in 1 .. Len(s) : u[i] = s[i]
      /\ u[Len(s) + 1] = b
  BY <1>1, AppendProperties
<1>3. \A i, j \in 1 .. Len(s) : s[i] = s[j] => i = j BY Members DEF IsInjective
<1>4. \A i \in 1 .. Len(s) : s[i] # b BY Members
<1>5. \A i \in 1 .. Len(u) : i = Len(s) + 1 \/ i \in 1 .. Len(s) BY <1>2
<1>6. IsInjective(u)
  <2>1. DOMAIN u = 1 .. Len(u) BY <1>2
  <2> QED BY <1>2, <1>3, <1>4, <1>5, <2>1 DEF IsInjective
<1>7. ToSet(u) = ToSet(s) \cup {b}
  <2>1. ToSet(u) \subseteq ToSet(s) \cup {b}
    <3> SUFFICES ASSUME NEW x \in ToSet(u) PROVE x \in ToSet(s) \cup {b} OBVIOUS
    <3>1. PICK i \in 1 .. Len(u) : u[i] = x BY <1>2, Members
    <3> QED BY <1>2, <1>5, <3>1, Members
  <2>2. ToSet(s) \subseteq ToSet(u)
    <3> SUFFICES ASSUME NEW x \in ToSet(s) PROVE x \in ToSet(u) OBVIOUS
    <3>1. PICK i \in 1 .. Len(s) : s[i] = x BY Members
    <3>2. i \in 1 .. Len(u) /\ u[i] = x BY <1>2, <3>1
    <3> QED BY <1>2, <3>2, Members
  <2>3. b \in ToSet(u)
    <3>1. Len(s) + 1 \in 1 .. Len(u) BY <1>2
    <3> QED BY <1>2, <3>1, Members
  <2> QED BY <2>1, <2>2, <2>3
<1> QED BY <1>1, <1>2, <1>6, <1>7

\* The head of a list without repetitions is not in its tail.
LEMMA TailList ==
  ASSUME NEW S, NEW s \in Seq(S), IsInjective(s), Len(s) > 0
  PROVE  /\ Head(s) \in S /\ Head(s) \in ToSet(s) /\ Head(s) = s[1]
         /\ Tail(s) \in Seq(S) /\ IsInjective(Tail(s)) /\ Len(Tail(s)) = Len(s) - 1
         /\ ToSet(Tail(s)) = ToSet(s) \ {Head(s)}
<1>1. PICK u : u = Tail(s) OBVIOUS
<1>2. s # <<>> /\ Len(s) \in Nat BY Members
<1>3. /\ u \in Seq(S) /\ Len(u) = Len(s) - 1 /\ Head(s) = s[1]
      /\ \A i \in 1 .. Len(u) : u[i] = s[i + 1]
  BY <1>1, <1>2, HeadTailProperties
<1>4. \A i, j \in 1 .. Len(s) : s[i] = s[j] => i = j BY Members DEF IsInjective
<1>5. IsInjective(u)
  <2>1. DOMAIN u = 1 .. Len(u) BY <1>3
  <2>2. \A i \in 1 .. Len(u) : i + 1 \in 1 .. Len(s) BY <1>2, <1>3
  <2> QED BY <1>2, <1>3, <1>4, <2>1, <2>2 DEF IsInjective
<1>6. ToSet(u) = ToSet(s) \ {s[1]}
  <2>1. ASSUME NEW x \in ToSet(u) PROVE x \in ToSet(s) \ {s[1]}
    <3>1. PICK i \in 1 .. Len(u) : u[i] = x BY <1>3, Members
    <3>2. i + 1 \in 1 .. Len(s) /\ 1 \in 1 .. Len(s) /\ i + 1 # 1 BY <1>2, <1>3
    <3> QED BY <1>3, <1>4, <3>1, <3>2, Members
  <2>2. ASSUME NEW x \in ToSet(s) \ {s[1]} PROVE x \in ToSet(u)
    <3>1. PICK i \in 1 .. Len(s) : s[i] = x BY Members
    <3>2. i - 1 \in 1 .. Len(u) /\ (i - 1) + 1 = i BY <1>2, <1>3, <3>1
    <3>3. u[i - 1] = x BY <1>3, <3>1, <3>2
    <3> QED BY <1>3, <3>2, <3>3, Members
  <2> QED BY <2>1, <2>2
<1>7. Head(s) \in S /\ Head(s) \in ToSet(s)
  <2>1. 1 \in 1 .. Len(s) BY <1>2
  <2> QED BY <1>3, <2>1, Members
<1> QED BY <1>1, <1>3, <1>5, <1>6, <1>7

\* FirstOf finds one of hits, if there is any.
LEMMA FirstOfLine ==
  ASSUME NEW S, NEW s \in Seq(S), NEW hits, hits \subseteq ToSet(s)
  PROVE  (FirstOf(s, hits) = NONE /\ hits = {}) \/ FirstOf(s, hits) \in hits
<1>1. PICK at : at = {i \in DOMAIN s : s[i] \in hits} OBVIOUS
<1>2. at \subseteq Nat BY <1>1, Members
<1>3. FirstOf(s, hits) = IF at = {} THEN NONE ELSE s[Min(at)] BY <1>1 DEF FirstOf
<1>4. CASE at = {}
  <2>1. hits = {} BY <1>1, <1>4, Members
  <2> QED BY <1>3, <1>4, <2>1
<1>5. CASE at # {}
  <2>1. \E x \in at : \A y \in at : x <= y BY <1>2, <1>5, Least
  <2>2. Min(at) \in at BY <2>1 DEF Min
  <2> QED BY <1>1, <1>3, <1>5, <2>2
<1> QED BY <1>4, <1>5

-----------------------------------------------------------------------------
(* The table of requests.                                                  *)

Entry == [src : User, dst : User, sockaddr_src : Addr, timestamp : 0 .. MAX_TIME]
Tables ==
  [all : Seq(Buffer), hash : [Line -> Seq(Buffer)], num : Int, free : Seq(Buffer),
   req : [Buffer -> {NONE} \cup Entry]]

\* The lists of all requests and of the hash lines hold the same buffers.
Linked(t) ==
  /\ IsInjective(t.all) /\ t.num = Len(t.all)
  /\ \A l \in Line : /\ IsInjective(t.hash[l])
                     /\ ToSet(t.hash[l]) = {b \in ToSet(t.all) : hash_index[t.req[b].src] = l}

\* Each linked request is the only one of its pair of users, and they are linked in the order
\* of their times.
Entries(t) ==
  /\ \A b \in ToSet(t.all) : t.req[b] \in Entry
  /\ \A b, c \in ToSet(t.all) : PairOf(t.req[b]) = PairOf(t.req[c]) => b = c
  /\ \A i, j \in 1 .. Len(t.all) : i < j => t.req[t.all[i]].timestamp <= t.req[t.all[j]].timestamp

\* Each buffer is linked or free, but for the one in hand, if any, on which the server works.
Pool(t, hand) ==
  /\ IsInjective(t.free) /\ ToSet(t.all) \cap ToSet(t.free) = {}
  /\ ToSet(t.all) \cup ToSet(t.free) = Buffer \ hand
  /\ Len(t.all) + Len(t.free) = IF hand = {} THEN MAX_REQ_NUM ELSE MAX_REQ_NUM - 1

Consistent(t, hand) == t \in Tables /\ Linked(t) /\ Entries(t) /\ Pool(t, hand)

\* The bounds are numbers.
LEMMA Limits ==
  /\ MAX_REQ_NUM \in Nat /\ MAX_REQ_NUM > 0 /\ gap \in Nat /\ MISS_LIMIT \in Nat /\ MISS_LIMIT > 0
  /\ NET_CAP \in Nat /\ MAX_TIME \in Nat /\ MAX_FAULTS \in Nat
BY P2pAssumption DEF P2pAssumption

\* The types of the parts of a table.
LEMMA ListTypes ==
  ASSUME NEW t \in Tables
  PROVE  /\ t.all \in Seq(Buffer) /\ t.free \in Seq(Buffer) /\ t.num \in Int
         /\ Len(t.all) \in Nat /\ Len(t.free) \in Nat
         /\ \A l \in Line : t.hash[l] \in Seq(Buffer)
         /\ t.req \in [Buffer -> {NONE} \cup Entry]
         /\ ToSet(t.all) \subseteq Buffer /\ ToSet(t.free) \subseteq Buffer
         /\ \A i \in 1 .. Len(t.all) : t.all[i] \in ToSet(t.all)
<1>1. /\ t.all \in Seq(Buffer) /\ t.free \in Seq(Buffer) /\ t.num \in Int
      /\ \A l \in Line : t.hash[l] \in Seq(Buffer)
      /\ t.req \in [Buffer -> {NONE} \cup Entry]
  BY DEF Tables
<1> QED BY <1>1, Members

\* The lengths of the lists when the buffer in the server's hand is put on one of them.
LEMMA HandPut ==
  ASSUME NEW t \in Tables, NEW b, Pool(t, {b})
  PROVE  /\ \A f : Len(f) = Len(t.free) + 1 => Len(t.all) + Len(f) = MAX_REQ_NUM
         /\ \A a : Len(a) = Len(t.all) + 1 => Len(a) + Len(t.free) = MAX_REQ_NUM
<1>1. Len(t.all) + Len(t.free) = MAX_REQ_NUM - 1
  <2>1. {b} # {} OBVIOUS
  <2> QED BY <2>1, Zenon DEF Pool
<1>2. Len(t.all) \in Nat /\ Len(t.free) \in Nat BY ListTypes
<1>3. PICK x, y : x = Len(t.all) /\ y = Len(t.free) OBVIOUS
<1>4. x \in Nat /\ y \in Nat /\ x + y = MAX_REQ_NUM - 1 BY <1>1, <1>2, <1>3, Zenon
<1>5. x + (y + 1) = MAX_REQ_NUM /\ (x + 1) + y = MAX_REQ_NUM BY <1>4, Limits
<1> QED BY <1>3, <1>5, Zenon

\* A request is unlinked: its buffer is in the server's hand.
LEMMA Deletes ==
  ASSUME NEW t, Consistent(t, {}), NEW b \in ToSet(t.all), NEW u, u = delete_req(t, b)
  PROVE  /\ Consistent(u, {b}) /\ b \in Buffer
         /\ u.req = t.req /\ u.free = t.free /\ ToSet(u.all) = ToSet(t.all) \ {b}
         /\ Len(u.all) = Len(t.all) - 1
<1>1. t \in Tables /\ Linked(t) /\ Entries(t) /\ Pool(t, {}) BY DEF Consistent
<1>2. /\ t.all \in Seq(Buffer) /\ t.free \in Seq(Buffer) /\ t.num \in Int
      /\ Len(t.all) \in Nat /\ Len(t.free) \in Nat
      /\ \A l \in Line : t.hash[l] \in Seq(Buffer)
      /\ t.req \in [Buffer -> {NONE} \cup Entry]
      /\ ToSet(t.all) \subseteq Buffer /\ ToSet(t.free) \subseteq Buffer
  BY <1>1, ListTypes
<1>3. PICK a, h : a = Unlink(t.all, b) /\ h = [l \in Line |-> Unlink(t.hash[l], b)] OBVIOUS
<1>4. u = [t EXCEPT !.all = a, !.num = t.num - 1, !.hash = h]
  <2>1. h = [l \in Line |-> Unlink(t.hash[l], b)] BY <1>3
  <2> QED BY <1>3 DEF delete_req
<1>5. /\ a \in Seq(Buffer) /\ IsInjective(a) /\ ToSet(a) = ToSet(t.all) \ {b} /\ Len(a) = Len(t.all) - 1
      /\ \A i, j \in 1 .. Len(a) : i < j => \E k, l \in 1 .. Len(t.all) : k < l /\ a[i] = t.all[k] /\ a[j] = t.all[l]
  <2>1. IsInjective(t.all) BY <1>1 DEF Linked
  <2>2. a = Unlink(t.all, b) BY <1>3
  <2>3. t.all \in Seq(Buffer) BY <1>2
  <2>4. /\ Unlink(t.all, b) \in Seq(Buffer) /\ IsInjective(Unlink(t.all, b))
        /\ ToSet(Unlink(t.all, b)) = ToSet(t.all) \ {b}
        /\ Len(Unlink(t.all, b)) = Len(t.all) - 1
        /\ \A i, j \in 1 .. Len(Unlink(t.all, b)) : i < j =>
             \E k, l \in 1 .. Len(t.all) : k < l /\ Unlink(t.all, b)[i] = t.all[k] /\ Unlink(t.all, b)[j] = t.all[l]
    BY <2>1, <2>3, UnlinkList, ZenonT(60)
  <2> QED BY <1>1, <2>2, <2>4 DEF Tables
<1>6. ASSUME NEW l \in Line
      PROVE  h[l] \in Seq(Buffer) /\ IsInjective(h[l]) /\ ToSet(h[l]) = ToSet(t.hash[l]) \ {b}
  <2>1. h[l] = Unlink(t.hash[l], b) BY <1>3
  <2>2. IsInjective(t.hash[l]) BY <1>1 DEF Linked
  <2> QED BY <1>2, <2>1, <2>2, UnlinkList
<1>7. h \in [Line -> Seq(Buffer)] BY <1>3, <1>6
<1>8. /\ u \in Tables /\ u.all = a /\ u.hash = h /\ u.num = t.num - 1 /\ u.free = t.free /\ u.req = t.req
  <2>1. u = [all |-> a, hash |-> h, num |-> t.num - 1, free |-> t.free, req |-> t.req]
    BY <1>1, <1>4 DEF Tables
  <2>2. t.num - 1 \in Int BY <1>2
  <2> QED BY <1>2, <1>5, <1>7, <2>1, <2>2 DEF Tables
<1>9. Linked(u)
  <2>1. t.num = Len(t.all) BY <1>1 DEF Linked
  <2>2. ASSUME NEW l \in Line PROVE ToSet(h[l]) = {c \in ToSet(a) : hash_index[t.req[c].src] = l}
    <3>1. ToSet(t.hash[l]) = {c \in ToSet(t.all) : hash_index[t.req[c].src] = l} BY <1>1 DEF Linked
    <3> QED BY <1>5, <1>6, <3>1
  <2> QED BY <1>5, <1>6, <1>8, <2>1, <2>2 DEF Linked
<1>10. Entries(u)
  <2>1. ASSUME NEW i \in 1 .. Len(a), NEW j \in 1 .. Len(a), i < j
        PROVE  t.req[a[i]].timestamp <= t.req[a[j]].timestamp
    <3>1. PICK k, l \in 1 .. Len(t.all) : k < l /\ a[i] = t.all[k] /\ a[j] = t.all[l] BY <1>5, <2>1
    <3> QED BY <1>1, <3>1 DEF Entries
  <2> QED BY <1>1, <1>5, <1>8, <2>1 DEF Entries
<1>11. Pool(u, {b})
  <2>1. ToSet(a) \cup ToSet(t.free) = Buffer \ {b} /\ ToSet(a) \cap ToSet(t.free) = {}
    BY <1>1, <1>5 DEF Pool
  <2>3. Len(t.all) + Len(t.free) = MAX_REQ_NUM BY <1>1, Zenon DEF Pool
  <2>4. Len(t.all) \in Nat /\ Len(t.free) \in Nat /\ Len(a) = Len(t.all) - 1 BY <1>2, <1>5
  <2>2. Len(a) + Len(t.free) = MAX_REQ_NUM - 1 BY <1>1, <2>3, <2>4, Limits DEF Tables
  <2> QED BY <1>1, <1>8, <2>1, <2>2 DEF Pool
<1> QED BY <1>2, <1>5, <1>8, <1>9, <1>10, <1>11 DEF Consistent

\* The buffer in the server's hand is given back.
LEMMA GivesBack ==
  ASSUME NEW t, NEW b \in Buffer, Consistent(t, {b}), NEW u, u = [t EXCEPT !.free = Append(@, b)]
  PROVE  /\ Consistent(u, {}) /\ u.req = t.req /\ u.all = t.all
<1>1. t \in Tables /\ Linked(t) /\ Entries(t) /\ Pool(t, {b}) BY DEF Consistent
<1>2. /\ t.all \in Seq(Buffer) /\ t.free \in Seq(Buffer)
      /\ Len(t.all) \in Nat /\ Len(t.free) \in Nat
  BY <1>1, ListTypes
<1>3. PICK f : f = Append(t.free, b) OBVIOUS
<1>4. IsInjective(t.free) /\ b \notin ToSet(t.free) BY <1>1 DEF Pool
<1>5. f \in Seq(Buffer) /\ IsInjective(f) /\ Len(f) = Len(t.free) + 1 /\ ToSet(f) = ToSet(t.free) \cup {b}
  BY <1>2, <1>3, <1>4, AppendList
<1>6. u = [t EXCEPT !.free = f] BY <1>3
<1>7. /\ u \in Tables /\ u.all = t.all /\ u.hash = t.hash /\ u.num = t.num /\ u.free = f /\ u.req = t.req
  BY <1>1, <1>5, <1>6 DEF Tables
<1>8. Linked(u) /\ Entries(u) BY <1>1, <1>7 DEF Linked, Entries
<1>9. Pool(u, {})
  <2>1. ToSet(t.all) \cup ToSet(f) = Buffer \ {} /\ ToSet(t.all) \cap ToSet(f) = {}
    BY <1>1, <1>5 DEF Pool
  <2>4. Len(t.all) \in Nat /\ Len(t.free) \in Nat /\ Len(f) = Len(t.free) + 1 BY <1>2, <1>5
  <2>2. Len(t.all) + Len(f) = MAX_REQ_NUM BY <1>1, <2>4, HandPut, Zenon
  <2>3. Pool(u, {}) <=> /\ IsInjective(f) /\ ToSet(t.all) \cap ToSet(f) = {} /\ ToSet(t.all) \cup ToSet(f) = Buffer \ {}
                        /\ Len(t.all) + Len(f) = MAX_REQ_NUM
    BY <1>7, Zenon DEF Pool
  <2> QED BY <1>5, <2>1, <2>2, <2>3, Zenon
<1> QED BY <1>7, <1>8, <1>9 DEF Consistent

\* release_req unlinks a buffer and gives it back.
LEMMA Releases ==
  ASSUME NEW t, Consistent(t, {}), NEW b \in ToSet(t.all), NEW u, u = release_req(t, b)
  PROVE  /\ Consistent(u, {}) /\ u.req = t.req /\ ToSet(u.all) = ToSet(t.all) \ {b}
         /\ Len(u.all) = Len(t.all) - 1
<1>1. PICK v : v = delete_req(t, b) OBVIOUS
<1>2. /\ Consistent(v, {b}) /\ b \in Buffer
      /\ v.req = t.req /\ ToSet(v.all) = ToSet(t.all) \ {b} /\ Len(v.all) = Len(t.all) - 1
  BY <1>1, Deletes
<1>3. u = [v EXCEPT !.free = Append(@, b)] BY <1>1 DEF release_req
<1>4. Consistent(u, {}) /\ u.req = v.req /\ u.all = v.all BY <1>2, <1>3, GivesBack
<1> QED BY <1>2, <1>4

\* While the table is not full a buffer is free, and is taken.
LEMMA Takes ==
  ASSUME NEW t, Consistent(t, {}), Len(t.all) < MAX_REQ_NUM, NEW b, b = Head(t.free),
         NEW u, u = [t EXCEPT !.free = Tail(@)]
  PROVE  Consistent(u, {b}) /\ b \in Buffer /\ u.req = t.req /\ u.all = t.all
<1>1. t \in Tables /\ Linked(t) /\ Entries(t) /\ Pool(t, {}) BY DEF Consistent
<1>2. /\ t.all \in Seq(Buffer) /\ t.free \in Seq(Buffer)
      /\ Len(t.all) \in Nat /\ Len(t.free) \in Nat
  BY <1>1, ListTypes
<1>3. PICK f : f = Tail(t.free) OBVIOUS
<1>4. IsInjective(t.free) /\ Len(t.free) > 0
  <2>1. Len(t.all) + Len(t.free) = MAX_REQ_NUM BY <1>1, Zenon DEF Pool
  <2>3. Len(t.all) \in Nat /\ Len(t.free) \in Nat BY <1>2
  <2>2. Len(t.free) > 0 BY <1>1, <2>1, <2>3, Limits DEF Tables
  <2> QED BY <1>1, <2>2 DEF Pool
<1>5. /\ b \in Buffer /\ b \in ToSet(t.free)
      /\ f \in Seq(Buffer) /\ IsInjective(f) /\ Len(f) = Len(t.free) - 1 /\ ToSet(f) = ToSet(t.free) \ {b}
  BY <1>2, <1>3, <1>4, TailList
<1>6. u = [t EXCEPT !.free = f] BY <1>3
<1>7. /\ u \in Tables /\ u.all = t.all /\ u.hash = t.hash /\ u.num = t.num /\ u.free = f /\ u.req = t.req
  BY <1>1, <1>5, <1>6 DEF Tables
<1>8. Linked(u) /\ Entries(u) BY <1>1, <1>7 DEF Linked, Entries
<1>9. Pool(u, {b})
  <2>1. ToSet(t.all) \cup ToSet(f) = Buffer \ {b} /\ ToSet(t.all) \cap ToSet(f) = {}
    BY <1>1, <1>5 DEF Pool
  <2>3. Len(t.all) + Len(t.free) = MAX_REQ_NUM BY <1>1, Zenon DEF Pool
  <2>4. Len(t.all) \in Nat /\ Len(t.free) \in Nat /\ Len(f) = Len(t.free) - 1 BY <1>2, <1>5
  <2>2. Len(t.all) + Len(f) = MAX_REQ_NUM - 1 BY <1>1, <2>3, <2>4, Limits DEF Tables
  <2> QED BY <1>5, <1>7, <2>1, <2>2 DEF Pool
<1> QED BY <1>5, <1>7, <1>8, <1>9 DEF Consistent

\* A request of a new pair of users, as late as any other, is written to the buffer and linked.
LEMMA Adds ==
  ASSUME NEW t, NEW b \in Buffer, Consistent(t, {b}), NEW e \in Entry,
         \A c \in ToSet(t.all) : PairOf(t.req[c]) # PairOf(e) /\ t.req[c].timestamp <= e.timestamp,
         NEW u, u = add_req([t EXCEPT !.req[b] = e], b)
  PROVE  /\ Consistent(u, {}) /\ u.req = [t.req EXCEPT ![b] = e]
         /\ ToSet(u.all) = ToSet(t.all) \cup {b} /\ b \notin ToSet(t.all)
<1>1. t \in Tables /\ Linked(t) /\ Entries(t) /\ Pool(t, {b}) BY DEF Consistent
<1>2. /\ t.all \in Seq(Buffer) /\ t.free \in Seq(Buffer) /\ t.num \in Int
      /\ Len(t.all) \in Nat /\ Len(t.free) \in Nat
      /\ t.hash \in [Line -> Seq(Buffer)]
      /\ t.req \in [Buffer -> {NONE} \cup Entry]
      /\ ToSet(t.all) \subseteq Buffer /\ ToSet(t.free) \subseteq Buffer
      /\ \A i \in 1 .. Len(t.all) : t.all[i] \in ToSet(t.all)
  <2>1. t.hash \in [Line -> Seq(Buffer)] BY <1>1 DEF Tables
  <2> QED BY <1>1, <2>1, ListTypes
<1>3. b \notin ToSet(t.all) /\ b \notin ToSet(t.free) BY <1>1 DEF Pool
<1>4. PICK r : r = [t.req EXCEPT ![b] = e] OBVIOUS
<1>5. r \in [Buffer -> {NONE} \cup Entry] /\ r[b] = e /\ \A c \in ToSet(t.all) : r[c] = t.req[c]
  BY <1>2, <1>3, <1>4
<1>6. PICK a : a = Append(t.all, b) OBVIOUS
<1>7. /\ a \in Seq(Buffer) /\ IsInjective(a) /\ Len(a) = Len(t.all) + 1 /\ ToSet(a) = ToSet(t.all) \cup {b}
      /\ \A i \in 1 .. Len(t.all) : a[i] = t.all[i]
      /\ a[Len(t.all) + 1] = b
  BY <1>1, <1>2, <1>3, <1>6, AppendList DEF Linked
<1>8. PICK k : k = hash_index[e.src] OBVIOUS
<1>9. k \in Line BY <1>8 DEF Line, Entry
<1>10. PICK h : h = [t.hash EXCEPT ![k] = Append(t.hash[k], b)] OBVIOUS
<1>11. t.hash[k] \in Seq(Buffer) /\ IsInjective(t.hash[k]) /\ b \notin ToSet(t.hash[k])
  BY <1>1, <1>2, <1>3, <1>9 DEF Linked
<1>12. /\ Append(t.hash[k], b) \in Seq(Buffer) /\ IsInjective(Append(t.hash[k], b))
       /\ ToSet(Append(t.hash[k], b)) = ToSet(t.hash[k]) \cup {b}
  BY <1>11, AppendList
<1>13. h \in [Line -> Seq(Buffer)] /\ h[k] = Append(t.hash[k], b) /\ \A l \in Line : l # k => h[l] = t.hash[l]
  BY <1>2, <1>9, <1>10, <1>12
<1>14. u = [t EXCEPT !.req = r, !.all = a, !.num = t.num + 1, !.hash = h]
  <2>1. PICK v : v = [t EXCEPT !.req[b] = e] OBVIOUS
  <2>2. v = [t EXCEPT !.req = r] BY <1>1, <1>4, <2>1 DEF Tables
  <2>3. /\ v \in Tables /\ v.req = r /\ v.all = t.all /\ v.num = t.num /\ v.hash = t.hash /\ v.free = t.free
    BY <1>1, <1>5, <2>2 DEF Tables
  <2>4. u = [v EXCEPT !.all = Append(@, b), !.num = @ + 1, !.hash[hash_index[v.req[b].src]] = Append(@, b)]
    BY <2>1 DEF add_req
  <2>5. hash_index[v.req[b].src] = k BY <1>5, <1>8, <2>3
  <2>6. u = [v EXCEPT !.all = a, !.num = t.num + 1, !.hash = h]
    BY <1>6, <1>10, <2>3, <2>4, <2>5 DEF Tables
  <2> QED BY <1>1, <2>2, <2>6 DEF Tables
<1>15. /\ u \in Tables /\ u.all = a /\ u.hash = h /\ u.num = t.num + 1 /\ u.free = t.free /\ u.req = r
  <2>1. u = [all |-> a, hash |-> h, num |-> t.num + 1, free |-> t.free, req |-> r]
    BY <1>1, <1>14 DEF Tables
  <2>2. t.num + 1 \in Int BY <1>2
  <2>3. /\ a \in Seq(Buffer) /\ h \in [Line -> Seq(Buffer)] /\ t.free \in Seq(Buffer)
        /\ r \in [Buffer -> {NONE} \cup Entry]
    BY <1>2, <1>5, <1>7, <1>13
  <2>4. \A n \in Int, f \in Seq(Buffer) : [all |-> a, hash |-> h, num |-> n, free |-> f, req |-> r] \in Tables
    BY <2>3 DEF Tables
  <2>5. u \in Tables BY <2>1, <2>2, <2>3, <2>4, Zenon
  <2> QED BY <2>1, <2>5
<1>16. Linked(u)
  <2>1. u.num = Len(u.all) BY <1>1, <1>2, <1>7, <1>15 DEF Linked
  <2>2. ASSUME NEW l \in Line
        PROVE  IsInjective(h[l]) /\ ToSet(h[l]) = {c \in ToSet(a) : hash_index[r[c].src] = l}
    <3>1. IsInjective(t.hash[l]) /\ ToSet(t.hash[l]) = {c \in ToSet(t.all) : hash_index[t.req[c].src] = l}
      BY <1>1 DEF Linked
    <3>2. ToSet(t.hash[l]) = {c \in ToSet(t.all) : hash_index[r[c].src] = l} BY <1>5, <3>1
    <3>3. CASE l = k
      <4>1. hash_index[r[b].src] = l BY <1>5, <1>8, <3>3
      <4>2. {c \in ToSet(t.all) \cup {b} : hash_index[r[c].src] = l} = {c \in ToSet(t.all) : hash_index[r[c].src] = l} \cup {b}
        BY <4>1
      <4> QED BY <1>7, <1>12, <1>13, <3>2, <3>3, <4>2
    <3>4. CASE l # k
      <4>1. hash_index[r[b].src] # l BY <1>5, <1>8, <3>4
      <4>2. {c \in ToSet(t.all) \cup {b} : hash_index[r[c].src] = l} = {c \in ToSet(t.all) : hash_index[r[c].src] = l}
        BY <4>1
      <4> QED BY <1>7, <1>13, <3>1, <3>2, <3>4, <4>2
    <3> QED BY <3>3, <3>4
  <2> QED BY <1>7, <1>15, <2>1, <2>2 DEF Linked
<1>17. Entries(u)
  <2>1. \A c \in ToSet(a) : r[c] \in Entry BY <1>1, <1>5, <1>7 DEF Entries
  <2>2. \A c, d \in ToSet(a) : PairOf(r[c]) = PairOf(r[d]) => c = d
    <3>1. \A c, d \in ToSet(t.all) : PairOf(r[c]) = PairOf(r[d]) => c = d BY <1>1, <1>5 DEF Entries
    <3>2. \A c \in ToSet(t.all) : PairOf(r[c]) # PairOf(r[b]) BY <1>5
    <3> QED BY <1>7, <3>1, <3>2
  <2>3. ASSUME NEW i \in 1 .. Len(a), NEW j \in 1 .. Len(a), i < j
        PROVE  r[a[i]].timestamp <= r[a[j]].timestamp
    <3>1. i \in 1 .. Len(t.all) /\ a[i] = t.all[i] /\ t.all[i] \in ToSet(t.all) BY <1>2, <1>7, <2>3
    <3>2. r[a[i]] = t.req[t.all[i]] BY <1>5, <3>1
    <3>3. CASE j = Len(t.all) + 1
      <4>1. r[a[j]] = e BY <1>5, <1>7, <3>3
      <4> QED BY <3>1, <3>2, <4>1
    <3>4. CASE j # Len(t.all) + 1
      <4>1. j \in 1 .. Len(t.all) /\ a[j] = t.all[j] /\ t.all[j] \in ToSet(t.all) BY <1>2, <1>7, <3>4
      <4>2. r[a[j]] = t.req[t.all[j]] BY <1>5, <4>1
      <4> QED BY <1>1, <2>3, <3>1, <3>2, <4>1, <4>2 DEF Entries
    <3> QED BY <3>3, <3>4
  <2> QED BY <1>15, <2>1, <2>2, <2>3 DEF Entries
<1>18. Pool(u, {})
  <2>1. ToSet(a) \cup ToSet(t.free) = Buffer \ {} /\ ToSet(a) \cap ToSet(t.free) = {}
    BY <1>1, <1>3, <1>7 DEF Pool
  <2>4. Len(t.all) \in Nat /\ Len(t.free) \in Nat /\ Len(a) = Len(t.all) + 1 BY <1>2, <1>7
  <2>2. Len(a) + Len(t.free) = MAX_REQ_NUM BY <1>1, <2>4, HandPut, Zenon
  <2> QED BY <1>1, <1>15, <2>1, <2>2 DEF Pool
<1> QED BY <1>3, <1>4, <1>7, <1>15, <1>16, <1>17, <1>18 DEF Consistent

-----------------------------------------------------------------------------
(* One turn of the server's main_loop.                                     *)

LineOf(t, s) == t.hash[hash_index[s]]
Asking(t, s, d) == {b \in ToSet(LineOf(t, s)) : t.req[b].src = s /\ t.req[b].dst = d}

\* A search of a hash line finds the request of the pair, if there is one.
LEMMA SearchesLine ==
  ASSUME NEW t, Consistent(t, {}), NEW s \in User, NEW d, NEW f, f = FirstOf(LineOf(t, s), Asking(t, s, d))
  PROVE  \/ f = NONE /\ \A b \in ToSet(t.all) : PairOf(t.req[b]) # <<s, d>>
         \/ f \in ToSet(t.all) /\ PairOf(t.req[f]) = <<s, d>>
<1>1. t \in Tables /\ Linked(t) BY DEF Consistent
<1>2. hash_index[s] \in Line BY DEF Line
<1>3. LineOf(t, s) \in Seq(Buffer) BY <1>1, <1>2, ListTypes DEF LineOf
<1>4. ToSet(LineOf(t, s)) = {b \in ToSet(t.all) : hash_index[t.req[b].src] = hash_index[s]}
  BY <1>1, <1>2 DEF Linked, LineOf
<1>5. (f = NONE /\ Asking(t, s, d) = {}) \/ f \in Asking(t, s, d)
  <2>1. Asking(t, s, d) \subseteq ToSet(LineOf(t, s)) BY DEF Asking
  <2> QED BY <1>3, <2>1, FirstOfLine, Zenon
<1>6. ASSUME NEW b \in ToSet(t.all), PairOf(t.req[b]) = <<s, d>> PROVE b \in Asking(t, s, d)
  <2>1. t.req[b].src = s /\ t.req[b].dst = d BY <1>6 DEF PairOf
  <2> QED BY <1>4, <2>1 DEF Asking
<1>7. \A b \in Asking(t, s, d) : b \in ToSet(t.all) /\ PairOf(t.req[b]) = <<s, d>> BY <1>4 DEF PairOf, Asking
<1> QED BY <1>5, <1>6, <1>7, Zenon

\* find_req finds the request of the same two users.
LEMMA Finds ==
  ASSUME NEW t, Consistent(t, {}), NEW m, m.src \in User
  PROVE  \/ find_req(t, m) = NONE /\ \A b \in ToSet(t.all) : PairOf(t.req[b]) # PairOf(m)
         \/ find_req(t, m) \in ToSet(t.all) /\ PairOf(t.req[find_req(t, m)]) = PairOf(m)
<1>1. find_req(t, m) = FirstOf(LineOf(t, m.src), Asking(t, m.src, m.dst)) BY DEF find_req, LineOf, Asking
<1>2. PairOf(m) = <<m.src, m.dst>> BY DEF PairOf
<1> QED BY <1>1, <1>2, SearchesLine, ZenonT(60)

\* find_match_req finds the request of the peer for the client.
LEMMA Matches ==
  ASSUME NEW t, Consistent(t, {}), NEW m, m.dst \in User
  PROVE  \/ find_match_req(t, m) = NONE /\ \A b \in ToSet(t.all) : PairOf(t.req[b]) # <<m.dst, m.src>>
         \/ /\ find_match_req(t, m) \in ToSet(t.all)
            /\ PairOf(t.req[find_match_req(t, m)]) = <<m.dst, m.src>>
<1>1. find_match_req(t, m) = FirstOf(LineOf(t, m.dst), Asking(t, m.dst, m.src))
  BY DEF find_match_req, req_match, LineOf, Asking
<1> QED BY <1>1, SearchesLine, Zenon

Past(t) == \A b \in ToSet(t.all) : t.req[b].timestamp <= now

\* What the server remembers of request m.
EntryOf(m) == [src |-> m.src, dst |-> m.dst, sockaddr_src |-> m.from, timestamp |-> now]

\* Request m goes to buffer b; buffer v, if it is linked, is unlinked before: it has the request
\* of the same pair, or the oldest one of a full table.
New(t, m) == \A c \in ToSet(t.all) : PairOf(t.req[c]) # PairOf(m)
Oldest(t, v) == v \in ToSet(t.all) /\ \A c \in ToSet(t.all) : t.req[v].timestamp <= t.req[c].timestamp
Unlinked(t, m, v) ==
  \/ v \in ToSet(t.all) /\ PairOf(t.req[v]) = PairOf(m)
  \/ New(t, m) /\ v \notin ToSet(t.all) /\ Len(t.all) < MAX_REQ_NUM
  \/ New(t, m) /\ Oldest(t, v) /\ Len(t.all) >= MAX_REQ_NUM
Recorded(t, m, u, b, v) ==
  /\ u.req = [t.req EXCEPT ![b] = EntryOf(m)]
  /\ b \notin ToSet(t.all) \ {v} /\ ToSet(u.all) = (ToSet(t.all) \ {v}) \cup {b}
  /\ Unlinked(t, m, v)

\* A buffer in hand is filled and linked.
LEMMA Fills ==
  ASSUME NEW t, NEW b \in Buffer, Consistent(t, {b}), Past(t), now \in 0 .. MAX_TIME,
         NEW m, m.src \in User, m.dst \in User, m.from \in Addr, New(t, m),
         NEW u, u = add_req([t EXCEPT !.req[b] = EntryOf(m)], b)
  PROVE  /\ Consistent(u, {}) /\ u.req = [t.req EXCEPT ![b] = EntryOf(m)]
         /\ ToSet(u.all) = ToSet(t.all) \cup {b} /\ b \notin ToSet(t.all)
<1>1. PICK e : e = EntryOf(m) OBVIOUS
<1>2. e \in Entry /\ PairOf(e) = PairOf(m) /\ e.timestamp = now BY <1>1 DEF EntryOf, Entry, PairOf
<1>3. \A c \in ToSet(t.all) : PairOf(t.req[c]) # PairOf(e) /\ t.req[c].timestamp <= e.timestamp
  BY <1>2 DEF New, Past
<1>4. u = add_req([t EXCEPT !.req[b] = e], b) BY <1>1
<1>5. /\ Consistent(u, {}) /\ u.req = [t.req EXCEPT ![b] = e]
      /\ ToSet(u.all) = ToSet(t.all) \cup {b} /\ b \notin ToSet(t.all)
  BY <1>2, <1>3, <1>4, Adds, Zenon
<1> QED BY <1>1, <1>5, Zenon

\* Record takes one buffer, and unlinks at most one request for it.
LEMMA Records ==
  ASSUME NEW t, Consistent(t, {}), Past(t), now \in 0 .. MAX_TIME,
         NEW m, m.src \in User, m.dst \in User, m.from \in Addr,
         NEW u, u = add_req([Room(t, m).t EXCEPT !.req[Room(t, m).b] = EntryOf(m)], Room(t, m).b)
  PROVE  Consistent(u, {}) /\ \E v : \E b \in Buffer : Recorded(t, m, u, b, v)
<1>1. PICK old : old = find_req(t, m) OBVIOUS
<1>2. t \in Tables /\ Linked(t) /\ Entries(t) /\ Pool(t, {}) BY DEF Consistent
<1>3. /\ t.all \in Seq(Buffer) /\ Len(t.all) \in Nat /\ ToSet(t.all) \subseteq Buffer /\ t.num = Len(t.all)
      /\ t.req \in [Buffer -> {NONE} \cup Entry]
  BY <1>2, ListTypes DEF Linked
<1>4. NONE \notin ToSet(t.all) BY <1>3, P2pAssumption DEF P2pAssumption, Buffer
<1>5. CASE old # NONE
  <2>1. old \in ToSet(t.all) /\ PairOf(t.req[old]) = PairOf(m) BY <1>1, <1>5, Finds
  <2>2. PICK w : w = delete_req(t, old) OBVIOUS
  <2>3. Room(t, m) = [t |-> w, b |-> old] BY <1>1, <1>5, <2>2 DEF Room
  <2>4. /\ Consistent(w, {old}) /\ old \in Buffer /\ w.req = t.req /\ ToSet(w.all) = ToSet(t.all) \ {old}
    BY <2>1, <2>2, Deletes
  <2>5. Past(w) /\ New(w, m)
    BY <1>2, <2>1, <2>4 DEF Past, New, Entries
  <2>6. u = add_req([w EXCEPT !.req[old] = EntryOf(m)], old) BY <2>3
  <2>7. /\ Consistent(u, {}) /\ u.req = [w.req EXCEPT ![old] = EntryOf(m)]
        /\ ToSet(u.all) = ToSet(w.all) \cup {old}
    BY <2>4, <2>5, <2>6, Fills
  <2>8. Unlinked(t, m, old) BY <2>1 DEF Unlinked
  <2>9. Recorded(t, m, u, old, old) BY <2>4, <2>7, <2>8 DEF Recorded
  <2> QED BY <2>4, <2>7, <2>9
<1>6. CASE old = NONE
  <2>1. New(t, m) BY <1>1, <1>4, <1>6, Finds DEF New
  <2>2. PICK t1 : t1 = IF t.num >= MAX_REQ_NUM THEN release_oldest_req(t) ELSE t OBVIOUS
  <2>3. PICK w, b : w = [t1 EXCEPT !.free = Tail(@)] /\ b = Head(t1.free) OBVIOUS
  <2>4. Room(t, m) = [t |-> w, b |-> b] BY <1>1, <1>6, <2>2, <2>3 DEF Room
  <2>5. u = add_req([w EXCEPT !.req[b] = EntryOf(m)], b) BY <2>4
  <2>6. CASE t.num < MAX_REQ_NUM
    <3>1. t1 = t /\ Len(t.all) < MAX_REQ_NUM BY <1>3, <2>2, <2>6, Limits
    <3>2. Consistent(w, {b}) /\ b \in Buffer /\ w.req = t.req /\ w.all = t.all BY <2>3, <3>1, Takes
    <3>3. Past(w) /\ New(w, m) BY <2>1, <3>2 DEF Past, New
    <3>4. /\ Consistent(u, {}) /\ u.req = [w.req EXCEPT ![b] = EntryOf(m)]
          /\ ToSet(u.all) = ToSet(w.all) \cup {b} /\ b \notin ToSet(w.all)
      BY <2>5, <3>2, <3>3, Fills
    <3>5. Unlinked(t, m, NONE) BY <1>4, <2>1, <3>1 DEF Unlinked
    <3>6. Recorded(t, m, u, b, NONE) BY <1>4, <3>2, <3>4, <3>5 DEF Recorded
    <3> QED BY <3>2, <3>4, <3>6
  <2>7. CASE ~(t.num < MAX_REQ_NUM)
    <3>1. t1 = release_oldest_req(t) /\ Len(t.all) >= MAX_REQ_NUM /\ Len(t.all) > 0 BY <1>3, <2>2, <2>7, Limits
    <3>2. PICK v : v = Head(t.all) OBVIOUS
    <3>3. v \in ToSet(t.all) /\ v = t.all[1] BY <1>2, <1>3, <3>1, <3>2, TailList DEF Linked
    <3>4. Oldest(t, v)
      <4> SUFFICES ASSUME NEW c \in ToSet(t.all) PROVE t.req[v].timestamp <= t.req[c].timestamp
        BY <3>3 DEF Oldest
      <4>1. PICK i \in 1 .. Len(t.all) : t.all[i] = c BY <1>3, Members
      <4>2. CASE i = 1
        <5>1. c = v BY <3>3, <4>1, <4>2
        <5>2. t.req[c] \in Entry BY <1>2 DEF Entries
        <5> QED BY <5>1, <5>2, Limits DEF Entry
      <4>3. CASE i # 1
        <5>1. 1 \in 1 .. Len(t.all) /\ 1 < i BY <1>3, <3>1, <4>1, <4>3
        <5> QED BY <1>2, <3>3, <4>1, <5>1 DEF Entries
      <4> QED BY <4>2, <4>3
    <3>5. t1 = release_req(t, v) BY <3>1, <3>2 DEF release_oldest_req
    <3>6. /\ Consistent(t1, {}) /\ t1.req = t.req /\ ToSet(t1.all) = ToSet(t.all) \ {v}
          /\ Len(t1.all) = Len(t.all) - 1
      BY <3>3, <3>5, Releases
    <3>7. Len(t1.all) < MAX_REQ_NUM
      <4>1. t.num = MAX_REQ_NUM
        <5>1. Len(t.all) + Len(t.free) = MAX_REQ_NUM BY <1>2, Zenon DEF Pool
        <5>2. Len(t.free) \in Nat BY <1>2, ListTypes
        <5> QED BY <1>2, <1>3, <3>1, <5>1, <5>2, Limits DEF Tables
      <4> QED BY <1>3, <3>6, <4>1, Limits
    <3>8. Consistent(w, {b}) /\ b \in Buffer /\ w.req = t1.req /\ w.all = t1.all BY <2>3, <3>6, <3>7, Takes
    <3>9. Past(w) /\ New(w, m) BY <2>1, <3>6, <3>8 DEF Past, New
    <3>10. /\ Consistent(u, {}) /\ u.req = [w.req EXCEPT ![b] = EntryOf(m)]
           /\ ToSet(u.all) = ToSet(w.all) \cup {b} /\ b \notin ToSet(w.all)
      BY <2>5, <3>8, <3>9, Fills
    <3>11. Unlinked(t, m, v) BY <2>1, <3>1, <3>4 DEF Unlinked
    <3>12. Recorded(t, m, u, b, v) BY <3>6, <3>8, <3>10, <3>11 DEF Recorded
    <3> QED BY <3>8, <3>10, <3>12
  <2> QED BY <2>6, <2>7
<1> QED BY <1>5, <1>6

-----------------------------------------------------------------------------
(* The table as a directory.                                               *)

PairsOf(t) == {PairOf(t.req[b]) : b \in ToSet(t.all)}
KnownOf(r) == [sockaddr_src |-> r.sockaddr_src, timestamp |-> r.timestamp]

\* The directory holds what the buffers of the linked requests hold.
LEMMA DirAt ==
  ASSUME NEW t, Consistent(t, {})
  PROVE  /\ DOMAIN DirOf(t) = PairsOf(t) /\ DirOf(t) = [p \in PairsOf(t) |-> DirOf(t)[p]]
         /\ \A b \in ToSet(t.all) : DirOf(t)[PairOf(t.req[b])] = KnownOf(t.req[b])
<1>1. \A b, c \in ToSet(t.all) : PairOf(t.req[b]) = PairOf(t.req[c]) => b = c BY DEF Consistent, Entries
<1>2. PICK chosen : chosen = [p \in PairsOf(t) |-> CHOOSE b \in ToSet(t.all) : PairOf(t.req[b]) = p] OBVIOUS
<1>3. DirOf(t) = [p \in PairsOf(t) |-> KnownOf(t.req[chosen[p]])] BY <1>2 DEF DirOf, PairsOf, KnownOf
<1>4. ASSUME NEW b \in ToSet(t.all) PROVE PairOf(t.req[b]) \in PairsOf(t) /\ chosen[PairOf(t.req[b])] = b
  <2>1. PairOf(t.req[b]) \in PairsOf(t) BY DEF PairsOf
  <2>2. (CHOOSE c \in ToSet(t.all) : PairOf(t.req[c]) = PairOf(t.req[b])) = b BY <1>1
  <2> QED BY <1>2, <2>1, <2>2
<1> QED BY <1>3, <1>4

\* A request that is unlinked is forgotten, and no other.
LEMMA DirForgets ==
  ASSUME NEW t, Consistent(t, {}), NEW u, Consistent(u, {}), NEW b \in ToSet(t.all),
         u.req = t.req, ToSet(u.all) = ToSet(t.all) \ {b}
  PROVE  DirOf(u) = Directory!Without(DirOf(t), PairOf(t.req[b]))
<1>1. \A c \in ToSet(t.all) : PairOf(t.req[c]) = PairOf(t.req[b]) => c = b BY DEF Consistent, Entries
<1>2. PairsOf(u) = PairsOf(t) \ {PairOf(t.req[b])} BY <1>1 DEF PairsOf
<1>3. \A p \in PairsOf(u) : DirOf(u)[p] = DirOf(t)[p]
  <2> SUFFICES ASSUME NEW c \in ToSet(u.all) PROVE DirOf(u)[PairOf(u.req[c])] = DirOf(t)[PairOf(u.req[c])]
    BY DEF PairsOf
  <2> QED BY DirAt
<1> QED BY <1>2, <1>3, DirAt DEF Directory!Without

\* A request that is recorded is remembered instead of that which is unlinked.
LEMMA DirRecords ==
  ASSUME NEW t, Consistent(t, {}), NEW u, Consistent(u, {}), NEW m, NEW b \in Buffer, NEW v, Recorded(t, m, u, b, v),
         NEW w, w = IF v \in ToSet(t.all) THEN PairOf(t.req[v]) ELSE PairOf(m)
  PROVE  DirOf(u) = Directory!Put(Directory!Without(DirOf(t), w), PairOf(m), KnownOf(EntryOf(m)))
<1>1. /\ u.req = [t.req EXCEPT ![b] = EntryOf(m)]
      /\ b \notin ToSet(t.all) \ {v} /\ ToSet(u.all) = (ToSet(t.all) \ {v}) \cup {b}
  BY DEF Recorded
<1>2. t.req \in [Buffer -> {NONE} \cup Entry] BY ListTypes DEF Consistent
<1>3. u.req[b] = EntryOf(m) /\ \A c \in ToSet(t.all) \ {v} : u.req[c] = t.req[c] BY <1>1, <1>2
<1>4. PairOf(EntryOf(m)) = PairOf(m) BY DEF PairOf, EntryOf
<1>5. PairsOf(t) \ {w} = {PairOf(t.req[c]) : c \in ToSet(t.all) \ {v}}
  <2>1. CASE v \in ToSet(t.all)
    <3>1. \A c \in ToSet(t.all) : PairOf(t.req[c]) = PairOf(t.req[v]) => c = v BY <2>1 DEF Consistent, Entries
    <3> QED BY <2>1, <3>1 DEF PairsOf
  <2>2. CASE v \notin ToSet(t.all)
    <3>1. New(t, m) BY <2>2 DEF Recorded, Unlinked, Oldest
    <3> QED BY <2>2, <3>1 DEF PairsOf, New
  <2> QED BY <2>1, <2>2
<1>6. PairsOf(u) = (PairsOf(t) \ {w}) \cup {PairOf(m)}
  <2>1. PairsOf(u) = {PairOf(u.req[c]) : c \in ToSet(t.all) \ {v}} \cup {PairOf(u.req[b])} BY <1>1 DEF PairsOf
  <2>2. {PairOf(u.req[c]) : c \in ToSet(t.all) \ {v}} = {PairOf(t.req[c]) : c \in ToSet(t.all) \ {v}} BY <1>3
  <2> QED BY <1>3, <1>4, <1>5, <2>1, <2>2
<1>7. \A c \in ToSet(u.all) : DirOf(u)[PairOf(u.req[c])] = KnownOf(u.req[c]) BY DirAt
<1>8. DirOf(u)[PairOf(m)] = KnownOf(EntryOf(m)) BY <1>1, <1>3, <1>4, <1>7
<1>9. \A p \in PairsOf(u) : p # PairOf(m) => DirOf(u)[p] = DirOf(t)[p]
  <2> SUFFICES ASSUME NEW c \in ToSet(u.all), PairOf(u.req[c]) # PairOf(m)
               PROVE  DirOf(u)[PairOf(u.req[c])] = DirOf(t)[PairOf(u.req[c])]
    BY DEF PairsOf
  <2>1. c \in ToSet(t.all) \ {v} /\ u.req[c] = t.req[c] BY <1>1, <1>3, <1>4
  <2> QED BY <1>7, <2>1, DirAt
<1>10. DOMAIN DirOf(t) = PairsOf(t) /\ DirOf(u) = [p \in PairsOf(u) |-> DirOf(u)[p]] BY DirAt
<1>11. PICK d : d = Directory!Without(DirOf(t), w) OBVIOUS
<1>12. DOMAIN d = PairsOf(t) \ {w} /\ \A p \in PairsOf(t) \ {w} : d[p] = DirOf(t)[p] BY <1>10, <1>11 DEF Directory!Without
<1>13. DirOf(u) = [p \in DOMAIN d \cup {PairOf(m)} |-> IF p = PairOf(m) THEN KnownOf(EntryOf(m)) ELSE d[p]]
  BY <1>6, <1>8, <1>9, <1>10, <1>12
<1> QED BY <1>11, <1>13 DEF Directory!Put

\* The directory has as many pairs of users as requests are linked.
LEMMA DirSize == ASSUME NEW t, Consistent(t, {}) PROVE Cardinality(PairsOf(t)) = Len(t.all)
<1>1. t.all \in Seq(Buffer) /\ Len(t.all) \in Nat BY ListTypes DEF Consistent
<1>2. /\ IsInjective(t.all)
      /\ \A b, c \in ToSet(t.all) : PairOf(t.req[b]) = PairOf(t.req[c]) => b = c
  BY DEF Consistent, Linked, Entries
<1>3. PICK s : s = t.all OBVIOUS
<1>4. PICK f : f = [i \in 1 .. Len(s) |-> PairOf(t.req[s[i]])] OBVIOUS
<1>5. f \in [1 .. Len(s) -> PairsOf(t)] BY <1>1, <1>3, <1>4, Members DEF PairsOf
<1>6. \A i, j \in 1 .. Len(s) : f[i] = f[j] => i = j
  <2> SUFFICES ASSUME NEW i \in 1 .. Len(s), NEW j \in 1 .. Len(s), f[i] = f[j] PROVE i = j OBVIOUS
  <2>1. s[i] \in ToSet(t.all) /\ s[j] \in ToSet(t.all) BY <1>1, <1>3, Members
  <2>2. PairOf(t.req[s[i]]) = PairOf(t.req[s[j]]) BY <1>4
  <2>3. s[i] = s[j] BY <1>2, <2>1, <2>2
  <2>4. DOMAIN s = 1 .. Len(s) BY <1>1, <1>3
  <2> QED BY <1>2, <1>3, <2>3, <2>4 DEF IsInjective
<1>7. \A p \in PairsOf(t) : \E i \in 1 .. Len(s) : f[i] = p
  <2> SUFFICES ASSUME NEW b \in ToSet(t.all) PROVE \E i \in 1 .. Len(s) : f[i] = PairOf(t.req[b]) BY DEF PairsOf
  <2>1. PICK i \in 1 .. Len(s) : s[i] = b BY <1>1, <1>3, Members
  <2> QED BY <1>4, <2>1
<1>8. f \in Bijection(1 .. Len(s), PairsOf(t))
  BY <1>5, <1>6, <1>7 DEF Bijection, Injection, Surjection, IsInjective
<1>9. ExistsBijection(1 .. Len(s), PairsOf(t)) BY <1>8 DEF ExistsBijection
<1>10. Len(s) \in Nat BY <1>1, <1>3
<1>11. Cardinality(PairsOf(t)) = Len(s) BY <1>9, <1>10, FS_CountingElements
<1> QED BY <1>3, <1>11

-----------------------------------------------------------------------------
(* The invariant.                                                          *)

\* The datagrams on their way.
Replies == [kind : {"reply"}, from : {Server}, to : Addr, peer : Addr \cup {NONE}]
HeartBeats == [kind : {"heart beat"}, from : Addr, to : Addr]
NetTypes == IsFiniteSet(net) /\ net \subseteq Requests \cup Replies \cup HeartBeats

\* A client that runs has a socket, and one that is connected a peer.
Sockets ==
  \A c \in Client : /\ pc[c] # "off" => addr[c] \in Addr
                    /\ addr[c] # NONE => addr[c] \in owned[c]
                    /\ connected[c] => sockaddr_peer[c] \in Addr

\* What clients ask for, what the server remembers of it and what it answers: the peer that a
\* client is told about is the one that it wants to talk to.
Asked(src, dst, a) == src \in Client => dst = PeerOf[src] /\ a \in owned[src]
RequestsOfOwners == \A m \in net : m.kind = "request" => Asked(m.src, m.dst, m.from)
TableOfOwners == \A b \in ToSet(tab.all) : Asked(tab.req[b].src, tab.req[b].dst, tab.req[b].sockaddr_src)
Told(m) == \E c \in Client : m.to \in owned[c] /\ m.peer \in owned[PeerOf[c]]
RepliesToOwners == \A m \in net : m.kind = "reply" /\ m.peer # NONE => Told(m)

TableInv == Consistent(tab, {}) /\ Past(tab) /\ TableOfOwners
NetInv == NetTypes /\ RequestsOfOwners /\ RepliesToOwners
P2pInv == TypeOK /\ TableInv /\ NetInv /\ Sockets /\ AddressOfPeer

\* The names of users and addresses.
LEMMA Users ==
  /\ Client \subseteq User /\ PeerOf \in [Client -> Client]
  /\ Server \notin Addr /\ NONE \notin Addr
BY P2pAssumption DEF P2pAssumption

\* What is in a request.
LEMMA RequestFields ==
  ASSUME NEW m \in Requests
  PROVE  /\ m.kind = "request" /\ m.from \in Addr /\ m.from # Server /\ m.src \in User /\ m.dst \in User
         /\ m.src \notin Client => m.dst \in Client
<1>1. CASE m \in Other BY <1>1, P2pAssumption DEF P2pAssumption
<1>2. CASE m \notin Other
  <2>1. PICK a \in Addr, c \in Client :
          m = [kind |-> "request", from |-> a, to |-> Server, src |-> c, dst |-> PeerOf[c]]
    BY <1>2 DEF Requests
  <2> QED BY <2>1, Users
<1> QED BY <1>1, <1>2

\* A consistent table has the types that TypeOK states, and loses no buffer.
LEMMA TableTypes ==
  ASSUME NEW t, Consistent(t, {})
  PROVE  t \in [all : Seq(Buffer), hash : [Line -> Seq(Buffer)], num : 0 .. MAX_REQ_NUM, free : Seq(Buffer),
                req : [Buffer -> {NONE} \cup Entry]]
<1>1. t \in Tables /\ t.num = Len(t.all) /\ Len(t.all) + Len(t.free) = MAX_REQ_NUM
  BY Zenon DEF Consistent, Linked, Pool
<1>2. Len(t.all) \in Nat /\ Len(t.free) \in Nat BY <1>1, ListTypes
<1>3. t.num \in 0 .. MAX_REQ_NUM BY <1>1, <1>2, Limits DEF Tables
<1> QED BY <1>1, <1>3 DEF Tables

\* In a consistent table no buffer is lost or linked twice.
LEMMA Accounted == Consistent(tab, {}) => BuffersAccounted
<1> SUFFICES ASSUME Consistent(tab, {}) PROVE BuffersAccounted OBVIOUS
<1>1. tab \in Tables /\ Linked(tab) /\ Pool(tab, {}) BY DEF Consistent
<1>2. tab.all \in Seq(Buffer) /\ tab.free \in Seq(Buffer) BY <1>1, ListTypes
<1>3. PICK a, f : a = tab.all /\ f = tab.free OBVIOUS
<1>4. Len(a) + Len(f) = MAX_REQ_NUM /\ ToSet(a) \cup ToSet(f) = Buffer BY <1>1, <1>3, Zenon DEF Pool
<1>5. a \in Seq(Buffer) /\ f \in Seq(Buffer) /\ Len(a) \in Nat /\ Len(f) \in Nat BY <1>2, <1>3
<1>6. PICK s : s = a \o f OBVIOUS
<1>7. /\ s \in Seq(Buffer) /\ Len(s) = Len(a) + Len(f)
      /\ \A i \in 1 .. Len(a) + Len(f) : s[i] = IF i <= Len(a) THEN a[i] ELSE f[i - Len(a)]
  BY <1>5, <1>6, ConcatProperties
<1>8. ToSet(s) = Buffer
  <2>1. ASSUME NEW b \in Buffer PROVE b \in ToSet(s)
    <3>1. CASE b \in ToSet(a)
      <4>1. PICK i \in 1 .. Len(a) : a[i] = b BY <1>5, <3>1, Members
      <4>2. i \in 1 .. Len(s) /\ s[i] = b BY <1>5, <1>7, <4>1
      <4> QED BY <1>7, <4>2, Members
    <3>2. CASE b \in ToSet(f)
      <4>1. PICK i \in 1 .. Len(f) : f[i] = b BY <1>5, <3>2, Members
      <4>2. i + Len(a) \in 1 .. Len(s) /\ ~(i + Len(a) <= Len(a)) /\ (i + Len(a)) - Len(a) = i BY <1>5, <1>7, <4>1
      <4>3. s[i + Len(a)] = b BY <1>7, <4>1, <4>2
      <4> QED BY <1>7, <4>2, <4>3, Members
    <3> QED BY <1>4, <3>1, <3>2
  <2> QED BY <1>7, <2>1, Members
<1>9. tab.num = Len(tab.all) BY <1>1 DEF Linked
<1> QED BY <1>1, <1>3, <1>4, <1>6, <1>7, <1>8, <1>9 DEF BuffersAccounted, Linked

-----------------------------------------------------------------------------
(* What keeps the parts of the invariant.                                  *)

OwnedGrows == \A c \in Client : owned[c] \subseteq owned'[c]

\* A datagram is added if there is room for it.
LEMMA WithOne ==
  ASSUME NEW n, IsFiniteSet(n), Cardinality(n) <= NET_CAP, NEW m
  PROVE  /\ IsFiniteSet(With(n, m)) /\ Cardinality(With(n, m)) <= NET_CAP
         /\ With(n, m) \subseteq n \cup {m} /\ n \subseteq With(n, m)
<1>1. CASE Cardinality(n) < NET_CAP
  <2>1. With(n, m) = n \cup {m} BY <1>1 DEF With
  <2>2. IsFiniteSet(n \cup {m}) /\ Cardinality(n \cup {m}) = IF m \in n THEN Cardinality(n) ELSE Cardinality(n) + 1
    BY FS_AddElement
  <2>3. Cardinality(n) \in Nat BY FS_CardinalityType
  <2> QED BY <1>1, <2>1, <2>2, <2>3, Limits
<1>2. CASE ~(Cardinality(n) < NET_CAP)
  <2>1. With(n, m) = n BY <1>2 DEF With
  <2> QED BY <2>1
<1> QED BY <1>1, <1>2

\* Datagrams that get lost disturb nothing.
LEMMA NetLoses ==
  ASSUME TypeOK, NetInv, NEW n \in SUBSET net
  PROVE  IsFiniteSet(n) /\ Cardinality(n) <= NET_CAP
<1>1. IsFiniteSet(net) /\ Cardinality(net) <= NET_CAP BY DEF NetInv, NetTypes, TypeOK
<1>2. IsFiniteSet(n) /\ Cardinality(n) <= Cardinality(net) BY <1>1, FS_Subset
<1>3. Cardinality(n) \in Nat /\ Cardinality(net) \in Nat BY <1>1, <1>2, FS_CardinalityType
<1> QED BY <1>1, <1>2, <1>3, Limits

\* A datagram says who asked from where, or where the one asked for is.
Honest(m) ==
  /\ m \in Requests \cup Replies \cup HeartBeats
  /\ m.kind = "request" => Asked(m.src, m.dst, m.from)
  /\ m.kind = "reply" /\ m.peer # NONE => Told(m)

\* The invariant of the network is one of each datagram.
LEMMA HonestNet == NetInv <=> IsFiniteSet(net) /\ \A m \in net : Honest(m)
BY DEF NetInv, NetTypes, RequestsOfOwners, RepliesToOwners, Honest

\* A datagram stays true when clients get further addresses.
LEMMA HonestStays == ASSUME OwnedGrows, NEW m, Honest(m) PROVE Honest(m)'
BY Users DEF OwnedGrows, Honest, Asked, Told

\* A step that sends one true datagram, or none, and takes others away.
LEMMA NetSends ==
  ASSUME TypeOK, NetInv, OwnedGrows, NEW n \in SUBSET net, NEW m, Honest(m)', net' = n \/ net' = With(n, m)
  PROVE  NetInv' /\ Cardinality(net') <= NET_CAP /\ net' \subseteq n \cup {m}
<1>1. IsFiniteSet(n) /\ Cardinality(n) <= NET_CAP BY NetLoses
<1>2. IsFiniteSet(net') /\ Cardinality(net') <= NET_CAP /\ net' \subseteq n \cup {m} BY <1>1, WithOne
<1>3. \A d \in n : Honest(d)' BY HonestNet, HonestStays
<1>4. \A d \in net' : Honest(d)' BY <1>2, <1>3
<1>5. NetInv' BY <1>2, <1>4 DEF NetInv, NetTypes, RequestsOfOwners, RepliesToOwners, Honest
<1> QED BY <1>2, <1>5

\* The same when nothing is sent.
LEMMA NetKeeps ==
  ASSUME TypeOK, NetInv, OwnedGrows, net' \subseteq net
  PROVE  NetInv' /\ Cardinality(net') <= NET_CAP
<1>1. IsFiniteSet(net') /\ Cardinality(net') <= NET_CAP BY NetLoses
<1>2. \A d \in net' : Honest(d)' BY HonestNet, HonestStays
<1> QED BY <1>1, <1>2 DEF NetInv, NetTypes, RequestsOfOwners, RepliesToOwners, Honest

\* A step that leaves the table alone.
LEMMA TableKeeps ==
  ASSUME TypeOK, TableInv, OwnedGrows, tab' = tab, now' \in Nat, now <= now'
  PROVE  TableInv'
<1>1. Consistent(tab', {}) BY DEF TableInv
<1>2. \A b \in ToSet(tab.all) : tab.req[b].timestamp \in Nat
  BY DEF TableInv, Consistent, Entries, Entry
<1>3. Past(tab)' BY <1>2 DEF TableInv, Past, TypeOK
<1>4. TableOfOwners' BY DEF TableInv, TableOfOwners, Asked, OwnedGrows
<1> QED BY <1>1, <1>3, <1>4 DEF TableInv

\* A client that is told nothing new talks to the right peer still.
LEMMA PeersKeep ==
  ASSUME TypeOK, AddressOfPeer, OwnedGrows,
         \A c \in Client : sockaddr_peer'[c] \in {sockaddr_peer[c], NONE}
  PROVE  AddressOfPeer'
BY Users DEF AddressOfPeer, OwnedGrows

-----------------------------------------------------------------------------
(* One turn of the server.                                                 *)

Answers(m, n, t) ==
  \/ /\ \A c \in ToSet(t.all) : PairOf(t.req[c]) # <<m.dst, m.src>>
     /\ tab' = t /\ net' = With(n, Reply(m, NONE))
  \/ \E f \in ToSet(t.all) :
       /\ PairOf(t.req[f]) = <<m.dst, m.src>>
       /\ \/ /\ now - t.req[f].timestamp > gap
             /\ tab' = release_req(t, f) /\ net' = With(n, Reply(m, NONE))
          \/ /\ ~(now - t.req[f].timestamp > gap)
             /\ tab' = t /\ net' = With(n, Reply(m, t.req[f].sockaddr_src))

\* A turn records the request, and answers it by what it then finds.
LEMMA Turns ==
  ASSUME TypeOK, TableInv, NEW m \in Requests, NEW n, Serve(m, n)
  PROVE  \E t, v : \E b \in Buffer : Recorded(tab, m, t, b, v) /\ Consistent(t, {}) /\ Answers(m, n, t)
<1>1. PICK t : t = Record(tab, m) OBVIOUS
<1>2. m.src \in User /\ m.dst \in User /\ m.from \in Addr BY RequestFields
<1>3. now \in 0 .. MAX_TIME BY DEF TypeOK
<1>4. t = add_req([Room(tab, m).t EXCEPT !.req[Room(tab, m).b] = EntryOf(m)], Room(tab, m).b)
  BY <1>1 DEF Record, EntryOf
<1>5. Consistent(tab, {}) /\ Past(tab) BY DEF TableInv
<1>6. Consistent(t, {}) /\ \E v : \E b \in Buffer : Recorded(tab, m, t, b, v)
  BY <1>2, <1>3, <1>4, <1>5, Records
<1>7. Answers(m, n, t)
  <2>1. PICK f : f = find_match_req(t, m) OBVIOUS
  <2>2. \/ f = NONE /\ \A b \in ToSet(t.all) : PairOf(t.req[b]) # <<m.dst, m.src>>
        \/ f \in ToSet(t.all) /\ PairOf(t.req[f]) = <<m.dst, m.src>>
    BY <1>2, <1>6, <2>1, Matches, Zenon
  <2>3. NONE \notin ToSet(t.all)
    <3>1. ToSet(t.all) \subseteq Buffer BY <1>6, ListTypes DEF Consistent
    <3> QED BY <3>1, P2pAssumption DEF P2pAssumption, Buffer
  <2>4. /\ tab' = IF f # NONE /\ now - t.req[f].timestamp > gap THEN release_req(t, f) ELSE t
        /\ net' = With(n, Reply(m, IF f = NONE \/ (f # NONE /\ now - t.req[f].timestamp > gap) THEN NONE
                                   ELSE t.req[f].sockaddr_src))
    BY <1>1, <2>1 DEF Serve
  <2>5. CASE f = NONE BY <2>2, <2>3, <2>4, <2>5 DEF Answers
  <2>6. CASE f # NONE /\ now - t.req[f].timestamp > gap BY <2>2, <2>4, <2>6 DEF Answers
  <2>7. CASE f # NONE /\ ~(now - t.req[f].timestamp > gap)
    <3>1. tab' = t /\ net' = With(n, Reply(m, t.req[f].sockaddr_src)) BY <2>4, <2>7
    <3> QED BY <2>2, <2>7, <3>1 DEF Answers
  <2> QED BY <2>5, <2>6, <2>7
<1> QED BY <1>6, <1>7, Zenon

\* What the table has recorded was asked for.
LEMMA AskedOf ==
  ASSUME TableOfOwners, NEW m, Asked(m.src, m.dst, m.from), Consistent(tab, {}),
         NEW t, NEW b \in Buffer, NEW v, Recorded(tab, m, t, b, v), NEW c \in ToSet(t.all)
  PROVE  Asked(t.req[c].src, t.req[c].dst, t.req[c].sockaddr_src)
<1>1. tab.req \in [Buffer -> {NONE} \cup Entry] /\ ToSet(tab.all) \subseteq Buffer BY ListTypes DEF Consistent
<1>2. /\ t.req = [tab.req EXCEPT ![b] = EntryOf(m)]
      /\ c = b \/ (c \in ToSet(tab.all) /\ c # b)
  BY DEF Recorded
<1>3. CASE c = b
  <2>1. t.req[c] = EntryOf(m) BY <1>1, <1>2, <1>3
  <2> QED BY <2>1 DEF EntryOf
<1>4. CASE c # b
  <2>1. c \in ToSet(tab.all) /\ t.req[c] = tab.req[c] BY <1>1, <1>2, <1>4
  <2> QED BY <2>1 DEF TableOfOwners
<1> QED BY <1>3, <1>4

\* A request is recorded with the time of its turn.
LEMMA PastOf ==
  ASSUME Past(tab), now \in Nat, NEW m, Consistent(tab, {}),
         NEW t, NEW b \in Buffer, NEW v, Recorded(tab, m, t, b, v)
  PROVE  Past(t)
<1>1. tab.req \in [Buffer -> {NONE} \cup Entry] /\ ToSet(tab.all) \subseteq Buffer BY ListTypes DEF Consistent
<1>2. /\ t.req = [tab.req EXCEPT ![b] = EntryOf(m)]
      /\ \A c \in ToSet(t.all) : c = b \/ (c \in ToSet(tab.all) /\ c # b)
  BY DEF Recorded
<1>3. t.req[b].timestamp = now BY <1>1, <1>2 DEF EntryOf
<1>4. \A c \in ToSet(t.all) : c # b => t.req[c] = tab.req[c] /\ c \in ToSet(tab.all) BY <1>1, <1>2
<1> QED BY <1>3, <1>4 DEF Past

\* The peer in an answer is the one that the client wants to talk to: nobody but a client's
\* peer asks for the client, and the requests of others are not matched with a client's.
LEMMA HonestReply ==
  ASSUME TypeOK, NEW m \in Requests, Asked(m.src, m.dst, m.from),
         NEW r \in Entry, PairOf(r) = <<m.dst, m.src>>, Asked(r.src, r.dst, r.sockaddr_src)
  PROVE  Honest(Reply(m, r.sockaddr_src))
<1>1. r.src = m.dst /\ r.dst = m.src BY DEF PairOf
<1>2. m.from \in Addr /\ (m.src \notin Client => m.dst \in Client) BY RequestFields
<1>3. m.src \in Client BY <1>1, <1>2, Users DEF Asked
<1>4. m.dst = PeerOf[m.src] /\ m.from \in owned[m.src] /\ m.dst \in Client BY <1>3, Users DEF Asked
<1>5. r.sockaddr_src \in owned[PeerOf[m.src]] /\ r.sockaddr_src \in Addr BY <1>1, <1>4 DEF Asked, Entry
<1>6. Told(Reply(m, r.sockaddr_src)) BY <1>3, <1>4, <1>5 DEF Told, Reply
<1>7. Reply(m, r.sockaddr_src) \in Replies /\ Reply(m, r.sockaddr_src).kind = "reply"
  BY <1>2, <1>5 DEF Replies, Reply
<1> QED BY <1>6, <1>7 DEF Honest

\* A reply without an address is true.
LEMMA HonestRefusal == ASSUME NEW m \in Requests PROVE Honest(Reply(m, NONE))
<1>1. m.from \in Addr BY RequestFields
<1>2. Reply(m, NONE) \in Replies /\ Reply(m, NONE).kind = "reply" /\ Reply(m, NONE).peer = NONE
  BY <1>1 DEF Replies, Reply
<1> QED BY <1>2 DEF Honest

\* A turn of the server keeps the invariant.
LEMMA ServeStep ==
  ASSUME P2pInv, NEW m \in Requests, NEW n \in SUBSET net, Asked(m.src, m.dst, m.from), Serve(m, n),
         faults' \in 0 .. MAX_FAULTS
  PROVE  P2pInv'
<1>1. TypeOK /\ TableInv /\ NetInv /\ Sockets /\ AddressOfPeer BY DEF P2pInv
<1>2. Consistent(tab, {}) /\ Past(tab) /\ TableOfOwners BY <1>1 DEF TableInv
<1>3. PICK t, v : \E b \in Buffer : Recorded(tab, m, t, b, v) /\ Consistent(t, {}) /\ Answers(m, n, t)
  BY <1>1, Turns, Zenon
<1>4. PICK b \in Buffer : Recorded(tab, m, t, b, v) BY <1>3
<1>5. \A c \in ToSet(t.all) : Asked(t.req[c].src, t.req[c].dst, t.req[c].sockaddr_src)
  BY <1>2, <1>4, AskedOf
<1>6. Past(t)
  <2>1. now \in Nat BY <1>1 DEF TypeOK
  <2> QED BY <1>2, <1>4, <2>1, PastOf
<1>7. \A c \in ToSet(t.all) : t.req[c] \in Entry BY <1>3 DEF Consistent, Entries
<1>8. UNCHANGED <<now, client, owned>> BY DEF Serve
<1>9. PICK peer : net' = With(n, Reply(m, peer)) /\ Honest(Reply(m, peer))
  <2>1. ASSUME NEW f \in ToSet(t.all), PairOf(t.req[f]) = <<m.dst, m.src>>
        PROVE  Honest(Reply(m, t.req[f].sockaddr_src))
    BY <1>1, <1>5, <1>7, <2>1, HonestReply
  <2> QED BY <1>3, <2>1, HonestRefusal DEF Answers
<1>10. /\ Consistent(tab', {}) /\ tab'.req = t.req
       /\ ToSet(tab'.all) \subseteq ToSet(t.all)
  <2>1. \A f \in ToSet(t.all) : LET u == release_req(t, f)
                                IN Consistent(u, {}) /\ u.req = t.req /\ ToSet(u.all) \subseteq ToSet(t.all)
    BY <1>3, Releases
  <2> QED BY <1>3, <2>1 DEF Answers
<1>11. TableInv'
  <2>1. Past(tab)' BY <1>6, <1>8, <1>10 DEF Past
  <2>2. TableOfOwners' BY <1>5, <1>8, <1>10 DEF TableOfOwners, Asked
  <2> QED BY <1>10, <2>1, <2>2 DEF TableInv
<1>12. NetInv' /\ Cardinality(net') <= NET_CAP
  <2>1. OwnedGrows BY <1>8 DEF OwnedGrows
  <2>2. Honest(Reply(m, peer))' BY <1>9, <2>1, HonestStays, <1>8 DEF Honest, Asked, Told, Reply
  <2> QED BY <1>1, <1>9, <2>1, <2>2, NetSends
<1>13. TypeOK' BY <1>1, <1>8, <1>10, <1>12, TableTypes DEF TypeOK, client, Entry
<1>14. Sockets' /\ AddressOfPeer' BY <1>1, <1>8 DEF Sockets, AddressOfPeer, client
<1> QED BY <1>11, <1>12, <1>13, <1>14 DEF P2pInv

-----------------------------------------------------------------------------
(* The steps of the others.                                                *)

\* What a step has to show that leaves the table alone and starts nobody.
LEMMA Keeps ==
  ASSUME P2pInv, UNCHANGED <<server, owned>>
  PROVE  OwnedGrows /\ TableInv'
<1>1. TypeOK /\ TableInv BY DEF P2pInv
<1>2. now \in Nat /\ now <= now /\ now' = now /\ tab' = tab BY <1>1 DEF TypeOK, server
<1>3. OwnedGrows BY DEF OwnedGrows
<1> QED BY <1>1, <1>2, <1>3, TableKeeps

\* A client asks for the user it was told to talk to.
LEMMA SendRequestStep == ASSUME P2pInv, NEW c \in Client, SendRequest(c) PROVE P2pInv'
<1>1. TypeOK /\ NetInv /\ Sockets /\ AddressOfPeer BY DEF P2pInv
<1>2. UNCHANGED <<server, owned>> BY DEF SendRequest
<1>3. OwnedGrows /\ TableInv' BY <1>2, Keeps
<1>4. PICK m : m = [kind |-> "request", from |-> addr[c], to |-> Server, src |-> c, dst |-> PeerOf[c]] OBVIOUS
<1>5. addr[c] \in Addr /\ addr[c] \in owned[c] BY <1>1, Users DEF SendRequest, Sockets
<1>6. Honest(m)'
  <2>1. m \in Requests /\ m.kind = "request" /\ m.src = c /\ m.dst = PeerOf[c] /\ m.from = addr[c]
    BY <1>4, <1>5 DEF Requests
  <2> QED BY <1>2, <1>5, <2>1 DEF Honest, Asked
<1>7. net' = With(net, m) BY <1>4 DEF SendRequest
<1>8. NetInv' /\ Cardinality(net') <= NET_CAP BY <1>1, <1>3, <1>6, <1>7, NetSends
<1>9. TypeOK' BY <1>1, <1>8 DEF SendRequest, TypeOK, server
<1>10. Sockets' /\ AddressOfPeer' BY <1>1, <1>5 DEF SendRequest, Sockets, AddressOfPeer, TypeOK
<1> QED BY <1>3, <1>8, <1>9, <1>10 DEF P2pInv

\* A client that turns to its next request has learnt nothing.
LEMMA NextRequestStep == ASSUME P2pInv, NEW c \in Client, NextRequest(c) \/ LoopTop(c) PROVE P2pInv'
<1>1. TypeOK /\ NetInv /\ Sockets /\ AddressOfPeer BY DEF P2pInv
<1>2. /\ UNCHANGED <<server, addr, connected, sockaddr_peer, heart_beat_miss_cnt, net, owned, faults>>
      /\ pc[c] # "off" /\ pc' = [pc EXCEPT ![c] = "request"]
  BY DEF NextRequest, LoopTop
<1>3. OwnedGrows /\ TableInv' BY <1>2, Keeps
<1>4. NetInv' /\ Cardinality(net') <= NET_CAP BY <1>1, <1>2, <1>3, NetKeeps
<1>5. TypeOK' BY <1>1, <1>2, <1>4 DEF TypeOK, server
<1>6. Sockets' /\ AddressOfPeer' BY <1>1, <1>2 DEF Sockets, AddressOfPeer, TypeOK
<1> QED BY <1>3, <1>4, <1>5, <1>6 DEF P2pInv

\* As long as no address has had two owners, a reply at c's address is one to c.
LEMMA AnswerStep == ASSUME P2pInv, NEW c \in Client, Answer(c) PROVE P2pInv'
<1>1. TypeOK /\ NetInv /\ Sockets /\ AddressOfPeer BY DEF P2pInv
<1>2. PICK m \in net :
        /\ pc[c] = "wait" /\ m.to = addr[c] /\ net' = net \ {m}
        /\ \/ m.from # Server /\ UNCHANGED <<pc, connected, sockaddr_peer>>
           \/ /\ m.from = Server /\ m.peer = NONE
              /\ pc' = [pc EXCEPT ![c] = "request"] /\ UNCHANGED <<connected, sockaddr_peer>>
           \/ /\ m.from = Server /\ m.peer # NONE
              /\ sockaddr_peer' = [sockaddr_peer EXCEPT ![c] = m.peer]
              /\ connected' = [connected EXCEPT ![c] = TRUE]
              /\ pc' = [pc EXCEPT ![c] = "main"]
        /\ UNCHANGED <<server, addr, heart_beat_miss_cnt, owned, faults>>
  BY DEF Answer
<1>3. OwnedGrows /\ TableInv' BY <1>2, Keeps
<1>4. NetInv' /\ Cardinality(net') <= NET_CAP BY <1>1, <1>2, <1>3, NetKeeps
<1>5. m.from = Server => m \in Replies
  BY <1>1, Users, RequestFields DEF NetInv, NetTypes, HeartBeats
<1>6. addr[c] \in owned[c] BY <1>1, <1>2, Users DEF Sockets
<1>7. ASSUME m.from = Server, m.peer # NONE
      PROVE  /\ m.peer \in Addr
             /\ (\A a, b \in Client : a # b => owned[a] \cap owned[b] = {}) => m.peer \in owned[PeerOf[c]]
  <2>1. m.peer \in Addr /\ m.kind = "reply" BY <1>5, <1>7 DEF Replies
  <2>2. PICK d \in Client : m.to \in owned[d] /\ m.peer \in owned[PeerOf[d]]
    BY <1>1, <1>2, <1>7, <2>1 DEF NetInv, RepliesToOwners, Told
  <2>3. c # d => owned[c] \cap owned[d] # {} BY <1>2, <1>6, <2>2
  <2> QED BY <2>1, <2>2, <2>3
<1>8. TypeOK' BY <1>1, <1>2, <1>4, <1>7 DEF TypeOK, server
<1>9. Sockets' BY <1>1, <1>2, <1>7 DEF Sockets, TypeOK
<1>10. AddressOfPeer' BY <1>1, <1>2, <1>7 DEF AddressOfPeer, TypeOK
<1> QED BY <1>3, <1>4, <1>8, <1>9, <1>10 DEF P2pInv

\* A datagram in main_loop is taken out, whoever sent it.
LEMMA ReceiveStep == ASSUME P2pInv, NEW c \in Client, Receive(c) PROVE P2pInv'
<1>1. TypeOK /\ NetInv /\ Sockets /\ AddressOfPeer BY DEF P2pInv
<1>2. UNCHANGED <<server, owned>> /\ net' \subseteq net BY DEF Receive
<1>3. OwnedGrows /\ TableInv' BY <1>2, Keeps
<1>4. NetInv' /\ Cardinality(net') <= NET_CAP BY <1>1, <1>2, <1>3, NetKeeps
<1>5. TypeOK' BY <1>1, <1>4, Limits DEF Receive, TypeOK, server
<1>6. Sockets' /\ AddressOfPeer' BY <1>1 DEF Receive, Sockets, AddressOfPeer
<1> QED BY <1>3, <1>4, <1>5, <1>6 DEF P2pInv

\* An error of recvfrom ends the connection, not the knowledge of the peer.
LEMMA ReceiveFailsStep == ASSUME P2pInv, NEW c \in Client, ReceiveFails(c) PROVE P2pInv'
<1>1. TypeOK /\ NetInv /\ Sockets /\ AddressOfPeer BY DEF P2pInv
<1>2. UNCHANGED <<server, owned>> /\ net' \subseteq net BY DEF ReceiveFails
<1>3. OwnedGrows /\ TableInv' BY <1>2, Keeps
<1>4. NetInv' /\ Cardinality(net') <= NET_CAP BY <1>1, <1>2, <1>3, NetKeeps
<1>5. TypeOK' BY <1>1, <1>4 DEF ReceiveFails, TypeOK, server
<1>6. Sockets' /\ AddressOfPeer' BY <1>1 DEF ReceiveFails, Sockets, AddressOfPeer, TypeOK
<1> QED BY <1>3, <1>4, <1>5, <1>6 DEF P2pInv

\* The handler of SIGALRM sends to the peer it has.
LEMMA TimerStep == ASSUME P2pInv, NEW c \in Client, timer_proc(c) PROVE P2pInv'
<1>1. TypeOK /\ NetInv /\ Sockets /\ AddressOfPeer BY DEF P2pInv
<1>2. UNCHANGED <<server, owned>> BY DEF timer_proc
<1>3. OwnedGrows /\ TableInv' BY <1>2, Keeps
<1>4. PICK m : m = [kind |-> "heart beat", from |-> addr[c], to |-> sockaddr_peer[c]] OBVIOUS
<1>5. addr[c] \in Addr /\ sockaddr_peer[c] \in Addr BY <1>1 DEF timer_proc, Sockets
<1>6. Honest(m)' BY <1>4, <1>5 DEF Honest, HeartBeats
<1>7. net' = With(net, m) BY <1>4 DEF timer_proc
<1>8. NetInv' /\ Cardinality(net') <= NET_CAP BY <1>1, <1>3, <1>6, <1>7, NetSends
<1>9. TypeOK'
  <2>1. Missed(c) \in Nat BY <1>1 DEF TypeOK, Missed
  <2>2. (IF Missed(c) > MISS_LIMIT THEN MISS_LIMIT ELSE Missed(c)) \in 0 .. MISS_LIMIT BY <2>1, Limits
  <2>3. heart_beat_miss_cnt' \in [Client -> 0 .. MISS_LIMIT] BY <1>1, <2>2 DEF timer_proc, TypeOK
  <2>4. connected' \in [Client -> BOOLEAN] BY <1>1 DEF timer_proc, TypeOK
  <2> QED BY <1>1, <1>8, <2>3, <2>4 DEF timer_proc, TypeOK, server
<1>10. Sockets' /\ AddressOfPeer' BY <1>1, <1>5, ZenonT(60) DEF timer_proc, Sockets, AddressOfPeer, TypeOK
<1> QED BY <1>3, <1>8, <1>9, <1>10 DEF P2pInv

\* A client that starts adds to the addresses that it has had.
LEMMA StartStep == ASSUME P2pInv, NEW c \in Client, Start(c) PROVE P2pInv'
<1>1. TypeOK /\ TableInv /\ NetInv /\ Sockets /\ AddressOfPeer BY DEF P2pInv
<1>2. PICK a \in Addr : /\ addr' = [addr EXCEPT ![c] = a]
                        /\ owned' = [owned EXCEPT ![c] = @ \cup {a}]
  BY DEF Start, Free
<1>3. OwnedGrows BY <1>1, <1>2 DEF OwnedGrows, TypeOK
<1>4. TableInv'
  <2>1. now \in Nat /\ now <= now /\ now' = now /\ tab' = tab BY <1>1 DEF TypeOK, Start, server
  <2> QED BY <1>1, <1>3, <2>1, TableKeeps
<1>5. NetInv' /\ Cardinality(net') <= NET_CAP
  <2>1. net' \subseteq net BY DEF Start
  <2> QED BY <1>1, <1>3, <2>1, NetKeeps
<1>6. TypeOK' BY <1>1, <1>2, <1>5 DEF Start, TypeOK, server
<1>7. Sockets' BY <1>1, <1>2 DEF Start, Sockets, TypeOK
<1>8. AddressOfPeer'
  <2>1. \A d \in Client : sockaddr_peer'[d] \in {sockaddr_peer[d], NONE} BY DEF Start
  <2> QED BY <1>1, <1>3, <2>1, PeersKeep
<1> QED BY <1>4, <1>5, <1>6, <1>7, <1>8 DEF P2pInv

\* What a client that crashes leaves behind is true still.
LEMMA CrashStep == ASSUME P2pInv, NEW c \in Client, Crash(c) PROVE P2pInv'
<1>1. TypeOK /\ NetInv /\ Sockets /\ AddressOfPeer BY DEF P2pInv
<1>2. UNCHANGED <<server, owned>> /\ net' \subseteq net BY DEF Crash
<1>3. OwnedGrows /\ TableInv' BY <1>2, Keeps
<1>4. NetInv' /\ Cardinality(net') <= NET_CAP BY <1>1, <1>2, <1>3, NetKeeps
<1>5. TypeOK' BY <1>1, <1>4, Limits DEF Crash, Fault, TypeOK, server
<1>6. Sockets' BY <1>1 DEF Crash, Sockets, TypeOK
<1>7. AddressOfPeer'
  <2>1. \A d \in Client : sockaddr_peer'[d] \in {sockaddr_peer[d], NONE} BY <1>1 DEF Crash, TypeOK
  <2> QED BY <1>1, <1>3, <2>1, PeersKeep
<1> QED BY <1>3, <1>4, <1>5, <1>6, <1>7 DEF P2pInv

\* The times recorded stay in the past.
LEMMA TimePassesStep == ASSUME P2pInv, TimePasses PROVE P2pInv'
<1>1. TypeOK /\ TableInv /\ NetInv /\ Sockets /\ AddressOfPeer BY DEF P2pInv
<1>2. OwnedGrows BY DEF OwnedGrows, TimePasses
<1>3. now' \in 0 .. MAX_TIME /\ now <= now' BY <1>1, Limits DEF TimePasses, TypeOK
<1>4. TableInv' BY <1>1, <1>2, <1>3, TableKeeps DEF TimePasses
<1>5. NetInv' /\ Cardinality(net') <= NET_CAP BY <1>1, <1>2, NetKeeps DEF TimePasses
<1>6. TypeOK' BY <1>1, <1>3, <1>5 DEF TimePasses, TypeOK, client
<1>7. Sockets' /\ AddressOfPeer' BY <1>1 DEF TimePasses, Sockets, AddressOfPeer, client
<1> QED BY <1>4, <1>5, <1>6, <1>7 DEF P2pInv

\* The server starts with all buffers free.
LEMMA FreshTable ==
  /\ Consistent(init_internal_struct, {})
  /\ init_internal_struct.all = <<>> /\ ToSet(init_internal_struct.all) = {}
<1>1. PICK t : t = init_internal_struct OBVIOUS
<1>2. /\ t.all = <<>> /\ t.hash = [l \in Line |-> <<>>] /\ t.num = 0
      /\ t.free = [i \in Buffer |-> i] /\ t.req = [b \in Buffer |-> NONE]
  BY <1>1 DEF init_internal_struct
<1>3. t.free \in Seq(Buffer) /\ Len(t.free) = MAX_REQ_NUM
  BY <1>2, Limits DEF Buffer
<1>4. ToSet(t.all) = {} /\ Len(t.all) = 0 /\ \A l \in Line : ToSet(t.hash[l]) = {} BY <1>2 DEF ToSet
<1>5. ToSet(t.free) = Buffer BY <1>2 DEF ToSet
<1>6. t \in Tables BY <1>1, <1>3, <1>2 DEF Tables, init_internal_struct
<1>7. Linked(t) BY <1>2, <1>4 DEF Linked, IsInjective
<1>8. Entries(t) BY <1>4 DEF Entries
<1>9. Pool(t, {}) BY <1>2, <1>3, <1>4, <1>5, Limits DEF Pool, IsInjective, Buffer
<1> QED BY <1>1, <1>2, <1>4, <1>6, <1>7, <1>8, <1>9 DEF Consistent

\* A server that restarts has forgotten everything.
LEMMA RestartStep == ASSUME P2pInv, ServerRestarts PROVE P2pInv'
<1>1. TypeOK /\ NetInv /\ Sockets /\ AddressOfPeer BY DEF P2pInv
<1>2. OwnedGrows BY DEF OwnedGrows, ServerRestarts
<1>3. tab' = init_internal_struct /\ Consistent(tab', {}) /\ ToSet(tab'.all) = {} BY FreshTable DEF ServerRestarts
<1>4. TableInv' BY <1>3 DEF TableInv, Past, TableOfOwners
<1>5. NetInv' /\ Cardinality(net') <= NET_CAP BY <1>1, <1>2, NetKeeps DEF ServerRestarts
<1>6. TypeOK' BY <1>1, <1>3, <1>5, TableTypes, Limits DEF ServerRestarts, Fault, TypeOK, client, Entry
<1>7. Sockets' /\ AddressOfPeer' BY <1>1 DEF ServerRestarts, Sockets, AddressOfPeer, client
<1> QED BY <1>4, <1>5, <1>6, <1>7 DEF P2pInv

\* A lost datagram disturbs nothing.
LEMMA LoseStep == ASSUME P2pInv, Lose PROVE P2pInv'
<1>1. TypeOK /\ NetInv /\ Sockets /\ AddressOfPeer BY DEF P2pInv
<1>2. UNCHANGED <<server, owned>> /\ net' \subseteq net BY DEF Lose
<1>3. OwnedGrows /\ TableInv' BY <1>2, Keeps
<1>4. NetInv' /\ Cardinality(net') <= NET_CAP BY <1>1, <1>2, <1>3, NetKeeps
<1>5. TypeOK' BY <1>1, <1>4 DEF Lose, TypeOK, server, client
<1>6. Sockets' /\ AddressOfPeer' BY <1>1 DEF Lose, Sockets, AddressOfPeer, client
<1> QED BY <1>3, <1>4, <1>5, <1>6 DEF P2pInv

\* A turn of the server is for a request of a client, which is true, or for one of somebody else.
LEMMA TurnOf ==
  ASSUME P2pInv, ServeClient \/ ServeRepeated \/ ServeOther
  PROVE  \E m \in Requests, n \in SUBSET net :
           Serve(m, n) /\ Asked(m.src, m.dst, m.from) /\ faults' \in 0 .. MAX_FAULTS
<1>1. faults' \in 0 .. MAX_FAULTS
  <2>1. faults \in 0 .. MAX_FAULTS BY DEF P2pInv, TypeOK
  <2>2. Fault \/ faults' = faults BY Zenon DEF ServeClient, ServeRepeated, ServeOther
  <2> QED BY <2>1, <2>2, Limits DEF Fault
<1>2. ASSUME NEW m \in net, m.kind = "request" PROVE m \in Requests /\ Asked(m.src, m.dst, m.from)
  BY <1>2 DEF P2pInv, NetInv, NetTypes, RequestsOfOwners, Replies, HeartBeats
<1>3. CASE ServeClient
  <2>1. PICK m \in net : m.kind = "request" /\ Serve(m, net \ {m}) BY <1>3 DEF ServeClient
  <2>2. net \ {m} \in SUBSET net OBVIOUS
  <2> QED BY <1>1, <1>2, <2>1, <2>2
<1>4. CASE ServeRepeated
  <2>1. PICK m \in net : m.kind = "request" /\ Serve(m, net) BY <1>4 DEF ServeRepeated
  <2>2. net \in SUBSET net OBVIOUS
  <2> QED BY <1>1, <1>2, <2>1, <2>2
<1>5. CASE ServeOther
  <2>1. PICK m \in Other : Serve(m, net) BY <1>5 DEF ServeOther
  <2>2. m \in Requests BY DEF Requests
  <2>3. m.src \notin Client BY P2pAssumption DEF P2pAssumption
  <2>4. net \in SUBSET net OBVIOUS
  <2> QED BY <1>1, <2>1, <2>2, <2>3, <2>4 DEF Asked
<1> QED BY <1>3, <1>4, <1>5

\* The invariant holds at first.
LEMMA InitInv == Init => P2pInv
<1> SUFFICES ASSUME Init PROVE P2pInv OBVIOUS
<1>1. addr \in [Client -> Addr]
  <2>1. PICK f \in [Client -> Addr] : IsInjective(f) BY P2pAssumption DEF P2pAssumption
  <2> QED BY <2>1 DEF Init
<1>2. Consistent(tab, {}) /\ ToSet(tab.all) = {} BY FreshTable DEF Init
<1>3. TableInv BY <1>2 DEF TableInv, Past, TableOfOwners
<1>4. IsFiniteSet(net) /\ Cardinality(net) = 0 BY FS_EmptySet DEF Init
<1>5. NetInv BY <1>4 DEF Init, NetInv, NetTypes, RequestsOfOwners, RepliesToOwners
<1>6. TypeOK
  <2>1. /\ now \in 0 .. MAX_TIME /\ faults \in 0 .. MAX_FAULTS /\ Cardinality(net) <= NET_CAP
        /\ heart_beat_miss_cnt \in [Client -> 0 .. MISS_LIMIT]
    BY <1>4, Limits DEF Init
  <2>2. addr \in [Client -> Addr \cup {NONE}] /\ owned \in [Client -> SUBSET Addr] BY <1>1 DEF Init
  <2>3. /\ pc \in [Client -> {"off", "request", "wait", "main"}] /\ connected \in [Client -> BOOLEAN]
        /\ sockaddr_peer \in [Client -> Addr \cup {NONE}]
    BY DEF Init
  <2> QED BY <1>2, <2>1, <2>2, <2>3, TableTypes, Zenon DEF TypeOK, Entry
<1>7. Sockets /\ AddressOfPeer BY <1>1 DEF Init, Sockets, AddressOfPeer
<1> QED BY <1>3, <1>5, <1>6, <1>7 DEF P2pInv

\* Every step keeps the invariant.
LEMMA StepInv == P2pInv /\ [Next]_vars => P2pInv'
<1> SUFFICES ASSUME P2pInv, [Next]_vars PROVE P2pInv' OBVIOUS
<1>1. CASE ServeClient \/ ServeRepeated \/ ServeOther BY <1>1, TurnOf, ServeStep
<1>2. CASE TimePasses BY <1>2, TimePassesStep
<1>3. CASE \E c \in Client : main(c)
  BY <1>3, SendRequestStep, NextRequestStep, AnswerStep, ReceiveStep, ReceiveFailsStep DEF main
<1>4. CASE \E c \in Client : timer_proc(c) \/ Start(c) \/ Crash(c)
  BY <1>4, TimerStep, StartStep, CrashStep
<1>5. CASE ServerRestarts BY <1>5, RestartStep
<1>6. CASE Lose BY <1>6, LoseStep
<1>7. CASE UNCHANGED vars
  <2>1. UNCHANGED <<tab, now, pc, addr, connected, sockaddr_peer, heart_beat_miss_cnt, net, owned, faults>>
    BY <1>7 DEF vars, server, client
  <2> QED BY <2>1 DEF P2pInv, TypeOK, TableInv, Past, TableOfOwners, NetInv, NetTypes, RequestsOfOwners,
                      RepliesToOwners, Sockets, AddressOfPeer, Asked, Told
<1> QED BY <1>1, <1>2, <1>3, <1>4, <1>5, <1>6, <1>7 DEF Next

(* The invariant of the server, the clients and the datagrams, however     *)
(* many of them there are and whatever is lost, repeated or restarted.     *)
THEOREM Invariant == Spec => []P2pInv
BY InitInv, StepInv, PTL DEF Spec

(* The variables have their types: the counters stay within their limits.  *)
THEOREM TypesOK == Spec => []TypeOK
BY Invariant, PTL DEF P2pInv

(* delete_req, release_req and add_req lose no buffer and link none twice: *)
(* each is free, or in all_reqs and in the hash line of its source.        *)
THEOREM NoBufferLost == Spec => []BuffersAccounted
<1>1. P2pInv => BuffersAccounted BY Accounted DEF P2pInv, TableInv
<1> QED BY <1>1, Invariant, PTL

(* A client talks to addresses that its peer has had: req_match and        *)
(* p2p_conn_loop bring the right ones together, as long as no address has  *)
(* had two owners.                                                         *)
THEOREM TalksToPeer == Spec => []AddressOfPeer
BY Invariant, PTL DEF P2pInv

-----------------------------------------------------------------------------
(* The server implements the directory.                                    *)

\* A server that starts knows nobody.
LEMMA FreshDir == DirOf(init_internal_struct) = <<>>
<1>1. PICK t : t = init_internal_struct OBVIOUS
<1>2. ToSet(t.all) = {} BY <1>1, FreshTable
<1>3. PairsOf(t) = {} BY <1>2 DEF PairsOf
<1>4. Consistent(t, {}) BY <1>1, FreshTable
<1>5. DirOf(t) = [p \in {} |-> DirOf(t)[p]] BY <1>3, <1>4, DirAt
<1> QED BY <1>1, <1>5

\* The Cardinality of P2pDirectory is that of FiniteSets.
LEMMA SameCardinality == ASSUME NEW S PROVE Directory!Cardinality(S) = Cardinality(S)
BY DEF Directory!Cardinality, Cardinality

\* The pair whose request is unlinked may go.
LEMMA Victim ==
  ASSUME Consistent(tab, {}), NEW m, NEW t, NEW b, NEW v, Recorded(tab, m, t, b, v),
         NEW w, w = IF v \in ToSet(tab.all) THEN PairOf(tab.req[v]) ELSE PairOf(m)
  PROVE  w \in Directory!Victims(PairOf(m))
<1>1. Directory!Pairs = PairsOf(tab) BY DirAt DEF Directory!Pairs, dirBar
<1>2. Cardinality(PairsOf(tab)) = Len(tab.all) BY DirSize
<1>3. PICK k : k = Len(tab.all) OBVIOUS
<1>4. k \in Nat /\ Directory!Cardinality(Directory!Pairs) = k
  BY <1>1, <1>2, <1>3, SameCardinality, ListTypes DEF Consistent
<1>5. New(tab, m) <=> PairOf(m) \notin PairsOf(tab) BY DEF New, PairsOf
<1>6. Unlinked(tab, m, v) BY DEF Recorded
<1>7. CASE v \in ToSet(tab.all) /\ PairOf(tab.req[v]) = PairOf(m)
  <2>1. w = PairOf(m) /\ PairOf(m) \in Directory!Pairs BY <1>1, <1>7 DEF PairsOf
  <2> QED BY <2>1 DEF Directory!Victims
<1>8. CASE v \notin ToSet(tab.all) /\ k < MAX_REQ_NUM
  <2>1. w = PairOf(m) BY <1>8
  <2> QED BY <1>4, <1>8, <2>1, Zenon DEF Directory!Victims
<1>9. CASE New(tab, m) /\ Oldest(tab, v) /\ k >= MAX_REQ_NUM
  <2>1. w = PairOf(tab.req[v]) /\ v \in ToSet(tab.all) BY <1>9 DEF Oldest
  <2>2. w \in Directory!Pairs BY <1>1, <2>1 DEF PairsOf
  <2>3. ASSUME NEW c \in ToSet(tab.all) PROVE dirBar[PairOf(tab.req[c])].timestamp = tab.req[c].timestamp
    <3>1. DirOf(tab)[PairOf(tab.req[c])] = KnownOf(tab.req[c]) BY DirAt
    <3> QED BY <3>1 DEF dirBar, KnownOf
  <2>4. \A p \in Directory!Pairs : dirBar[w].timestamp <= dirBar[p].timestamp
    BY <1>1, <1>9, <2>1, <2>3 DEF PairsOf, Oldest
  <2>5. PairOf(m) \notin Directory!Pairs /\ ~(Directory!Cardinality(Directory!Pairs) < MAX_REQ_NUM)
    BY <1>1, <1>4, <1>5, <1>9, Limits
  <2> QED BY <2>2, <2>4, <2>5, Zenon DEF Directory!Victims
<1> QED BY <1>3, <1>6, <1>7, <1>8, <1>9 DEF Unlinked

\* A turn adds at most its reply to the datagrams of the server.
LEMMA FromServerAfter ==
  ASSUME NEW n \in SUBSET net, IsFiniteSet(n), Cardinality(n) <= NET_CAP, NEW m, net' = With(n, m)
  PROVE  Directory!FromServer(net') \subseteq Directory!FromServer(net) \cup {m}
BY WithOne DEF Directory!FromServer

\* Each turn of the server is one of the directory.
LEMMA ServeRefines ==
  ASSUME P2pInv, NEW m \in Requests, NEW n \in SUBSET net, Serve(m, n)
  PROVE  Directory!Serve(m)
<1>1. TypeOK /\ TableInv /\ NetInv /\ Consistent(tab, {}) BY DEF P2pInv, TableInv
<1>2. PICK t, v : \E b \in Buffer : Recorded(tab, m, t, b, v) /\ Consistent(t, {}) /\ Answers(m, n, t)
  BY <1>1, Turns, Zenon
<1>3. PICK b \in Buffer : Recorded(tab, m, t, b, v) BY <1>2
<1>4. PICK w : w = IF v \in ToSet(tab.all) THEN PairOf(tab.req[v]) ELSE PairOf(m) OBVIOUS
<1>5. PairOf(m) = <<m.src, m.dst>> BY DEF PairOf
<1>6. KnownOf(EntryOf(m)) = [sockaddr_src |-> m.from, timestamp |-> now] BY DEF KnownOf, EntryOf
<1>7. w \in Directory!Victims(<<m.src, m.dst>>) BY <1>1, <1>3, <1>4, <1>5, Victim
<1>8. DirOf(t) = Directory!Put(Directory!Without(dirBar, w), <<m.src, m.dst>>,
                               [sockaddr_src |-> m.from, timestamp |-> now])
  BY <1>1, <1>2, <1>3, <1>4, <1>5, <1>6, DirRecords DEF dirBar
<1>9. PICK there : there = <<m.dst, m.src>> OBVIOUS
<1>10. now' = now /\ dirBar' = DirOf(tab') BY DEF Serve, dirBar
<1>11. IsFiniteSet(n) /\ Cardinality(n) <= NET_CAP BY <1>1, NetLoses
<1>12. CASE /\ \A c \in ToSet(t.all) : PairOf(t.req[c]) # <<m.dst, m.src>>
            /\ tab' = t /\ net' = With(n, Reply(m, NONE))
  <2>1. there \notin DOMAIN DirOf(t)
    <3>1. DOMAIN DirOf(t) = PairsOf(t) BY <1>2, DirAt
    <3> QED BY <1>9, <1>12, <3>1 DEF PairsOf
  <2>2. Directory!FromServer(net') \subseteq Directory!FromServer(net) \cup {Reply(m, NONE)}
    BY <1>11, <1>12, FromServerAfter
  <2> QED BY <1>7, <1>8, <1>9, <1>10, <1>12, <2>1, <2>2 DEF Directory!Serve, Reply
<1>13. ASSUME NEW f \in ToSet(t.all), PairOf(t.req[f]) = <<m.dst, m.src>>
       PROVE  /\ there \in DOMAIN DirOf(t)
              /\ DirOf(t)[there].timestamp = t.req[f].timestamp
              /\ DirOf(t)[there].sockaddr_src = t.req[f].sockaddr_src
  <2>1. DOMAIN DirOf(t) = PairsOf(t) /\ DirOf(t)[PairOf(t.req[f])] = KnownOf(t.req[f]) BY <1>2, DirAt
  <2> QED BY <1>9, <1>13, <2>1 DEF PairsOf, KnownOf
<1>14. ASSUME NEW f \in ToSet(t.all), PairOf(t.req[f]) = <<m.dst, m.src>>,
              now - t.req[f].timestamp > gap, tab' = release_req(t, f), net' = With(n, Reply(m, NONE))
       PROVE  Directory!Serve(m)
  <2>1. there \in DOMAIN DirOf(t) /\ now - DirOf(t)[there].timestamp > gap BY <1>13, <1>14
  <2>2. dirBar' = Directory!Without(DirOf(t), there)
    <3>1. PICK u : u = release_req(t, f) OBVIOUS
    <3>2. Consistent(u, {}) /\ u.req = t.req /\ ToSet(u.all) = ToSet(t.all) \ {f} BY <1>2, <3>1, Releases
    <3>3. DirOf(u) = Directory!Without(DirOf(t), PairOf(t.req[f])) BY <1>2, <3>2, DirForgets
    <3> QED BY <1>9, <1>10, <1>14, <3>1, <3>3
  <2>3. Directory!FromServer(net') \subseteq Directory!FromServer(net) \cup {Reply(m, NONE)}
    BY <1>11, <1>14, FromServerAfter
  <2> QED BY <1>7, <1>8, <1>9, <1>10, <2>1, <2>2, <2>3 DEF Directory!Serve, Reply
<1>15. ASSUME NEW f \in ToSet(t.all), PairOf(t.req[f]) = <<m.dst, m.src>>,
              ~(now - t.req[f].timestamp > gap), tab' = t, net' = With(n, Reply(m, t.req[f].sockaddr_src))
       PROVE  Directory!Serve(m)
  <2>1. /\ there \in DOMAIN DirOf(t) /\ ~(now - DirOf(t)[there].timestamp > gap)
        /\ DirOf(t)[there].sockaddr_src = t.req[f].sockaddr_src
    BY <1>13, <1>15
  <2>2. Directory!FromServer(net') \subseteq
          Directory!FromServer(net) \cup {Reply(m, DirOf(t)[there].sockaddr_src)}
    BY <1>11, <1>15, <2>1, FromServerAfter
  <2> QED BY <1>7, <1>8, <1>9, <1>10, <1>15, <2>1, <2>2 DEF Directory!Serve, Reply
<1> QED BY <1>2, <1>12, <1>14, <1>15 DEF Answers

\* A step of anybody else leaves the directory alone.
LEMMA ElsewhereRefines ==
  ASSUME P2pInv, tab' = tab, now' >= now,
         net' \subseteq net \/ \E m : net' = With(net, m) /\ m.from # Server
  PROVE  Directory!Elsewhere
<1>1. dirBar' = dirBar BY DEF dirBar
<1>2. Directory!FromServer(net') \subseteq Directory!FromServer(net)
  BY DEF Directory!FromServer, With
<1> QED BY <1>1, <1>2 DEF Directory!Elsewhere

\* Every step is one of the directory or leaves it alone.
LEMMA StepRefines ==
  P2pInv /\ [Next]_vars => [Directory!Next]_<<dirBar, now, net>>
<1> SUFFICES ASSUME P2pInv, [Next]_vars PROVE Directory!Next \/ UNCHANGED <<dirBar, now, net>> OBVIOUS
<1>1. TypeOK /\ Sockets /\ now \in Nat BY DEF P2pInv, TypeOK
<1>2. CASE ServeClient \/ ServeRepeated \/ ServeOther
  BY <1>2, TurnOf, ServeRefines DEF Directory!Next
<1>3. CASE TimePasses
  <2>1. tab' = tab /\ net' = net /\ now' >= now BY <1>1, <1>3 DEF TimePasses
  <2> QED BY <2>1, ElsewhereRefines DEF Directory!Next
<1>4. ASSUME NEW c \in Client, main(c) PROVE Directory!Next
  <2>1. tab' = tab /\ now' >= now
    BY <1>1, <1>4 DEF main, SendRequest, NextRequest, Answer, LoopTop, Receive, ReceiveFails, server
  <2>2. CASE SendRequest(c)
    <3>1. PICK m : m = [kind |-> "request", from |-> addr[c], to |-> Server, src |-> c, dst |-> PeerOf[c]]
      OBVIOUS
    <3>2. addr[c] \in Addr BY <1>1, <2>2 DEF Sockets, SendRequest
    <3>3. net' = With(net, m) /\ m.from # Server BY <2>2, <3>1, <3>2, Users DEF SendRequest
    <3> QED BY <2>1, <3>3, ElsewhereRefines DEF Directory!Next
  <2>3. CASE ~SendRequest(c)
    <3>1. net' \subseteq net BY <1>4, <2>3 DEF main, NextRequest, Answer, LoopTop, Receive, ReceiveFails
    <3> QED BY <2>1, <3>1, ElsewhereRefines DEF Directory!Next
  <2> QED BY <2>2, <2>3
<1>5. ASSUME NEW c \in Client, timer_proc(c) PROVE Directory!Next
  <2>1. tab' = tab /\ now' >= now
    <3>1. UNCHANGED server BY <1>5 DEF timer_proc
    <3> QED BY <1>1, <3>1 DEF server
  <2>2. PICK m : m = [kind |-> "heart beat", from |-> addr[c], to |-> sockaddr_peer[c]] OBVIOUS
  <2>3. addr[c] \in Addr BY <1>1, <1>5 DEF Sockets, timer_proc
  <2>4. net' = With(net, m) /\ m.from # Server BY <1>5, <2>2, <2>3, Users DEF timer_proc
  <2> QED BY <2>1, <2>4, ElsewhereRefines DEF Directory!Next
<1>6. ASSUME NEW c \in Client, Start(c) \/ Crash(c) PROVE Directory!Next
  <2>1. tab' = tab /\ now' >= now /\ net' \subseteq net BY <1>1, <1>6 DEF Start, Crash, server
  <2> QED BY <2>1, ElsewhereRefines DEF Directory!Next
<1>7. CASE ServerRestarts
  <2>1. dirBar' = <<>> BY <1>7, FreshDir DEF dirBar, ServerRestarts
  <2> QED BY <1>7, <2>1 DEF ServerRestarts, Directory!Next, Directory!Restart
<1>8. CASE Lose
  <2>1. tab' = tab /\ now' >= now /\ net' \subseteq net BY <1>1, <1>8 DEF Lose, server
  <2> QED BY <2>1, ElsewhereRefines DEF Directory!Next
<1>9. CASE UNCHANGED vars BY <1>9 DEF vars, server, dirBar
<1> QED BY <1>2, <1>3, <1>4, <1>5, <1>6, <1>7, <1>8, <1>9 DEF Next

\* The directory is empty at first.
LEMMA InitRefines == Init => Directory!Init
BY FreshDir DEF Init, Directory!Init, dirBar

(* The server's lists, hash lines and buffers do what a directory with one *)
(* entry for each pair of users does: main_loop answers with the last      *)
(* address of the peer, evicts none but the oldest request and only from a *)
(* full table, and forgets no other but those that it finds too old.       *)
THEOREM ImplementsDirectory == Spec => RefinesDirectory
BY Invariant, InitRefines, StepRefines, PTL DEF Spec, RefinesDirectory, Directory!Spec
=============================================================================
