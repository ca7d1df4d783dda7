---------------------------- MODULE P2pDirectory ----------------------------
(* What the server of P2p promises, without lists and buffers: it knows    *)
(* the last request of each pair of users, forgets none but the oldest of  *)
(* a full table and those it finds too old, and tells a client the address *)
(* of the peer's last request.                                             *)
EXTENDS Integers, FiniteSets, FiniteSetsExt

CONSTANTS Request,      \* every request there can be
          Server, MAX_REQ_NUM, gap, NONE

VARIABLES dir,          \* dir[<<src, dst>>]: address and time of the last request
          now, net

Pairs == DOMAIN dir
Without(d, p) == [q \in DOMAIN d \ {p} |-> d[q]]
Put(d, p, v) == [q \in DOMAIN d \cup {p} |-> IF q = p THEN v ELSE d[q]]

(* The pairs that may go so that p finds room.                             *)
Victims(p) ==
  IF p \in Pairs \/ Cardinality(Pairs) < MAX_REQ_NUM THEN {p}
  ELSE {q \in Pairs : \A r \in Pairs : dir[q].timestamp <= dir[r].timestamp}

FromServer(n) == {m \in n : m.from = Server}

Serve(m) ==
  \E victim \in Victims(<<m.src, m.dst>>) :
    LET here == <<m.src, m.dst>>
        there == <<m.dst, m.src>>
        d == Put(Without(dir, victim), here, [sockaddr_src |-> m.from, timestamp |-> now])
        late == there \in DOMAIN d /\ now - d[there].timestamp > gap
        peer == IF there \in DOMAIN d /\ ~late THEN d[there].sockaddr_src ELSE NONE
    IN /\ dir' = IF late THEN Without(d, there) ELSE d
       /\ FromServer(net') \subseteq
            FromServer(net) \cup {[kind |-> "reply", from |-> Server, to |-> m.from, peer |-> peer]}
       /\ now' = now

(* Nobody but the server sends in its name.                                *)
Elsewhere == dir' = dir /\ now' >= now /\ FromServer(net') \subseteq FromServer(net)

Restart == dir' = <<>> /\ net' = net /\ now' = now

Init == dir = <<>> /\ now = 0 /\ net = {}
Next == Elsewhere \/ Restart \/ \E m \in Request : Serve(m)
Spec == Init /\ [][Next]_<<dir, now, net>>
=============================================================================
