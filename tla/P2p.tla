--------------------------------- MODULE P2p ---------------------------------
(* The rendezvous of simple_apps/p2p_server.c and p2p_client.c: the        *)
(* server's table of requests, the clients with their SIGALRM handlers,    *)
(* and the datagrams between them, which may be lost, repeated and         *)
(* overtaken.  A client that is started again has another address.         *)
(* All clients send the one password of the source, which is left out.     *)
EXTENDS Integers, Sequences, FiniteSets, SequencesExt

CONSTANTS
  Client,       \* the users that run a client
  PeerOf,       \* PeerOf[c]: the user that c wants to talk to
  Other,        \* requests of other users, who want to talk to the clients
  Addr,         \* addresses of clients
  Server,       \* the address of the server
  hash_index,   \* hash_index[u]: the hash line of user u
  MAX_REQ_NUM,  \* requests the table can hold
  gap,          \* how old a request may be when it is matched
  MISS_LIMIT,   \* silent alarms after which a client gives up (5)
  NET_CAP,      \* bound: datagrams on their way; more are lost
  MAX_TIME,     \* bound on the server's clock
  MAX_FAULTS,   \* bound on crashes, repeated datagrams, other users
  NONE

User == DOMAIN hash_index

P2pAssumption ==
  /\ MAX_REQ_NUM \in Nat \ {0} /\ gap \in Nat /\ MISS_LIMIT \in Nat \ {0}
  /\ NET_CAP \in Nat /\ MAX_TIME \in Nat /\ MAX_FAULTS \in Nat
  /\ Server \notin Addr /\ NONE \notin Addr /\ NONE \notin Nat
  /\ Client \subseteq User /\ PeerOf \in [Client -> Client]
  /\ \E f \in [Client -> Addr] : IsInjective(f)
  /\ Other \subseteq [kind : {"request"}, from : Addr, to : {Server},
                      src : User \ Client, dst : Client]
ASSUME P2pAssumption

VARIABLES
  tab,          \* the server's table
  now,          \* its clock
  net,          \* the datagrams on their way or in a socket
  pc,           \* pc[c]: where the main program of client c is
  addr,         \* addr[c]: the address its socket has
  connected, sockaddr_peer, heart_beat_miss_cnt,   \* the globals of p2p_client.c
  owned,        \* history: every address a client has had
  faults        \* how many of these there have been

server == <<tab, now>>
client == <<pc, addr, connected, sockaddr_peer, heart_beat_miss_cnt>>
vars == <<server, client, net, owned, faults>>

(* A datagram more; one that finds no room is lost.                        *)
With(n, m) == IF Cardinality(n) < NET_CAP THEN n \cup {m} ELSE n

-----------------------------------------------------------------------------
(* The request table.  all_reqs and the hash lists link buffers of a pool. *)

Buffer == 1..MAX_REQ_NUM
Line == {hash_index[u] : u \in User}

init_internal_struct ==
  [all |-> <<>>, hash |-> [l \in Line |-> <<>>], num |-> 0,
   free |-> [i \in Buffer |-> i], req |-> [b \in Buffer |-> NONE]]

Unlink(list, b) ==
  IF b \in ToSet(list) THEN RemoveAt(list, CHOOSE i \in DOMAIN list : list[i] = b)
  ELSE list

(* The first buffer of a hash line that is one of hits, or NONE.           *)
FirstOf(line, hits) ==
  LET at == {i \in DOMAIN line : line[i] \in hits}
  IN IF at = {} THEN NONE ELSE line[Min(at)]

find_req(t, m) ==
  LET line == t.hash[hash_index[m.src]]
  IN FirstOf(line, {b \in ToSet(line) : t.req[b].src = m.src /\ t.req[b].dst = m.dst})

\* Fault: only one of the two names is compared.
req_match_Half(r, m) == r.dst = m.src

req_match(r, m) == r.src = m.dst /\ r.dst = m.src

find_match_req(t, m) ==
  LET line == t.hash[hash_index[m.dst]]
  IN FirstOf(line, {b \in ToSet(line) : req_match(t.req[b], m)})

\* Fault: req_num is not counted down.
delete_req_NoCount(t, b) ==
  [t EXCEPT !.all = Unlink(@, b), !.hash = [l \in Line |-> Unlink(@[l], b)]]

delete_req(t, b) ==
  [t EXCEPT !.all = Unlink(@, b), !.num = @ - 1,
            !.hash = [l \in Line |-> Unlink(@[l], b)]]

\* Fault: the buffer is given back and stays linked.
release_req_Linked(t, b) == [t EXCEPT !.free = Append(@, b)]

release_req(t, b) == [delete_req(t, b) EXCEPT !.free = Append(@, b)]

release_oldest_req(t) == release_req(t, Head(t.all))

\* Fault: the request is added at the head of all_reqs.
add_req_Head(t, b) ==
  [t EXCEPT !.all = <<b>> \o @, !.num = @ + 1, !.hash[hash_index[t.req[b].src]] = Append(@, b)]

add_req(t, b) ==
  [t EXCEPT !.all = Append(@, b), !.num = @ + 1,
            !.hash[hash_index[t.req[b].src]] = Append(@, b)]

(* A buffer for request m: that of the request it replaces, or a free one. *)
Room(t, m) ==
  LET old == find_req(t, m)
      t1 == IF t.num >= MAX_REQ_NUM THEN release_oldest_req(t) ELSE t
  IN IF old # NONE THEN [t |-> delete_req(t, old), b |-> old]
     ELSE [t |-> [t1 EXCEPT !.free = Tail(@)], b |-> Head(t1.free)]

Record(t, m) ==
  LET room == Room(t, m)
  IN add_req([room.t EXCEPT !.req[room.b] =
                [src |-> m.src, dst |-> m.dst, sockaddr_src |-> m.from,
                 timestamp |-> now]], room.b)

Reply(m, peer) ==
  [kind |-> "reply", from |-> Server, to |-> m.from, peer |-> peer]

Fault == faults < MAX_FAULTS /\ faults' = faults + 1

(* One turn of the server's main_loop, for request m, which leaves the     *)
(* datagrams n.                                                            *)
Serve(m, n) ==
  LET t == Record(tab, m)
      found == find_match_req(t, m)
      late == found # NONE /\ now - t.req[found].timestamp > gap
  IN /\ tab' = IF late THEN release_req(t, found) ELSE t
     /\ net' = With(n, Reply(m, IF found = NONE \/ late THEN NONE
                                ELSE t.req[found].sockaddr_src))
     /\ UNCHANGED <<now, client, owned>>

(* The server gets a request, or gets it and will get it once more.        *)
ServeClient == \E m \in net : m.kind = "request" /\ Serve(m, net \ {m}) /\ UNCHANGED faults
ServeRepeated == Fault /\ \E m \in net : m.kind = "request" /\ Serve(m, net)
ServeOther == Fault /\ \E m \in Other : Serve(m, net)

TimePasses ==
  /\ now < MAX_TIME /\ now' = now + 1
  /\ UNCHANGED <<tab, client, net, owned, faults>>

-----------------------------------------------------------------------------
(* The main program of client c.                                           *)

SendRequest(c) ==
  /\ pc[c] = "request" /\ pc' = [pc EXCEPT ![c] = "wait"]
  /\ net' = With(net, [kind |-> "request", from |-> addr[c], to |-> Server,
                       src |-> c, dst |-> PeerOf[c]])
  /\ UNCHANGED <<server, addr, connected, sockaddr_peer, heart_beat_miss_cnt, owned, faults>>

(* No answer within the 100 short sleeps.                                  *)
NextRequest(c) ==
  /\ pc[c] = "wait" /\ pc' = [pc EXCEPT ![c] = "request"]
  /\ UNCHANGED <<server, addr, connected, sockaddr_peer, heart_beat_miss_cnt, net, owned, faults>>

(* The timer takes no notice of a client that is not connected, so that a  *)
(* reply is one step.  The sleep after "offline" is that before a request. *)
Answer(c) ==
  \E m \in net :
    /\ pc[c] = "wait" /\ m.to = addr[c] /\ net' = net \ {m}
    /\ \/ /\ m.from # Server    \* a heart beat: thrown away
          /\ UNCHANGED <<pc, connected, sockaddr_peer>>
       \/ /\ m.from = Server /\ m.peer = NONE
          /\ pc' = [pc EXCEPT ![c] = "request"] /\ UNCHANGED <<connected, sockaddr_peer>>
       \/ /\ m.from = Server /\ m.peer # NONE
          /\ sockaddr_peer' = [sockaddr_peer EXCEPT ![c] = m.peer]
          /\ connected' = [connected EXCEPT ![c] = TRUE]
          /\ pc' = [pc EXCEPT ![c] = "main"]
    /\ UNCHANGED <<server, addr, heart_beat_miss_cnt, owned, faults>>

(* main_loop has found connected false.                                    *)
LoopTop(c) ==
  /\ pc[c] = "main" /\ ~connected[c] /\ pc' = [pc EXCEPT ![c] = "request"]
  /\ UNCHANGED <<server, addr, connected, sockaddr_peer, heart_beat_miss_cnt, net, owned, faults>>

(* A datagram in main_loop, which has found connected true some time ago.  *)
Receive(c) ==
  \E m \in net :
    /\ pc[c] = "main" /\ m.to = addr[c] /\ net' = net \ {m}
    /\ heart_beat_miss_cnt' = IF m.from = sockaddr_peer[c]
                              THEN [heart_beat_miss_cnt EXCEPT ![c] = 0]
                              ELSE heart_beat_miss_cnt
    /\ UNCHANGED <<server, pc, addr, connected, sockaddr_peer, owned, faults>>

ReceiveFails(c) ==
  /\ pc[c] = "main" /\ \E m \in net : m.to = addr[c]
  /\ connected' = [connected EXCEPT ![c] = FALSE]
  /\ UNCHANGED <<server, pc, addr, sockaddr_peer, heart_beat_miss_cnt, net, owned, faults>>

main(c) ==
  \/ SendRequest(c) \/ NextRequest(c) \/ Answer(c)
  \/ LoopTop(c) \/ Receive(c) \/ ReceiveFails(c)

(* The handler of SIGALRM, between any two steps of the main program.  The *)
(* counter, which a reconnection does not reset, is capped at the limit:   *)
(* more of it makes no difference.                                         *)
Missed(c) == heart_beat_miss_cnt[c] + 1

\* Fault: the count is only compared for equality.
GivesUp_Equal(c) == Missed(c) = MISS_LIMIT

GivesUp(c) == Missed(c) >= MISS_LIMIT

timer_proc(c) ==
  /\ pc[c] # "off" /\ connected[c]
  /\ net' = With(net, [kind |-> "heart beat", from |-> addr[c], to |-> sockaddr_peer[c]])
  /\ heart_beat_miss_cnt' =
       [heart_beat_miss_cnt EXCEPT ![c] = IF Missed(c) > MISS_LIMIT THEN MISS_LIMIT ELSE Missed(c)]
  /\ connected' = [connected EXCEPT ![c] = ~GivesUp(c)]
  /\ UNCHANGED <<server, pc, addr, sockaddr_peer, owned, faults>>

-----------------------------------------------------------------------------
(* Faults: clients and the server crash and start again, datagrams are     *)
(* lost.                                                                   *)

Running(c) == pc[c] # "off"
Free == Addr \ {addr[c] : c \in {d \in Client : Running(d)}}

Start(c) ==
  /\ ~Running(c) /\ pc' = [pc EXCEPT ![c] = "request"]
  /\ \E a \in Free :
       /\ addr' = [addr EXCEPT ![c] = a]
       /\ owned' = [owned EXCEPT ![c] = @ \cup {a}]
  /\ UNCHANGED <<server, connected, sockaddr_peer, heart_beat_miss_cnt, net, faults>>

(* What a client that crashes has in memory, and in its socket, is gone.   *)
Crash(c) ==
  /\ Fault /\ Running(c) /\ pc' = [pc EXCEPT ![c] = "off"]
  /\ addr' = [addr EXCEPT ![c] = NONE]
  /\ connected' = [connected EXCEPT ![c] = FALSE]
  /\ sockaddr_peer' = [sockaddr_peer EXCEPT ![c] = NONE]
  /\ heart_beat_miss_cnt' = [heart_beat_miss_cnt EXCEPT ![c] = 0]
  /\ net' = {m \in net : m.to # addr[c]}
  /\ UNCHANGED <<server, owned>>

ServerRestarts ==
  /\ Fault /\ tab' = init_internal_struct
  /\ UNCHANGED <<now, client, net, owned>>

Lose == (\E m \in net : net' = net \ {m}) /\ UNCHANGED <<server, client, owned, faults>>

-----------------------------------------------------------------------------
(* The server and the clients have been started.                           *)
Init ==
  /\ tab = init_internal_struct /\ now = 0 /\ net = {} /\ faults = 0
  /\ pc = [c \in Client |-> "request"] /\ addr = CHOOSE f \in [Client -> Addr] : IsInjective(f)
  /\ connected = [c \in Client |-> FALSE] /\ sockaddr_peer = [c \in Client |-> NONE]
  /\ heart_beat_miss_cnt = [c \in Client |-> 0] /\ owned = [c \in Client |-> {addr[c]}]

Next ==
  \/ ServeClient \/ ServeRepeated \/ ServeOther \/ TimePasses
  \/ \E c \in Client : main(c) \/ timer_proc(c) \/ Start(c) \/ Crash(c)
  \/ ServerRestarts \/ Lose

(* The programs run and the timers fire; nobody has to start a client, and *)
(* the network owes nothing.                                               *)
Spec ==
  /\ Init /\ [][Next]_vars
  /\ \A c \in Client : WF_vars(main(c)) /\ WF_vars(timer_proc(c))

-----------------------------------------------------------------------------
Requests == Other \cup {[kind |-> "request", from |-> a, to |-> Server, src |-> c, dst |-> PeerOf[c]] :
                          a \in Addr, c \in Client}
TypeOK ==
  /\ tab \in [all : Seq(Buffer), hash : [Line -> Seq(Buffer)], num : 0..MAX_REQ_NUM,
              free : Seq(Buffer),
              req : [Buffer -> {NONE} \cup [src : User, dst : User, sockaddr_src : Addr,
                                            timestamp : 0..MAX_TIME]]]
  /\ now \in 0..MAX_TIME /\ Cardinality(net) <= NET_CAP
  /\ pc \in [Client -> {"off", "request", "wait", "main"}]
  /\ addr \in [Client -> Addr \cup {NONE}] /\ connected \in [Client -> BOOLEAN]
  /\ sockaddr_peer \in [Client -> Addr \cup {NONE}]
  /\ heart_beat_miss_cnt \in [Client -> 0..MISS_LIMIT]
  /\ owned \in [Client -> SUBSET Addr] /\ faults \in 0..MAX_FAULTS

(* No buffer is lost, or in two places: each is free, or in all_reqs once  *)
(* and in the hash line of its source once, whatever requests are          *)
(* replaced, evicted and found too old.                                    *)
BuffersAccounted ==
  /\ Len(tab.all) = tab.num
  /\ ToSet(tab.all \o tab.free) = Buffer /\ Len(tab.all \o tab.free) = MAX_REQ_NUM
  /\ \A l \in Line :
       /\ IsInjective(tab.hash[l])
       /\ ToSet(tab.hash[l]) = {b \in ToSet(tab.all) : hash_index[tab.req[b].src] = l}

(* The lists, hash lines and buffers do what a directory with one entry    *)
(* for each pair of users does: main_loop answers with the last address    *)
(* of the peer, and evicts the oldest request only.                        *)
PairOf(r) == <<r.src, r.dst>>
DirOf(t) ==
  [p \in {PairOf(t.req[b]) : b \in ToSet(t.all)} |->
     LET r == t.req[CHOOSE b \in ToSet(t.all) : PairOf(t.req[b]) = p]
     IN [sockaddr_src |-> r.sockaddr_src, timestamp |-> r.timestamp]]
dirBar == DirOf(tab)
Directory == INSTANCE P2pDirectory WITH dir <- dirBar, Request <- Requests
RefinesDirectory == Directory!Spec

(* As long as no two users have had the same address (the client does not  *)
(* look at the names in a reply), a client talks to addresses of the user  *)
(* it was told to talk to, old ones maybe: p2p_conn_loop and the matching. *)
AddressOfPeer ==
  (\A c, d \in Client : c # d => owned[c] \cap owned[d] = {})
    => \A c \in Client : sockaddr_peer[c] # NONE => sockaddr_peer[c] \in owned[PeerOf[c]]

(* c and the program at the address it talks to are connected to each other. *)
Mutual(c) ==
  \E d \in Client : /\ Running(d) /\ addr[d] = sockaddr_peer[c]
                    /\ connected[d] /\ sockaddr_peer[d] = addr[c]

(* A connection that only one side has does not last: a client whose peer  *)
(* is gone, has started again elsewhere or has given up gets no heart      *)
(* beats and stops waiting for them.                                       *)
OneSidedEnds == \A c \in Client : ~<>[](connected[c] /\ ~Mutual(c))
==============================================================================
