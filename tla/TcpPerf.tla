------------------------------- MODULE TcpPerf -------------------------------
(* simple_apps/tcp_perf.c: a client and a server, each with a thread that  *)
(* reads and one that writes a blocking socket, a main thread that sleeps  *)
(* and then joins them, and signals that interrupt any one of the three.   *)
EXTENDS Naturals

CONSTANTS SND_LEN, SOCK, MAX_BYTES, \* a block; bytes in flight; bytes sent
          Roles                     \* which ends may receive, or send

PerfAssumption ==
  /\ SND_LEN \in Nat \ {0} /\ SOCK \in Nat \ {0} /\ MAX_BYTES \in Nat
  /\ Roles \subseteq [{"client", "server"} -> BOOLEAN]
ASSUME PerfAssumption

VARIABLES proc,    \* main, rx, tx: where the threads are; and the counters
          stream   \* bytes on their way from each end

perf == <<proc, stream>>
End == {"client", "server"}
Peer(e) == CHOOSE p \in End : p # e
Over(e) == proc[e].main \in {"done", "killed", "crashed"}
Live(e) == ~Over(e)
-----------------------------------------------------------------------------
Listen ==
  /\ proc["server"].main = "start" /\ proc' = [proc EXCEPT !["server"].main = "listen"]
  /\ UNCHANGED stream

(* connect2dst or accept, then start_rx_tx.                                *)
Start(e) ==
  /\ IF e = "client" THEN proc[e].main = "start" /\ proc["server"].main = "listen"
     ELSE proc[e].main = "listen" /\ proc["client"].main # "start"
  /\ IF ~proc[e].rcv_data /\ ~proc[e].snd_data
     THEN proc' = [proc EXCEPT ![e].main = "done"]
     ELSE proc' = [proc EXCEPT ![e].main = "created",
                     ![e].rx = IF proc[e].rcv_data THEN "test" ELSE "none",
                     ![e].tx = IF proc[e].snd_data THEN "test" ELSE "none"]
  /\ UNCHANGED stream

(* The handlers are set when the threads run already.                      *)
register_sig_proc(e) ==
  /\ proc[e].main = "created"
  /\ proc' = [proc EXCEPT ![e].main = "sleep", ![e].alarm = "set"]
  /\ UNCHANGED stream

\* Fault: a block counts as sent when a part of it is.
Counted_Whole(p, n) == IF p.written + n = 0 THEN 0 ELSE SND_LEN
\* What is added to tx_bytes_succ_sum when a call that wrote n more returns.
Counted(p, n) == p.written + n

(* A call that a signal interrupts has failed, unless a part is written.   *)
Cut(p, t) ==
  CASE t = "rx" /\ p.rx = "read" -> [p EXCEPT !.rx = "test"]
    [] t = "tx" /\ p.tx = "write" ->
         [p EXCEPT !.tx = "test", !.written = 0, !.sent = @ + Counted(p, 0)]
    [] OTHER -> p

Threads(p) == {"main"} \cup (IF p.rx \in {"test", "read"} THEN {"rx"} ELSE {})
                       \cup (IF p.tx \in {"test", "write"} THEN {"tx"} ELSE {})

SigIntPerf(e) ==
  /\ Live(e) /\ proc[e].main \notin {"start", "listen"} /\ ~proc[e].need_exit
  /\ IF proc[e].main = "created" THEN proc' = [proc EXCEPT ![e].main = "killed"]
     ELSE \E t \in Threads(proc[e]) :
            proc' = [proc EXCEPT ![e] = [Cut(proc[e], t) EXCEPT !.need_exit = TRUE,
                       !.alarm = IF @ = "set" THEN "off" ELSE @]]
  /\ UNCHANGED stream

SigAlrmPerf(e) ==
  /\ Live(e) /\ proc[e].alarm = "set"
  /\ \E t \in Threads(proc[e]) : proc' = [proc EXCEPT ![e] = [Cut(proc[e], t) EXCEPT !.alarm = "handler"]]
  /\ UNCHANGED stream

(* alarm(STAT_PRINT_INTERVAL): also when SIGINT has turned it off.         *)
SetAlarm(e) ==
  /\ Live(e) /\ proc[e].alarm = "handler" /\ proc' = [proc EXCEPT ![e].alarm = "set"]
  /\ UNCHANGED stream
-----------------------------------------------------------------------------
(* snd_thread and rcv_thread.                                              *)
SndTest(e) ==
  /\ Live(e) /\ proc[e].tx = "test"
  /\ proc[e].need_exit \/ proc[e].sent + SND_LEN <= MAX_BYTES
  /\ proc' = [proc EXCEPT ![e].tx = IF proc[e].need_exit THEN "over" ELSE "write"]
  /\ UNCHANGED stream

(* write waits for room; when the peer is gone the process gets SIGPIPE,   *)
(* or the bytes are taken and lost, or the call fails with ECONNRESET.     *)
SndWrite(e) ==
  /\ Live(e) /\ proc[e].tx = "write"
  /\ \/ \E n \in 1..(SND_LEN - proc[e].written) :
          /\ stream[e] + n <= SOCK
          /\ stream' = [stream EXCEPT ![e] = @ + n]
          /\ proc' = IF proc[e].written + n < SND_LEN THEN [proc EXCEPT ![e].written = @ + n]
                     ELSE [proc EXCEPT ![e].tx = "test", ![e].written = 0,
                                       ![e].sent = @ + Counted(proc[e], n)]
     \/ Over(Peer(e)) /\ proc' = [proc EXCEPT ![e].main = "killed"] /\ UNCHANGED stream
     \/ /\ Over(Peer(e)) /\ UNCHANGED stream
        /\ proc' = [proc EXCEPT ![e].tx = "test", ![e].written = 0, ![e].sent = @ + Counted(proc[e], 0)]

\* Fault: need_exit is not volatile, and is read once.
RcvTest_Once(e) ==
  /\ Live(e) /\ proc[e].rx = "test" /\ proc' = [proc EXCEPT ![e].rx = "read"]
  /\ UNCHANGED stream

RcvTest(e) ==
  /\ Live(e) /\ proc[e].rx = "test"
  /\ proc' = [proc EXCEPT ![e].rx = IF proc[e].need_exit THEN "over" ELSE "read"]
  /\ UNCHANGED stream

(* read waits for data or the end of the stream, which is a failure.       *)
RcvRead(e) ==
  /\ Live(e) /\ proc[e].rx = "read"
  /\ \/ \E n \in 1..stream[Peer(e)] :
          /\ proc' = [proc EXCEPT ![e].rx = "test", ![e].got = @ + n]
          /\ stream' = [stream EXCEPT ![Peer(e)] = @ - n]
     \/ /\ stream[Peer(e)] = 0 /\ Over(Peer(e))
        /\ proc' = [proc EXCEPT ![e].rx = "test"] /\ UNCHANGED stream
-----------------------------------------------------------------------------
(* main: sleep(5) ends; rx_thread is joined even when it was never created *)
(* (an invalid identifier: pthread_join fails, or the program crashes).    *)
JoinRx(e) ==
  /\ proc[e].main = "sleep" /\ proc[e].need_exit /\ proc[e].rx \in {"none", "over"}
  /\ \/ proc' = [proc EXCEPT ![e].main = "joined"]
     \/ proc[e].rx = "none" /\ proc' = [proc EXCEPT ![e].main = "crashed"]
  /\ UNCHANGED stream

JoinTx(e) ==
  /\ proc[e].main = "joined" /\ proc[e].tx \in {"none", "over"}
  /\ proc' = [proc EXCEPT ![e].main = "done"]
  /\ UNCHANGED stream

MainPerf(e) == (e = "server" /\ Listen) \/ Start(e) \/ register_sig_proc(e) \/ JoinRx(e) \/ JoinTx(e)
SndThread(e) == SndTest(e) \/ SndWrite(e)
RcvThread(e) == RcvTest(e) \/ RcvRead(e)
-----------------------------------------------------------------------------
PerfInit ==
  /\ \E rcv, snd \in Roles :
       proc = [e \in End |-> [main |-> "start", rx |-> "none", tx |-> "none",
                 rcv_data |-> rcv[e], snd_data |-> snd[e], need_exit |-> FALSE,
                 alarm |-> "off", written |-> 0, sent |-> 0, got |-> 0]]
  /\ stream = [e \in End |-> 0]

PerfNext ==
  \E e \in End : \/ MainPerf(e) \/ SndThread(e) \/ RcvThread(e)
                 \/ SigIntPerf(e) \/ SigAlrmPerf(e) \/ SetAlarm(e)

PerfFairness ==
  \A e \in End : WF_perf(MainPerf(e)) /\ WF_perf(SndThread(e)) /\ WF_perf(RcvThread(e))
-----------------------------------------------------------------------------
(* The meters agree: the bytes that one end counts as sent are those that  *)
(* the other end counts as read or that are on their way, whichever call a *)
(* signal interrupts and however much of a block it had written by then.   *)
PerfAgrees ==
  \A e \in End : proc[e].sent + proc[e].written = stream[e] + proc[Peer(e)].got

(* Only calls that wait for the peer can hold up a meter that SIGINT has   *)
(* reached: it ends, or from some time on its reader waits for data or its *)
(* writer for room while the peer lives. (The interrupted call is that of  *)
(* one thread; the other one is not told.)                                 *)
WaitsForPeer(e) ==
  /\ Live(Peer(e))
  /\ \/ proc[e].rx = "read" /\ stream[Peer(e)] = 0
     \/ proc[e].tx = "write" /\ stream[e] = SOCK

\* After SIGINT an end is over, or some call of it waits for the peer for good.
PerfEnds ==
  \A e \in End : proc[e].need_exit ~> (Over(e) \/ []WaitsForPeer(e))
=============================================================================
