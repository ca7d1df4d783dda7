-------------------------------- MODULE Echo --------------------------------
(* simple_apps/tcp_tester.c and tcp_reflector.c, udp_tester.c and          *)
(* udp_reflector.c: the tester sends LEN bytes from its SIGALRM handler,   *)
(* which may interrupt its receive loop anywhere, the reflector sends back *)
(* what it reads, and SIGINT ends either. A direction holds CAP bytes. UDP *)
(* moves datagrams of LEN bytes, which may be lost but are not repeated.   *)
EXTENDS Naturals

CONSTANTS LEN, CAP, MAX_SEND   \* snd_data_len; bytes in flight; alarms

EchoAssumption == LEN \in Nat \ {0} /\ CAP \in Nat \ {0} /\ MAX_SEND \in Nat
ASSUME EchoAssumption

VARIABLES udp, only_recv,      \* the programs that run, and an option
          tester, reflector,   \* what the processes keep
          flight, lost, broken \* bytes each way; the connection has failed

echo == <<udp, only_recv, tester, reflector, flight, lost, broken>>
Ended(p) == p.pc \in {"done", "killed"}
\* How many of the bytes being sent have been written.
Written(p) == p.count - p.left
-----------------------------------------------------------------------------
(* select of one descriptor: 10 ms without data, or a signal, is no data.  *)
\* Fault: select is given no timeout.
fd_readable_NoTimeout(readable) == IF readable THEN {TRUE} ELSE {}
fd_readable(readable) == {readable}

(* Results of write_certain_bytes so far, which tries again as long as the *)
(* send buffer is full: bytes written now, and what becomes of the call.   *)
\* Fault: a write that takes only a part is a success.
write_certain_bytes_Part(left, room, gone) ==
  {[n |-> n, end |-> "ok"] : n \in {k \in 1..left : k <= room}}
    \cup (IF gone THEN {[n |-> 0, end |-> "fail"], [n |-> 0, end |-> "sigpipe"]} ELSE {})

write_certain_bytes(left, room, gone) ==
  {[n |-> n, end |-> IF n = left THEN "ok" ELSE "more"] : n \in {k \in 1..left : k <= room}}
    \cup (IF gone THEN {[n |-> 0, end |-> "fail"], [n |-> 0, end |-> "sigpipe"]} ELSE {})

After(p, o) ==
  CASE o.end = "more" -> [p EXCEPT !.left = @ - o.n]
    [] o.end = "ok" -> [p EXCEPT !.left = 0, !.count = 0, !.succ = @ + p.count]
    [] o.end = "fail" -> [p EXCEPT !.left = 0, !.count = 0, !.fail = @ + p.count]
    [] o.end = "sigpipe" -> [p EXCEPT !.pc = "killed"]

(* sendto takes the whole datagram, which the network may drop, or fails.  *)
SendTo(dir, n) ==
  \/ flight[dir] + n <= CAP /\ flight' = [flight EXCEPT ![dir] = @ + n] /\ UNCHANGED lost
  \/ lost' = [lost EXCEPT ![dir] = @ + n] /\ UNCHANGED flight

Sent(dir, n) == flight' = [flight EXCEPT ![dir] = @ + n] /\ UNCHANGED lost
Room(dir) == CAP - flight[dir]

(* What a read takes: some of a stream, or the whole first datagram.       *)
Taken(dir) == IF udp THEN {n \in {LEN} : n <= flight[dir]} ELSE 1..flight[dir]
-----------------------------------------------------------------------------
(* The tester: connect2dst, rx_loop and its signal handler.                *)
connect2dst ==
  /\ tester.pc = "connect"
  /\ tester' = [tester EXCEPT !.pc = IF Ended(reflector) /\ ~udp THEN "done" ELSE "loop",
                              !.alarm = TRUE]
  /\ UNCHANGED <<udp, only_recv, reflector, flight, lost, broken>>

InMain == tester.handler = "no"
ReceiverGone == broken \/ Ended(reflector)

rx_loop ==
  /\ tester.pc = "loop" /\ InMain
  /\ tester' = [tester EXCEPT !.pc = IF tester.need_exit THEN "done" ELSE "select"]
  /\ UNCHANGED <<udp, only_recv, reflector, flight, lost, broken>>

RxNothing ==
  /\ tester.pc = "select" /\ InMain
  /\ FALSE \in fd_readable(flight.back > 0 \/ (~udp /\ ReceiverGone))
  /\ tester' = [tester EXCEPT !.pc = "loop"]
  /\ UNCHANGED <<udp, only_recv, reflector, flight, lost, broken>>

RxRead ==
  /\ tester.pc = "select" /\ InMain /\ ~broken
  /\ \E n \in Taken("back") :
       /\ tester' = [tester EXCEPT !.pc = "loop", !.rx = @ + n]
       /\ flight' = [flight EXCEPT !.back = @ - n]
  /\ UNCHANGED <<udp, only_recv, reflector, lost, broken>>

(* The end of the connection ends the loop of the TCP tester; a datagram   *)
(* with a wrong checksum is a failure that the UDP tester only counts.     *)
RxFails ==
  /\ tester.pc = "select" /\ InMain
  /\ \/ ~udp /\ (broken \/ (ReceiverGone /\ flight.back = 0))
        /\ tester' = [tester EXCEPT !.pc = "done"] /\ UNCHANGED <<flight, lost>>
     \/ udp /\ flight.back > 0 /\ tester' = [tester EXCEPT !.pc = "loop"]
        /\ flight' = [flight EXCEPT !.back = @ - LEN] /\ lost' = [lost EXCEPT !.back = @ + LEN]
  /\ UNCHANGED <<udp, only_recv, reflector, broken>>

TesterSigInt ==
  /\ tester.pc \in {"loop", "select"} /\ ~tester.need_exit
  /\ tester' = [tester EXCEPT !.need_exit = TRUE, !.alarm = FALSE]
  /\ UNCHANGED <<udp, only_recv, reflector, flight, lost, broken>>

SigAlrm ==
  /\ tester.pc \in {"loop", "select"} /\ InMain /\ tester.alarm /\ tester.alarms < MAX_SEND
  /\ tester' = [tester EXCEPT !.handler = "entered", !.alarm = FALSE, !.alarms = @ + 1]
  /\ UNCHANGED <<udp, only_recv, reflector, flight, lost, broken>>

HandlerStarts ==
  /\ tester.handler = "entered"
  /\ tester' = [tester EXCEPT !.handler = "sending", !.alarm = TRUE, !.count = LEN, !.left = LEN]
  /\ UNCHANGED <<udp, only_recv, reflector, flight, lost, broken>>

Sending == tester.handler = "sending" /\ tester.pc # "killed"

(* A send that fails ends the TCP tester as SIGINT does.                   *)
HandlerDone(p, ok) ==
  IF ok \/ udp THEN [p EXCEPT !.handler = "no"]
  ELSE [p EXCEPT !.handler = "no", !.need_exit = TRUE, !.alarm = FALSE]

HandlerWrites ==
  /\ ~udp /\ Sending
  /\ \E o \in write_certain_bytes(tester.left, Room("there"), ReceiverGone) :
       /\ Sent("there", o.n)
       /\ LET p == After(tester, o)
          IN  tester' = IF o.end \in {"ok", "fail"} THEN HandlerDone(p, o.end = "ok") ELSE p
  /\ UNCHANGED <<udp, only_recv, reflector, broken>>

HandlerSends ==
  /\ udp /\ Sending
  /\ \E ok \in BOOLEAN :
       /\ tester' = HandlerDone(After(tester, [n |-> LEN, end |-> IF ok THEN "ok" ELSE "fail"]), ok)
       /\ IF ok THEN SendTo("there", LEN) ELSE UNCHANGED <<flight, lost>>
  /\ UNCHANGED <<udp, only_recv, reflector, broken>>

Tester == rx_loop \/ RxNothing \/ RxRead \/ RxFails \/ HandlerStarts \/ HandlerWrites \/ HandlerSends
-----------------------------------------------------------------------------
(* The reflector: make_conn and rxtx_loop; SIGINT does not end accept.     *)
make_conn ==
  /\ reflector.pc = "accept" /\ tester.pc # "connect"
  /\ reflector' = [reflector EXCEPT !.pc = "loop"]
  /\ UNCHANGED <<udp, only_recv, tester, flight, lost, broken>>

SenderGone == broken \/ Ended(tester)

rxtx_loop ==
  /\ reflector.pc = "loop"
  /\ reflector' = [reflector EXCEPT !.pc = IF reflector.need_exit THEN "done" ELSE "select"]
  /\ UNCHANGED <<udp, only_recv, tester, flight, lost, broken>>

ReflectNothing ==
  /\ reflector.pc = "select"
  /\ FALSE \in fd_readable(flight.there > 0 \/ (~udp /\ SenderGone))
  /\ reflector' = [reflector EXCEPT !.pc = "loop"]
  /\ UNCHANGED <<udp, only_recv, tester, flight, lost, broken>>

ReflectRead ==
  /\ reflector.pc = "select" /\ ~broken
  /\ \E n \in Taken("there") :
       /\ reflector' = IF only_recv THEN [reflector EXCEPT !.pc = "loop", !.rx = @ + n]
                       ELSE [reflector EXCEPT !.pc = "send", !.rx = @ + n, !.count = n, !.left = n]
       /\ flight' = [flight EXCEPT !.there = @ - n]
  /\ UNCHANGED <<udp, only_recv, tester, lost, broken>>

ReflectFails ==
  /\ reflector.pc = "select"
  /\ \/ ~udp /\ (broken \/ (SenderGone /\ flight.there = 0))
        /\ reflector' = [reflector EXCEPT !.pc = "done"] /\ UNCHANGED <<flight, lost>>
     \/ udp /\ flight.there > 0 /\ reflector' = [reflector EXCEPT !.pc = "loop"]
        /\ flight' = [flight EXCEPT !.there = @ - LEN] /\ lost' = [lost EXCEPT !.there = @ + LEN]
  /\ UNCHANGED <<udp, only_recv, tester, broken>>

(* A send that fails is only counted, by TCP and by UDP.                   *)
ReflectWrites ==
  /\ ~udp /\ reflector.pc = "send"
  /\ \E o \in write_certain_bytes(reflector.left, Room("back"), SenderGone) :
       /\ Sent("back", o.n)
       /\ LET p == After(reflector, o)
          IN  reflector' = IF o.end \in {"ok", "fail"} THEN [p EXCEPT !.pc = "loop"] ELSE p
  /\ UNCHANGED <<udp, only_recv, tester, broken>>

ReflectSends ==
  /\ udp /\ reflector.pc = "send"
  /\ \E ok \in BOOLEAN :
       /\ reflector' = [After(reflector, [n |-> LEN, end |-> IF ok THEN "ok" ELSE "fail"])
                          EXCEPT !.pc = "loop"]
       /\ IF ok THEN SendTo("back", LEN) ELSE UNCHANGED <<flight, lost>>
  /\ UNCHANGED <<udp, only_recv, tester, broken>>

ReflectorSigInt ==
  /\ ~Ended(reflector) /\ ~reflector.need_exit
  /\ reflector' = [reflector EXCEPT !.need_exit = TRUE]
  /\ UNCHANGED <<udp, only_recv, tester, flight, lost, broken>>

Reflector ==
  make_conn \/ rxtx_loop \/ ReflectNothing \/ ReflectRead \/ ReflectFails \/ ReflectWrites \/ ReflectSends

(* The network breaks the connection: what is in flight is not read.       *)
Break ==
  /\ ~udp /\ ~broken /\ tester.pc # "connect" /\ broken' = TRUE
  /\ UNCHANGED <<udp, only_recv, tester, reflector, flight, lost>>
-----------------------------------------------------------------------------
EchoInit ==
  /\ udp \in BOOLEAN /\ only_recv \in BOOLEAN /\ broken = FALSE
  /\ tester = [pc |-> "connect", need_exit |-> FALSE, handler |-> "no", alarm |-> FALSE,
               alarms |-> 0, count |-> 0, left |-> 0, succ |-> 0, fail |-> 0, rx |-> 0]
  /\ reflector = [pc |-> IF udp THEN "loop" ELSE "accept", need_exit |-> FALSE,
                  count |-> 0, left |-> 0, succ |-> 0, fail |-> 0, rx |-> 0]
  /\ flight = [there |-> 0, back |-> 0] /\ lost = [there |-> 0, back |-> 0]

EchoNext ==
  connect2dst \/ Tester \/ TesterSigInt \/ SigAlrm \/ Reflector \/ ReflectorSigInt \/ Break

EchoFairness == WF_echo(Tester) /\ WF_echo(Reflector)
-----------------------------------------------------------------------------
Delivered(p, dir, rx) ==
  rx + flight[dir] + lost[dir] \in
    (p.succ + Written(p)) .. (p.succ + Written(p) + p.fail)

(* What the two print in the end agrees, whatever signals interrupt and    *)
(* however the stream is cut: the bytes one has sent with success are      *)
(* those the other has read or that are on their way (up to those of sends *)
(* that failed half way), and the reflector accounts for all it has read.  *)
EchoAgrees ==
  /\ Delivered(tester, "there", reflector.rx) /\ Delivered(reflector, "back", tester.rx)
  /\ only_recv \/ reflector.rx = reflector.succ + reflector.fail + reflector.count

(* Both wait for the other to read, the tester in its signal handler.      *)
Wedged ==
  /\ ~udp /\ Sending /\ reflector.pc = "send" /\ ~ReceiverGone
  /\ Room("there") = 0 /\ Room("back") = 0

(* SIGINT ends the tester, and the reflector once a client has come, and   *)
(* the end of one end of a connection ends the other, unless both wait for *)
(* the other to read, where SIGINT is not looked at any more.              *)
EchoEnds ==
  /\ tester.need_exit ~> (Ended(tester) \/ []Wedged)
  /\ (reflector.need_exit /\ reflector.pc # "accept") ~> (Ended(reflector) \/ []Wedged)
  /\ (~udp /\ Ended(tester)) ~> Ended(reflector)
  /\ (~udp /\ Ended(reflector) /\ tester.pc # "connect") ~> Ended(tester)
=============================================================================
