--------------------------- MODULE TrafficProofs ---------------------------
(* The programs that talk over TCP and UDP, for every length of the data   *)
(* and every capacity of the sockets: what one side has written and the    *)
(* other has read, has in flight or has lost differ by no more than the    *)
(* sends that failed half way.                                             *)
EXTENDS Echo, TcpPerf, Integers, TLAPS

(* tcp_tester, udp_tester and the reflectors, with any number of alarms.   *)
(* EchoInv adds to EchoAgrees what is being sent: nothing outside of a     *)
(* send, and all of a datagram.                                            *)
EchoSpec == EchoInit /\ [][EchoNext]_echo

Directions == [there : Int, back : Int]

TesterType ==
  [pc : {"connect", "loop", "select", "done", "killed"}, need_exit : BOOLEAN,
   handler : {"no", "entered", "sending"}, alarm : BOOLEAN, alarms : Nat,
   count : Nat, left : Nat, succ : Nat, fail : Nat, rx : Nat]

ReflectorType ==
  [pc : {"accept", "loop", "select", "send", "done", "killed"}, need_exit : BOOLEAN,
   count : Nat, left : Nat, succ : Nat, fail : Nat, rx : Nat]

EchoTypes ==
  /\ udp \in BOOLEAN /\ only_recv \in BOOLEAN /\ broken \in BOOLEAN
  /\ tester \in TesterType /\ reflector \in ReflectorType
  /\ flight \in Directions /\ lost \in Directions

\* What is left is a part of what is being sent.
Sends ==
  /\ tester.left <= tester.count /\ reflector.left <= reflector.count
  /\ tester.handler # "sending" => tester.count = 0
  /\ reflector.pc \notin {"send", "killed"} => reflector.count = 0
  /\ udp /\ tester.handler = "sending" => tester.count = LEN /\ tester.left = LEN
  /\ udp /\ reflector.pc = "send" => reflector.count = LEN /\ reflector.left = LEN

EchoInv == EchoTypes /\ Sends /\ EchoAgrees
-----------------------------------------------------------------------------
LEMMA EchoInitially == EchoInit => EchoInv
<1> SUFFICES ASSUME EchoInit PROVE EchoInv
  OBVIOUS
<1>1. EchoTypes
  <2>1. reflector.pc \in {"loop", "accept"} BY Zenon DEF EchoInit
  <2>2. reflector \in ReflectorType BY <2>1 DEF EchoInit, ReflectorType
  <2>3. tester \in TesterType BY DEF EchoInit, TesterType
  <2>4. flight \in Directions /\ lost \in Directions BY DEF EchoInit, Directions
  <2> QED BY <2>2, <2>3, <2>4 DEF EchoInit, EchoTypes
<1>2. Sends BY DEF EchoInit, Sends
<1>3. EchoAgrees BY DEF EchoInit, EchoAgrees, Delivered, Written
<1> QED BY <1>1, <1>2, <1>3 DEF EchoInv

\* Steps of the tester that move no byte.
LEMMA TesterQuiet ==
  ASSUME EchoInv, connect2dst \/ rx_loop \/ RxNothing \/ TesterSigInt \/ SigAlrm
  PROVE  EchoInv'
<1>1. CASE connect2dst
  <2>1. EchoTypes' BY <1>1 DEF EchoInv, EchoTypes, TesterType, ReflectorType, Directions, connect2dst, Ended
  <2>2. Sends' BY <1>1 DEF EchoInv, EchoTypes, TesterType, ReflectorType, Directions, Sends, connect2dst, Ended
  <2>3. EchoAgrees' BY <1>1 DEF EchoInv, EchoTypes, TesterType, ReflectorType, Directions, EchoAgrees, Delivered, Written, connect2dst, Ended
  <2> QED BY <2>1, <2>2, <2>3 DEF EchoInv
<1>2. CASE rx_loop
  <2>1. EchoTypes' BY <1>2 DEF EchoInv, EchoTypes, TesterType, ReflectorType, Directions, rx_loop, InMain
  <2>2. Sends' BY <1>2 DEF EchoInv, EchoTypes, TesterType, ReflectorType, Directions, Sends, rx_loop, InMain
  <2>3. EchoAgrees' BY <1>2 DEF EchoInv, EchoTypes, TesterType, ReflectorType, Directions, EchoAgrees, Delivered, Written, rx_loop, InMain
  <2> QED BY <2>1, <2>2, <2>3 DEF EchoInv
<1>3. CASE RxNothing
  <2>1. EchoTypes' BY <1>3 DEF EchoInv, EchoTypes, TesterType, ReflectorType, Directions, RxNothing, InMain
  <2>2. Sends' BY <1>3 DEF EchoInv, EchoTypes, TesterType, ReflectorType, Directions, Sends, RxNothing, InMain
  <2>3. EchoAgrees' BY <1>3 DEF EchoInv, EchoTypes, TesterType, ReflectorType, Directions, EchoAgrees, Delivered, Written, RxNothing, InMain
  <2> QED BY <2>1, <2>2, <2>3 DEF EchoInv
<1>4. CASE TesterSigInt
  <2>1. EchoTypes' BY <1>4 DEF EchoInv, EchoTypes, TesterType, ReflectorType, Directions, TesterSigInt
  <2>2. Sends' BY <1>4 DEF EchoInv, EchoTypes, TesterType, ReflectorType, Directions, Sends, TesterSigInt
  <2>3. EchoAgrees' BY <1>4 DEF EchoInv, EchoTypes, TesterType, ReflectorType, Directions, EchoAgrees, Delivered, Written, TesterSigInt
  <2> QED BY <2>1, <2>2, <2>3 DEF EchoInv
<1>5. CASE SigAlrm
  <2>1. tester' = [tester EXCEPT !.handler = "entered", !.alarm = FALSE, !.alarms = @ + 1]
    BY <1>5 DEF SigAlrm
  <2>2. tester.alarms + 1 \in Nat
    BY DEF EchoInv, EchoTypes, TesterType
  <2>3. tester' \in TesterType
    BY <2>1, <2>2 DEF EchoInv, EchoTypes, TesterType
  <2>4. EchoTypes'
    BY <1>5, <2>3 DEF EchoInv, EchoTypes, SigAlrm
  <2>5. Sends'
    BY <1>5 DEF EchoInv, EchoTypes, TesterType, Sends, SigAlrm, InMain
  <2>6. EchoAgrees'
    BY <1>5 DEF EchoInv, EchoTypes, TesterType, EchoAgrees, Delivered, Written, SigAlrm
  <2> QED BY <2>4, <2>5, <2>6 DEF EchoInv
<1> QED BY <1>1, <1>2, <1>3, <1>4, <1>5

\* And those of the reflector and of the network.
LEMMA ReflectorQuiet ==
  ASSUME EchoInv, make_conn \/ rxtx_loop \/ ReflectNothing \/ ReflectorSigInt \/ Break
  PROVE  EchoInv'
<1>1. CASE make_conn
  <2>1. EchoTypes' BY <1>1 DEF EchoInv, EchoTypes, TesterType, ReflectorType, Directions, make_conn
  <2>2. Sends' BY <1>1 DEF EchoInv, EchoTypes, TesterType, ReflectorType, Directions, Sends, make_conn
  <2>3. EchoAgrees' BY <1>1 DEF EchoInv, EchoTypes, TesterType, ReflectorType, Directions, EchoAgrees, Delivered, Written, make_conn
  <2> QED BY <2>1, <2>2, <2>3 DEF EchoInv
<1>2. CASE rxtx_loop
  <2>1. EchoTypes' BY <1>2 DEF EchoInv, EchoTypes, TesterType, ReflectorType, Directions, rxtx_loop
  <2>2. Sends' BY <1>2 DEF EchoInv, EchoTypes, TesterType, ReflectorType, Directions, Sends, rxtx_loop
  <2>3. EchoAgrees' BY <1>2 DEF EchoInv, EchoTypes, TesterType, ReflectorType, Directions, EchoAgrees, Delivered, Written, rxtx_loop
  <2> QED BY <2>1, <2>2, <2>3 DEF EchoInv
<1>3. CASE ReflectNothing
  <2>1. EchoTypes' BY <1>3 DEF EchoInv, EchoTypes, TesterType, ReflectorType, Directions, ReflectNothing
  <2>2. Sends' BY <1>3 DEF EchoInv, EchoTypes, TesterType, ReflectorType, Directions, Sends, ReflectNothing
  <2>3. EchoAgrees' BY <1>3 DEF EchoInv, EchoTypes, TesterType, ReflectorType, Directions, EchoAgrees, Delivered, Written, ReflectNothing
  <2> QED BY <2>1, <2>2, <2>3 DEF EchoInv
<1>4. CASE ReflectorSigInt
  <2>1. EchoTypes' BY <1>4 DEF EchoInv, EchoTypes, TesterType, ReflectorType, Directions, ReflectorSigInt, Ended
  <2>2. Sends' BY <1>4 DEF EchoInv, EchoTypes, TesterType, ReflectorType, Directions, Sends, ReflectorSigInt, Ended
  <2>3. EchoAgrees' BY <1>4 DEF EchoInv, EchoTypes, TesterType, ReflectorType, Directions, EchoAgrees, Delivered, Written, ReflectorSigInt, Ended
  <2> QED BY <2>1, <2>2, <2>3 DEF EchoInv
<1>5. CASE Break
  <2>1. EchoTypes' BY <1>5 DEF EchoInv, EchoTypes, TesterType, ReflectorType, Directions, Break
  <2>2. Sends' BY <1>5 DEF EchoInv, EchoTypes, TesterType, ReflectorType, Directions, Sends, Break
  <2>3. EchoAgrees' BY <1>5 DEF EchoInv, EchoTypes, TesterType, ReflectorType, Directions, EchoAgrees, Delivered, Written, Break
  <2> QED BY <2>1, <2>2, <2>3 DEF EchoInv
<1> QED BY <1>1, <1>2, <1>3, <1>4, <1>5

\* The tester reads: what it counts was in flight.
LEMMA TesterReads == ASSUME EchoInv, RxRead \/ RxFails PROVE EchoInv'
<1>1. CASE RxRead
  <2>1. PICK n \in Taken("back") :
          /\ tester' = [tester EXCEPT !.pc = "loop", !.rx = @ + n]
          /\ flight' = [flight EXCEPT !.back = @ - n]
    BY <1>1 DEF RxRead
  <2>2. n \in Nat
    BY <2>1, EchoAssumption DEF Taken, EchoAssumption, EchoInv, EchoTypes, Directions
  <2>3. tester.handler = "no" /\ UNCHANGED <<udp, only_recv, reflector, lost, broken>>
    BY <1>1 DEF RxRead, InMain
  <2>4. tester.rx + n \in Nat /\ flight.back - n \in Int
    BY <2>2 DEF EchoInv, EchoTypes, TesterType, Directions
  <2>5. tester' \in TesterType /\ flight' \in Directions
    BY <2>1, <2>4 DEF EchoInv, EchoTypes, TesterType, Directions
  <2>6. EchoTypes'
    BY <2>3, <2>5 DEF EchoInv, EchoTypes
  <2>7. Sends'
    BY <2>1, <2>3 DEF EchoInv, EchoTypes, TesterType, Sends
  <2>8. EchoAgrees'
    BY <2>1, <2>2, <2>3 DEF EchoInv, EchoTypes, TesterType, ReflectorType, Directions, EchoAgrees, Delivered, Written
  <2> QED BY <2>6, <2>7, <2>8 DEF EchoInv
<1>2. CASE RxFails
  <2>1. tester.handler = "no" /\ UNCHANGED <<udp, only_recv, reflector, broken>>
    BY <1>2 DEF RxFails, InMain
  <2>2. CASE flight' = flight /\ lost' = lost /\ tester' = [tester EXCEPT !.pc = "done"]
    <3>1. EchoTypes' BY <2>1, <2>2 DEF EchoInv, EchoTypes, TesterType, ReflectorType, Directions
    <3>2. Sends' BY <2>1, <2>2 DEF EchoInv, EchoTypes, TesterType, ReflectorType, Directions, Sends
    <3>3. EchoAgrees' BY <2>1, <2>2 DEF EchoInv, EchoTypes, TesterType, ReflectorType, Directions, EchoAgrees, Delivered, Written
    <3> QED BY <3>1, <3>2, <3>3 DEF EchoInv
  <2>3. CASE /\ flight' = [flight EXCEPT !.back = @ - LEN] /\ lost' = [lost EXCEPT !.back = @ + LEN]
             /\ tester' = [tester EXCEPT !.pc = "loop"]
    <3> USE EchoAssumption DEF EchoAssumption
    <3>1. EchoTypes' BY <2>1, <2>3 DEF EchoInv, EchoTypes, TesterType, ReflectorType, Directions
    <3>2. Sends' BY <2>1, <2>3 DEF EchoInv, EchoTypes, TesterType, ReflectorType, Directions, Sends
    <3>3. EchoAgrees' BY <2>1, <2>3 DEF EchoInv, EchoTypes, TesterType, ReflectorType, Directions, EchoAgrees, Delivered, Written
    <3> QED BY <3>1, <3>2, <3>3 DEF EchoInv
  <2> QED BY <1>2, <2>2, <2>3 DEF RxFails
<1> QED BY <1>1, <1>2

\* What becomes of a send, told by write_certain_bytes.
LEMMA Outcome ==
  ASSUME NEW left \in Nat, NEW room, NEW gone,
         NEW o \in write_certain_bytes(left, room, gone)
  PROVE  /\ o.n \in Nat /\ o.n <= left
         /\ o.end \in {"ok", "more", "fail", "sigpipe"}
         /\ o.end = "ok" => o.n = left
         /\ o.end \in {"fail", "sigpipe"} => o.n = 0
<1>1. CASE \E n \in {k \in 1..left : k <= room} : o = [n |-> n, end |-> IF n = left THEN "ok" ELSE "more"]
  <2>1. PICK n \in 1..left : o = [n |-> n, end |-> IF n = left THEN "ok" ELSE "more"]
    BY <1>1
  <2> QED BY <2>1
<1>2. CASE o \in (IF gone THEN {[n |-> 0, end |-> "fail"], [n |-> 0, end |-> "sigpipe"]} ELSE {})
  BY <1>2
<1> QED BY <1>1, <1>2 DEF write_certain_bytes

LEMMA TesterSends == ASSUME EchoInv, HandlerStarts \/ HandlerWrites \/ HandlerSends PROVE EchoInv'
<1>1. CASE HandlerStarts
  <2>1. LEN \in Nat /\ UNCHANGED <<udp, only_recv, reflector, flight, lost, broken>>
    BY <1>1, EchoAssumption DEF EchoAssumption, HandlerStarts
  <2>2. tester' = [tester EXCEPT !.handler = "sending", !.alarm = TRUE, !.count = LEN, !.left = LEN]
    BY <1>1 DEF HandlerStarts
  <2>3. tester' \in TesterType
    BY <2>1, <2>2 DEF EchoInv, EchoTypes, TesterType
  <2>4. EchoTypes'
    BY <2>1, <2>3 DEF EchoInv, EchoTypes
  <2>5. Sends'
    <3>1. tester'.count = LEN /\ tester'.left = LEN /\ tester'.handler = "sending"
      BY <2>2 DEF EchoInv, EchoTypes, TesterType
    <3> QED BY <2>1, <3>1 DEF EchoInv, Sends
  <2>6. EchoAgrees'
    BY <1>1, <2>1, <2>2 DEF EchoInv, EchoTypes, TesterType, Sends, EchoAgrees, Delivered, Written, HandlerStarts
  <2> QED BY <2>4, <2>5, <2>6 DEF EchoInv
<1>2. CASE HandlerWrites
  <2>1. PICK o \in write_certain_bytes(tester.left, Room("there"), ReceiverGone) :
          /\ Sent("there", o.n)
          /\ tester' = IF o.end \in {"ok", "fail"} THEN HandlerDone(After(tester, o), o.end = "ok")
                       ELSE After(tester, o)
    BY <1>2 DEF HandlerWrites
  <2>2. /\ o.n \in Nat /\ o.n <= tester.left
        /\ o.end \in {"ok", "more", "fail", "sigpipe"}
        /\ o.end = "ok" => o.n = tester.left
        /\ o.end \in {"fail", "sigpipe"} => o.n = 0
    BY <2>1, Outcome DEF EchoInv, EchoTypes, TesterType
  <2>3. ~udp /\ tester.handler = "sending" /\ UNCHANGED <<udp, only_recv, reflector, broken>>
    BY <1>2 DEF HandlerWrites, Sending
  <2>4. flight' = [flight EXCEPT !.there = @ + o.n] /\ lost' = lost
    BY <2>1 DEF Sent
  <2>5. flight' \in Directions
    BY <2>2, <2>4 DEF EchoInv, EchoTypes, Directions
  <2>6. CASE o.end = "ok"
    <3>1. tester' = [tester EXCEPT !.left = 0, !.count = 0, !.succ = @ + tester.count, !.handler = "no"]
      BY <2>1, <2>3, <2>6 DEF After, HandlerDone
    <3>2. /\ tester.left - o.n \in Nat /\ tester.succ + tester.count \in Nat
          /\ tester.fail + tester.count \in Nat
      BY <2>2 DEF EchoInv, EchoTypes, TesterType
    <3>3. tester' \in TesterType
      BY <3>1, <3>2 DEF EchoInv, EchoTypes, TesterType
    <3>4. EchoTypes'
      BY <2>3, <2>4, <2>5, <3>3 DEF EchoInv, EchoTypes
    <3>5. Sends'
      BY <2>2, <2>3, <3>1 DEF EchoInv, EchoTypes, TesterType, ReflectorType, Sends
    <3>6. EchoAgrees'
      BY <2>2, <2>3, <2>4, <2>6, <3>1 DEF EchoInv, EchoTypes, TesterType, ReflectorType, Directions, EchoAgrees, Delivered, Written, Sends
    <3> QED BY <3>4, <3>5, <3>6 DEF EchoInv
  <2>7. CASE o.end = "more"
    <3>1. tester' = [tester EXCEPT !.left = @ - o.n]
      BY <2>1, <2>3, <2>7 DEF After, HandlerDone
    <3>2. /\ tester.left - o.n \in Nat /\ tester.succ + tester.count \in Nat
          /\ tester.fail + tester.count \in Nat
      BY <2>2 DEF EchoInv, EchoTypes, TesterType
    <3>3. tester' \in TesterType
      BY <3>1, <3>2 DEF EchoInv, EchoTypes, TesterType
    <3>4. EchoTypes'
      BY <2>3, <2>4, <2>5, <3>3 DEF EchoInv, EchoTypes
    <3>5. Sends'
      BY <2>2, <2>3, <3>1 DEF EchoInv, EchoTypes, TesterType, ReflectorType, Sends
    <3>6. EchoAgrees'
      BY <2>2, <2>3, <2>4, <2>7, <3>1 DEF EchoInv, EchoTypes, TesterType, ReflectorType, Directions, EchoAgrees, Delivered, Written, Sends
    <3> QED BY <3>4, <3>5, <3>6 DEF EchoInv
  <2>8. CASE o.end = "fail"
    <3>1. tester' = [tester EXCEPT !.left = 0, !.count = 0, !.fail = @ + tester.count, !.handler = "no", !.need_exit = TRUE, !.alarm = FALSE]
      BY <2>1, <2>3, <2>8 DEF After, HandlerDone
    <3>2. /\ tester.left - o.n \in Nat /\ tester.succ + tester.count \in Nat
          /\ tester.fail + tester.count \in Nat
      BY <2>2 DEF EchoInv, EchoTypes, TesterType
    <3>3. tester' \in TesterType
      BY <3>1, <3>2 DEF EchoInv, EchoTypes, TesterType
    <3>4. EchoTypes'
      BY <2>3, <2>4, <2>5, <3>3 DEF EchoInv, EchoTypes
    <3>5. Sends'
      BY <2>2, <2>3, <3>1 DEF EchoInv, EchoTypes, TesterType, ReflectorType, Sends
    <3>6. EchoAgrees'
      BY <2>2, <2>3, <2>4, <2>8, <3>1 DEF EchoInv, EchoTypes, TesterType, ReflectorType, Directions, EchoAgrees, Delivered, Written, Sends
    <3> QED BY <3>4, <3>5, <3>6 DEF EchoInv
  <2>9. CASE o.end = "sigpipe"
    <3>1. tester' = [tester EXCEPT !.pc = "killed"]
      BY <2>1, <2>3, <2>9 DEF After, HandlerDone
    <3>2. /\ tester.left - o.n \in Nat /\ tester.succ + tester.count \in Nat
          /\ tester.fail + tester.count \in Nat
      BY <2>2 DEF EchoInv, EchoTypes, TesterType
    <3>3. tester' \in TesterType
      BY <3>1, <3>2 DEF EchoInv, EchoTypes, TesterType
    <3>4. EchoTypes'
      BY <2>3, <2>4, <2>5, <3>3 DEF EchoInv, EchoTypes
    <3>5. Sends'
      BY <2>2, <2>3, <3>1 DEF EchoInv, EchoTypes, TesterType, ReflectorType, Sends
    <3>6. EchoAgrees'
      BY <2>2, <2>3, <2>4, <2>9, <3>1 DEF EchoInv, EchoTypes, TesterType, ReflectorType, Directions, EchoAgrees, Delivered, Written, Sends
    <3> QED BY <3>4, <3>5, <3>6 DEF EchoInv
  <2> QED BY <2>2, <2>6, <2>7, <2>8, <2>9
<1>3. CASE HandlerSends
  <2>1. PICK ok \in BOOLEAN :
          /\ tester' = HandlerDone(After(tester, [n |-> LEN, end |-> IF ok THEN "ok" ELSE "fail"]), ok)
          /\ IF ok THEN SendTo("there", LEN) ELSE UNCHANGED <<flight, lost>>
    BY <1>3 DEF HandlerSends
  <2>2. udp /\ tester.handler = "sending" /\ UNCHANGED <<udp, only_recv, reflector, broken>>
    BY <1>3 DEF HandlerSends, Sending
  <2>3. /\ LEN \in Nat /\ tester.count = LEN /\ tester.left = LEN
        /\ tester.succ + LEN \in Nat /\ tester.fail + LEN \in Nat
    BY <2>2, EchoAssumption DEF EchoAssumption, EchoInv, EchoTypes, TesterType, Sends
  <2>4. CASE ok
    <3>1. tester' = [tester EXCEPT !.left = 0, !.count = 0, !.succ = @ + LEN, !.handler = "no"]
      BY <2>1, <2>2, <2>3, <2>4 DEF After, HandlerDone
    <3>2. tester' \in TesterType
      BY <2>3, <3>1 DEF EchoInv, EchoTypes, TesterType
    <3>3. Sends'
      BY <2>2, <2>3, <3>1 DEF EchoInv, EchoTypes, TesterType, ReflectorType, Sends
    <3>4. \/ flight' = [flight EXCEPT !.there = @ + LEN] /\ lost' = lost
          \/ flight' = flight /\ lost' = [lost EXCEPT !.there = @ + LEN]
      BY <2>1, <2>4 DEF SendTo
    <3>5. flight' \in Directions /\ lost' \in Directions
      BY <2>3, <3>4 DEF EchoInv, EchoTypes, Directions
    <3>6. EchoTypes'
      BY <2>2, <3>2, <3>5 DEF EchoInv, EchoTypes
    <3>7. EchoAgrees'
      BY <2>2, <2>3, <3>1, <3>4 DEF EchoInv, EchoTypes, TesterType, ReflectorType, Directions, EchoAgrees, Delivered, Written, Sends
    <3> QED BY <3>3, <3>6, <3>7 DEF EchoInv
  <2>5. CASE ~ok
    <3>1. tester' = [tester EXCEPT !.left = 0, !.count = 0, !.fail = @ + LEN, !.handler = "no"]
      BY <2>1, <2>2, <2>3, <2>5 DEF After, HandlerDone
    <3>2. flight' = flight /\ lost' = lost
      BY <2>1, <2>5
    <3>3. tester' \in TesterType
      BY <2>3, <3>1 DEF EchoInv, EchoTypes, TesterType
    <3>4. EchoTypes'
      BY <2>2, <3>2, <3>3 DEF EchoInv, EchoTypes
    <3>5. Sends'
      BY <2>2, <2>3, <3>1 DEF EchoInv, EchoTypes, TesterType, ReflectorType, Sends
    <3>6. EchoAgrees'
      BY <2>2, <2>3, <3>1, <3>2 DEF EchoInv, EchoTypes, TesterType, ReflectorType, Directions, EchoAgrees, Delivered, Written, Sends
    <3> QED BY <3>4, <3>5, <3>6 DEF EchoInv
  <2> QED BY <2>4, <2>5
<1> QED BY <1>1, <1>2, <1>3

\* The reflector reads: all of it is to be sent back, unless it only receives.
LEMMA ReflectorReads == ASSUME EchoInv, ReflectRead \/ ReflectFails PROVE EchoInv'
<1>1. CASE ReflectRead
  <2>1. PICK n \in Taken("there") :
          /\ reflector' = IF only_recv THEN [reflector EXCEPT !.pc = "loop", !.rx = @ + n]
                          ELSE [reflector EXCEPT !.pc = "send", !.rx = @ + n, !.count = n, !.left = n]
          /\ flight' = [flight EXCEPT !.there = @ - n]
    BY <1>1 DEF ReflectRead
  <2>2. n \in Nat /\ (udp => n = LEN)
    BY <2>1, EchoAssumption DEF Taken, EchoAssumption, EchoInv, EchoTypes, Directions
  <2>3. reflector.pc = "select" /\ UNCHANGED <<udp, only_recv, tester, lost, broken>>
    BY <1>1 DEF ReflectRead
  <2>4. reflector.rx + n \in Nat /\ flight.there - n \in Int
    BY <2>2 DEF EchoInv, EchoTypes, ReflectorType, Directions
  <2>5. flight' \in Directions
    BY <2>1, <2>4 DEF EchoInv, EchoTypes, Directions
  <2>6. CASE only_recv
    <3>1. reflector' = [reflector EXCEPT !.pc = "loop", !.rx = @ + n]
      BY <2>1, <2>6
    <3>2. reflector' \in ReflectorType
      BY <2>4, <3>1 DEF EchoInv, EchoTypes, ReflectorType
    <3>3. EchoTypes'
      BY <2>3, <2>5, <3>2 DEF EchoInv, EchoTypes
    <3>4. Sends'
      BY <2>3, <3>1 DEF EchoInv, EchoTypes, TesterType, ReflectorType, Sends
    <3>5. EchoAgrees'
      BY <2>1, <2>2, <2>3, <2>6, <3>1 DEF EchoInv, EchoTypes, TesterType, ReflectorType, Directions, EchoAgrees, Delivered, Written
    <3> QED BY <3>3, <3>4, <3>5 DEF EchoInv
  <2>7. CASE ~only_recv
    <3>1. reflector' = [reflector EXCEPT !.pc = "send", !.rx = @ + n, !.count = n, !.left = n]
      BY <2>1, <2>7
    <3>2. reflector' \in ReflectorType
      BY <2>2, <2>4, <3>1 DEF EchoInv, EchoTypes, ReflectorType
    <3>3. EchoTypes'
      BY <2>3, <2>5, <3>2 DEF EchoInv, EchoTypes
    <3>4. Sends'
      BY <2>2, <2>3, <3>1 DEF EchoInv, EchoTypes, TesterType, ReflectorType, Sends
    <3>5. EchoAgrees'
      BY <2>1, <2>2, <2>3, <3>1 DEF EchoInv, EchoTypes, TesterType, ReflectorType, Directions, EchoAgrees, Delivered, Written, Sends
    <3> QED BY <3>3, <3>4, <3>5 DEF EchoInv
  <2> QED BY <2>6, <2>7
<1>2. CASE ReflectFails
  <2>1. reflector.pc = "select" /\ UNCHANGED <<udp, only_recv, tester, broken>>
    BY <1>2 DEF ReflectFails
  <2>2. CASE flight' = flight /\ lost' = lost /\ reflector' = [reflector EXCEPT !.pc = "done"]
    <3>1. EchoTypes' BY <2>1, <2>2 DEF EchoInv, EchoTypes, TesterType, ReflectorType, Directions
    <3>2. Sends' BY <2>1, <2>2 DEF EchoInv, EchoTypes, TesterType, ReflectorType, Directions, Sends
    <3>3. EchoAgrees' BY <2>1, <2>2 DEF EchoInv, EchoTypes, TesterType, ReflectorType, Directions, EchoAgrees, Delivered, Written
    <3> QED BY <3>1, <3>2, <3>3 DEF EchoInv
  <2>3. CASE /\ flight' = [flight EXCEPT !.there = @ - LEN] /\ lost' = [lost EXCEPT !.there = @ + LEN]
             /\ reflector' = [reflector EXCEPT !.pc = "loop"]
    <3> USE EchoAssumption DEF EchoAssumption
    <3>1. EchoTypes' BY <2>1, <2>3 DEF EchoInv, EchoTypes, TesterType, ReflectorType, Directions
    <3>2. Sends' BY <2>1, <2>3 DEF EchoInv, EchoTypes, TesterType, ReflectorType, Directions, Sends
    <3>3. EchoAgrees' BY <2>1, <2>3 DEF EchoInv, EchoTypes, TesterType, ReflectorType, Directions, EchoAgrees, Delivered, Written
    <3> QED BY <3>1, <3>2, <3>3 DEF EchoInv
  <2> QED BY <1>2, <2>2, <2>3 DEF ReflectFails
<1> QED BY <1>1, <1>2

LEMMA ReflectorSends == ASSUME EchoInv, ReflectWrites \/ ReflectSends PROVE EchoInv'
<1>1. CASE ReflectWrites
  <2>1. PICK o \in write_certain_bytes(reflector.left, Room("back"), SenderGone) :
          /\ Sent("back", o.n)
          /\ reflector' = IF o.end \in {"ok", "fail"} THEN [After(reflector, o) EXCEPT !.pc = "loop"]
                       ELSE After(reflector, o)
    BY <1>1 DEF ReflectWrites
  <2>2. /\ o.n \in Nat /\ o.n <= reflector.left
        /\ o.end \in {"ok", "more", "fail", "sigpipe"}
        /\ o.end = "ok" => o.n = reflector.left
        /\ o.end \in {"fail", "sigpipe"} => o.n = 0
    BY <2>1, Outcome DEF EchoInv, EchoTypes, ReflectorType
  <2>3. ~udp /\ reflector.pc = "send" /\ UNCHANGED <<udp, only_recv, tester, broken>>
    BY <1>1 DEF ReflectWrites
  <2>4. flight' = [flight EXCEPT !.back = @ + o.n] /\ lost' = lost
    BY <2>1 DEF Sent
  <2>5. flight' \in Directions
    BY <2>2, <2>4 DEF EchoInv, EchoTypes, Directions
  <2>6. CASE o.end = "ok"
    <3>1. reflector' = [reflector EXCEPT !.left = 0, !.count = 0, !.succ = @ + reflector.count, !.pc = "loop"]
      BY <2>1, <2>3, <2>6 DEF After
    <3>2. /\ reflector.left - o.n \in Nat /\ reflector.succ + reflector.count \in Nat
          /\ reflector.fail + reflector.count \in Nat
      BY <2>2 DEF EchoInv, EchoTypes, ReflectorType
    <3>3. reflector' \in ReflectorType
      BY <3>1, <3>2 DEF EchoInv, EchoTypes, ReflectorType
    <3>4. EchoTypes'
      BY <2>3, <2>4, <2>5, <3>3 DEF EchoInv, EchoTypes
    <3>5. Sends'
      BY <2>2, <2>3, <3>1 DEF EchoInv, EchoTypes, TesterType, ReflectorType, Sends
    <3>6. EchoAgrees'
      BY <2>2, <2>3, <2>4, <2>6, <3>1 DEF EchoInv, EchoTypes, TesterType, ReflectorType, Directions, EchoAgrees, Delivered, Written, Sends
    <3> QED BY <3>4, <3>5, <3>6 DEF EchoInv
  <2>7. CASE o.end = "more"
    <3>1. reflector' = [reflector EXCEPT !.left = @ - o.n]
      BY <2>1, <2>3, <2>7 DEF After
    <3>2. /\ reflector.left - o.n \in Nat /\ reflector.succ + reflector.count \in Nat
          /\ reflector.fail + reflector.count \in Nat
      BY <2>2 DEF EchoInv, EchoTypes, ReflectorType
    <3>3. reflector' \in ReflectorType
      BY <3>1, <3>2 DEF EchoInv, EchoTypes, ReflectorType
    <3>4. EchoTypes'
      BY <2>3, <2>4, <2>5, <3>3 DEF EchoInv, EchoTypes
    <3>5. Sends'
      BY <2>2, <2>3, <3>1 DEF EchoInv, EchoTypes, TesterType, ReflectorType, Sends
    <3>6. EchoAgrees'
      BY <2>2, <2>3, <2>4, <2>7, <3>1 DEF EchoInv, EchoTypes, TesterType, ReflectorType, Directions, EchoAgrees, Delivered, Written, Sends
    <3> QED BY <3>4, <3>5, <3>6 DEF EchoInv
  <2>8. CASE o.end = "fail"
    <3>1. reflector' = [reflector EXCEPT !.left = 0, !.count = 0, !.fail = @ + reflector.count, !.pc = "loop"]
      BY <2>1, <2>3, <2>8 DEF After
    <3>2. /\ reflector.left - o.n \in Nat /\ reflector.succ + reflector.count \in Nat
          /\ reflector.fail + reflector.count \in Nat
      BY <2>2 DEF EchoInv, EchoTypes, ReflectorType
    <3>3. reflector' \in ReflectorType
      BY <3>1, <3>2 DEF EchoInv, EchoTypes, ReflectorType
    <3>4. EchoTypes'
      BY <2>3, <2>4, <2>5, <3>3 DEF EchoInv, EchoTypes
    <3>5. Sends'
      BY <2>2, <2>3, <3>1 DEF EchoInv, EchoTypes, TesterType, ReflectorType, Sends
    <3>6. EchoAgrees'
      BY <2>2, <2>3, <2>4, <2>8, <3>1 DEF EchoInv, EchoTypes, TesterType, ReflectorType, Directions, EchoAgrees, Delivered, Written, Sends
    <3> QED BY <3>4, <3>5, <3>6 DEF EchoInv
  <2>9. CASE o.end = "sigpipe"
    <3>1. reflector' = [reflector EXCEPT !.pc = "killed"]
      BY <2>1, <2>3, <2>9 DEF After
    <3>2. /\ reflector.left - o.n \in Nat /\ reflector.succ + reflector.count \in Nat
          /\ reflector.fail + reflector.count \in Nat
      BY <2>2 DEF EchoInv, EchoTypes, ReflectorType
    <3>3. reflector' \in ReflectorType
      BY <3>1, <3>2 DEF EchoInv, EchoTypes, ReflectorType
    <3>4. EchoTypes'
      BY <2>3, <2>4, <2>5, <3>3 DEF EchoInv, EchoTypes
    <3>5. Sends'
      BY <2>2, <2>3, <3>1 DEF EchoInv, EchoTypes, TesterType, ReflectorType, Sends
    <3>6. EchoAgrees'
      BY <2>2, <2>3, <2>4, <2>9, <3>1 DEF EchoInv, EchoTypes, TesterType, ReflectorType, Directions, EchoAgrees, Delivered, Written, Sends
    <3> QED BY <3>4, <3>5, <3>6 DEF EchoInv
  <2> QED BY <2>2, <2>6, <2>7, <2>8, <2>9
<1>2. CASE ReflectSends
  <2>1. PICK ok \in BOOLEAN :
          /\ reflector' = [After(reflector, [n |-> LEN, end |-> IF ok THEN "ok" ELSE "fail"]) EXCEPT !.pc = "loop"]
          /\ IF ok THEN SendTo("back", LEN) ELSE UNCHANGED <<flight, lost>>
    BY <1>2 DEF ReflectSends
  <2>2. udp /\ reflector.pc = "send" /\ UNCHANGED <<udp, only_recv, tester, broken>>
    BY <1>2 DEF ReflectSends
  <2>3. /\ LEN \in Nat /\ reflector.count = LEN /\ reflector.left = LEN
        /\ reflector.succ + LEN \in Nat /\ reflector.fail + LEN \in Nat
    BY <2>2, EchoAssumption DEF EchoAssumption, EchoInv, EchoTypes, ReflectorType, Sends
  <2>4. CASE ok
    <3>1. reflector' = [reflector EXCEPT !.left = 0, !.count = 0, !.succ = @ + LEN, !.pc = "loop"]
      BY <2>1, <2>2, <2>3, <2>4 DEF After, HandlerDone
    <3>2. reflector' \in ReflectorType
      BY <2>3, <3>1 DEF EchoInv, EchoTypes, ReflectorType
    <3>3. Sends'
      BY <2>2, <2>3, <3>1 DEF EchoInv, EchoTypes, TesterType, ReflectorType, Sends
    <3>4. \/ flight' = [flight EXCEPT !.back = @ + LEN] /\ lost' = lost
          \/ flight' = flight /\ lost' = [lost EXCEPT !.back = @ + LEN]
      BY <2>1, <2>4 DEF SendTo
    <3>5. flight' \in Directions /\ lost' \in Directions
      BY <2>3, <3>4 DEF EchoInv, EchoTypes, Directions
    <3>6. EchoTypes'
      BY <2>2, <3>2, <3>5 DEF EchoInv, EchoTypes
    <3>7. EchoAgrees'
      BY <2>2, <2>3, <3>1, <3>4 DEF EchoInv, EchoTypes, TesterType, ReflectorType, Directions, EchoAgrees, Delivered, Written, Sends
    <3> QED BY <3>3, <3>6, <3>7 DEF EchoInv
  <2>5. CASE ~ok
    <3>1. reflector' = [reflector EXCEPT !.left = 0, !.count = 0, !.fail = @ + LEN, !.pc = "loop"]
      BY <2>1, <2>2, <2>3, <2>5 DEF After, HandlerDone
    <3>2. flight' = flight /\ lost' = lost
      BY <2>1, <2>5
    <3>3. reflector' \in ReflectorType
      BY <2>3, <3>1 DEF EchoInv, EchoTypes, ReflectorType
    <3>4. EchoTypes'
      BY <2>2, <3>2, <3>3 DEF EchoInv, EchoTypes
    <3>5. Sends'
      BY <2>2, <2>3, <3>1 DEF EchoInv, EchoTypes, TesterType, ReflectorType, Sends
    <3>6. EchoAgrees'
      BY <2>2, <2>3, <3>1, <3>2 DEF EchoInv, EchoTypes, TesterType, ReflectorType, Directions, EchoAgrees, Delivered, Written, Sends
    <3> QED BY <3>4, <3>5, <3>6 DEF EchoInv
  <2> QED BY <2>4, <2>5
<1> QED BY <1>1, <1>2
-----------------------------------------------------------------------------
\* EchoInv is an invariant: each step is one of the above.
THEOREM EchoInvariance == EchoSpec => []EchoInv
<1>1. EchoInv /\ [EchoNext]_echo => EchoInv'
  <2> SUFFICES ASSUME EchoInv, [EchoNext]_echo PROVE EchoInv'
    OBVIOUS
  <2>1. CASE UNCHANGED echo
    BY <2>1 DEF echo, EchoInv, EchoTypes, Sends, EchoAgrees, Delivered, Written
  <2>2. CASE EchoNext
    BY <2>2, TesterQuiet, ReflectorQuiet, TesterReads, TesterSends, ReflectorReads, ReflectorSends
       DEF EchoNext, Tester, Reflector
  <2> QED BY <2>1, <2>2
<1> QED
  BY <1>1, EchoInitially, PTL DEF EchoSpec

\* The counts that the tester and the reflector print agree with what was
\* carried, in the TCP programs and in the UDP programs.
THEOREM Agreement == EchoSpec => []EchoAgrees
<1>1. EchoInv => EchoAgrees
  BY DEF EchoInv
<1> QED
  BY <1>1, EchoInvariance, PTL

-----------------------------------------------------------------------------
(* tcp_perf. PerfAgrees is inductive together with the types: no step      *)
(* changes the sum of what is sent, on its way and read otherwise than by  *)
(* moving bytes from one term to another.                                  *)
PerfSpec == PerfInit /\ [][PerfNext]_perf

ProcType ==
  [main : {"start", "listen", "created", "sleep", "joined", "done", "killed", "crashed"},
   rx : {"none", "test", "read", "over"}, tx : {"none", "test", "write", "over"},
   rcv_data : BOOLEAN, snd_data : BOOLEAN, need_exit : BOOLEAN,
   alarm : {"off", "set", "handler"}, written : Nat, sent : Nat, got : Nat]

PerfTypes == proc \in [End -> ProcType] /\ stream \in [End -> Nat]
PerfInv == PerfTypes /\ PerfAgrees

LEMMA Peers ==
  /\ Peer("client") = "server" /\ Peer("server") = "client"
  /\ \A e \in End : Peer(e) \in End /\ Peer(e) # e /\ Peer(Peer(e)) = e
<1>1. \E p \in End : p # "client" BY DEF End
<1>2. \E p \in End : p # "server" BY DEF End
<1>3. Peer("client") \in End /\ Peer("client") # "client" BY <1>1 DEF Peer
<1>4. Peer("server") \in End /\ Peer("server") # "server" BY <1>2 DEF Peer
<1>5. Peer("client") = "server" BY <1>3 DEF End
<1>6. Peer("server") = "client" BY <1>4 DEF End
<1>7. ASSUME NEW e \in End PROVE Peer(e) \in End /\ Peer(e) # e /\ Peer(Peer(e)) = e
  BY <1>5, <1>6 DEF End
<1> QED BY <1>5, <1>6, <1>7

LEMMA PerfInitially == PerfInit => PerfInv
<1> SUFFICES ASSUME PerfInit PROVE PerfInv
  OBVIOUS
<1>1. PICK rcv \in Roles, snd \in Roles :
        proc = [e \in End |-> [main |-> "start", rx |-> "none", tx |-> "none",
                 rcv_data |-> rcv[e], snd_data |-> snd[e], need_exit |-> FALSE,
                 alarm |-> "off", written |-> 0, sent |-> 0, got |-> 0]]
  BY DEF PerfInit
<1>2. \A e \in End : rcv[e] \in BOOLEAN /\ snd[e] \in BOOLEAN
  BY PerfAssumption DEF PerfAssumption, End
<1>3. PerfTypes
  BY <1>1, <1>2 DEF PerfInit, PerfTypes, ProcType
<1>4. PerfAgrees
  BY <1>1, Peers DEF PerfInit, PerfAgrees
<1> QED BY <1>3, <1>4 DEF PerfInv

\* Steps that move no byte: of the process at one end, which becomes q.
LEMMA Quiet ==
  ASSUME PerfInv, NEW e \in End, NEW q \in ProcType, UNCHANGED stream,
         proc' = [proc EXCEPT ![e] = q],
         q.sent + q.written = proc[e].sent + proc[e].written, q.got = proc[e].got
  PROVE  PerfInv'
<1>1. PerfTypes' BY DEF PerfInv, PerfTypes
<1>2. PerfAgrees' BY Peers DEF PerfInv, PerfTypes, ProcType, PerfAgrees
<1> QED BY <1>1, <1>2 DEF PerfInv

LEMMA CutsQuietly ==
  ASSUME PerfInv, NEW e \in End, NEW t
  PROVE  /\ Cut(proc[e], t) \in ProcType
         /\ Cut(proc[e], t).sent + Cut(proc[e], t).written = proc[e].sent + proc[e].written
         /\ Cut(proc[e], t).got = proc[e].got
<1>1. proc[e] \in ProcType BY DEF PerfInv, PerfTypes
<1>2. CASE t = "rx" /\ proc[e].rx = "read"
  BY <1>1, <1>2 DEF Cut, ProcType
<1>3. CASE t = "tx" /\ proc[e].tx = "write"
  <2> DEFINE s == proc[e].sent + (proc[e].written + 0)
  <2>1. s \in Nat /\ s + 0 = proc[e].sent + proc[e].written
    BY <1>1 DEF ProcType
  <2> DEFINE q == [proc[e] EXCEPT !.tx = "test", !.written = 0, !.sent = s]
  <2>2. Cut(proc[e], t) = q
    BY <1>3 DEF Cut, Counted
  <2> HIDE DEF s
  <2>3. q \in ProcType
    BY <1>1, <2>1 DEF ProcType
  <2>4. q.sent = s /\ q.written = 0 /\ q.got = proc[e].got
    BY <1>1 DEF ProcType
  <2> HIDE DEF q
  <2> QED BY <2>1, <2>2, <2>3, <2>4
<1>4. CASE ~(t = "rx" /\ proc[e].rx = "read") /\ ~(t = "tx" /\ proc[e].tx = "write")
  BY <1>1, <1>4 DEF Cut
<1> QED BY <1>2, <1>3, <1>4

LEMMA MainSteps == ASSUME PerfInv, NEW e \in End, MainPerf(e) PROVE PerfInv'
<1>0. proc[e] \in ProcType BY DEF PerfInv, PerfTypes
<1>1. CASE e = "server" /\ Listen
  <2> DEFINE q == [proc[e] EXCEPT !.main = "listen"]
  <2>1. proc' = [proc EXCEPT ![e] = q] /\ UNCHANGED stream
    BY <1>1 DEF Listen, PerfInv, PerfTypes
  <2>2. q \in ProcType /\ q.sent + q.written = proc[e].sent + proc[e].written /\ q.got = proc[e].got
    BY <1>0 DEF ProcType
  <2> QED BY <2>1, <2>2, Quiet
<1>2. CASE Start(e)
  <2>1. PICK q \in ProcType : /\ proc' = [proc EXCEPT ![e] = q] /\ q.got = proc[e].got
                              /\ q.sent + q.written = proc[e].sent + proc[e].written
    <3>1. CASE ~proc[e].rcv_data /\ ~proc[e].snd_data
      <4> DEFINE q == [proc[e] EXCEPT !.main = "done"]
      <4>1. proc' = [proc EXCEPT ![e] = q] BY <1>2, <3>1 DEF Start
      <4>2. q \in ProcType /\ q.got = proc[e].got /\ q.sent + q.written = proc[e].sent + proc[e].written
        BY <1>0 DEF ProcType
      <4> QED BY <4>1, <4>2
    <3>2. CASE proc[e].rcv_data \/ proc[e].snd_data
      <4> DEFINE rx == IF proc[e].rcv_data THEN "test" ELSE "none"
                 tx == IF proc[e].snd_data THEN "test" ELSE "none"
                 q == [proc[e] EXCEPT !.main = "created", !.rx = rx, !.tx = tx]
      <4>0. rx \in {"test", "none"} /\ tx \in {"test", "none"} BY <1>0, Zenon
      <4>1. proc' = [proc EXCEPT ![e] = q] BY <1>0, <1>2, <3>2 DEF Start, PerfInv, PerfTypes
      <4>2. q \in ProcType /\ q.got = proc[e].got /\ q.sent + q.written = proc[e].sent + proc[e].written
        <5> HIDE DEF rx, tx
        <5> QED BY <1>0, <4>0 DEF ProcType
      <4> QED BY <4>1, <4>2
    <3> QED BY <3>1, <3>2
  <2> QED BY <1>2, <2>1, Quiet DEF Start
<1>3. CASE register_sig_proc(e)
  <2> DEFINE q == [proc[e] EXCEPT !.main = "sleep", !.alarm = "set"]
  <2>1. proc' = [proc EXCEPT ![e] = q] /\ UNCHANGED stream
    BY <1>3 DEF register_sig_proc, PerfInv, PerfTypes
  <2>2. q \in ProcType /\ q.sent + q.written = proc[e].sent + proc[e].written /\ q.got = proc[e].got
    BY <1>0 DEF ProcType
  <2> QED BY <2>1, <2>2, Quiet
<1>4. CASE JoinRx(e)
  <2>1. PICK m \in {"joined", "crashed"} : proc' = [proc EXCEPT ![e].main = m] /\ UNCHANGED stream
    BY <1>4 DEF JoinRx
  <2> DEFINE q == [proc[e] EXCEPT !.main = m]
  <2>2. proc' = [proc EXCEPT ![e] = q] BY <2>1 DEF PerfInv, PerfTypes
  <2>3. q \in ProcType /\ q.sent + q.written = proc[e].sent + proc[e].written /\ q.got = proc[e].got
    BY <1>0, <2>1 DEF ProcType
  <2> QED BY <2>1, <2>2, <2>3, Quiet
<1>5. CASE JoinTx(e)
  <2> DEFINE q == [proc[e] EXCEPT !.main = "done"]
  <2>1. proc' = [proc EXCEPT ![e] = q] /\ UNCHANGED stream
    BY <1>5 DEF JoinTx, PerfInv, PerfTypes
  <2>2. q \in ProcType /\ q.sent + q.written = proc[e].sent + proc[e].written /\ q.got = proc[e].got
    BY <1>0 DEF ProcType
  <2> QED BY <2>1, <2>2, Quiet
<1> QED BY <1>1, <1>2, <1>3, <1>4, <1>5 DEF MainPerf

LEMMA SignalSteps ==
  ASSUME PerfInv, NEW e \in End, SigIntPerf(e) \/ SigAlrmPerf(e) \/ SetAlarm(e)
  PROVE  PerfInv'
<1>0. proc[e] \in ProcType BY DEF PerfInv, PerfTypes
<1>1. CASE SigIntPerf(e) /\ proc[e].main = "created"
  <2> DEFINE q == [proc[e] EXCEPT !.main = "killed"]
  <2>1. proc' = [proc EXCEPT ![e] = q] /\ UNCHANGED stream
    BY <1>1 DEF SigIntPerf
  <2>2. q \in ProcType /\ q.sent + q.written = proc[e].sent + proc[e].written /\ q.got = proc[e].got
    BY <1>0 DEF ProcType
  <2> QED BY <2>1, <2>2, Quiet
<1>2. CASE SigIntPerf(e) /\ proc[e].main # "created"
  <2>1. PICK t \in Threads(proc[e]) :
          proc' = [proc EXCEPT ![e] = [Cut(proc[e], t) EXCEPT !.need_exit = TRUE,
                     !.alarm = IF Cut(proc[e], t).alarm = "set" THEN "off" ELSE Cut(proc[e], t).alarm]]
    BY <1>2 DEF SigIntPerf
  <2> DEFINE c == Cut(proc[e], t)
             a == IF c.alarm = "set" THEN "off" ELSE c.alarm
             q == [c EXCEPT !.need_exit = TRUE, !.alarm = a]
  <2>2. c \in ProcType /\ c.sent + c.written = proc[e].sent + proc[e].written /\ c.got = proc[e].got
    BY CutsQuietly
  <2>3. proc' = [proc EXCEPT ![e] = q] /\ UNCHANGED stream
    BY <1>2, <2>1 DEF SigIntPerf
  <2> HIDE DEF c
  <2>4. a \in {"off", "set", "handler"}
    BY <2>2 DEF ProcType
  <2> HIDE DEF a
  <2>5. q \in ProcType /\ q.sent = c.sent /\ q.written = c.written /\ q.got = c.got
    BY <2>2, <2>4 DEF ProcType
  <2> QED BY <2>2, <2>3, <2>5, Quiet
<1>3. CASE SigAlrmPerf(e)
  <2>1. PICK t \in Threads(proc[e]) :
          proc' = [proc EXCEPT ![e] = [Cut(proc[e], t) EXCEPT !.alarm = "handler"]]
    BY <1>3 DEF SigAlrmPerf
  <2> DEFINE c == Cut(proc[e], t)
             q == [c EXCEPT !.alarm = "handler"]
  <2>2. c \in ProcType /\ c.sent + c.written = proc[e].sent + proc[e].written /\ c.got = proc[e].got
    BY CutsQuietly
  <2>3. proc' = [proc EXCEPT ![e] = q] /\ UNCHANGED stream
    BY <1>3, <2>1 DEF SigAlrmPerf, PerfInv, PerfTypes
  <2> HIDE DEF c
  <2>4. q \in ProcType /\ q.sent = c.sent /\ q.written = c.written /\ q.got = c.got
    BY <2>2 DEF ProcType
  <2> QED BY <2>2, <2>3, <2>4, Quiet
<1>4. CASE SetAlarm(e)
  <2> DEFINE q == [proc[e] EXCEPT !.alarm = "set"]
  <2>1. proc' = [proc EXCEPT ![e] = q] /\ UNCHANGED stream
    BY <1>4 DEF SetAlarm
  <2>2. q \in ProcType /\ q.sent + q.written = proc[e].sent + proc[e].written /\ q.got = proc[e].got
    BY <1>0 DEF ProcType
  <2> QED BY <2>1, <2>2, Quiet
<1> QED BY <1>1, <1>2, <1>3, <1>4

\* A write moves n bytes into the stream; what it had written counts then.
LEMMA SndSteps == ASSUME PerfInv, NEW e \in End, SndThread(e) PROVE PerfInv'
<1>0. proc[e] \in ProcType BY DEF PerfInv, PerfTypes
<1>1. CASE SndTest(e)
  <2> DEFINE tx == IF proc[e].need_exit THEN "over" ELSE "write"
             q == [proc[e] EXCEPT !.tx = tx]
  <2>1. proc' = [proc EXCEPT ![e] = q] /\ UNCHANGED stream
    BY <1>1 DEF SndTest
  <2>2. tx \in {"over", "write"}
    BY Zenon
  <2> HIDE DEF tx
  <2>3. q \in ProcType /\ q.sent + q.written = proc[e].sent + proc[e].written /\ q.got = proc[e].got
    BY <1>0, <2>2 DEF ProcType
  <2> QED BY <2>1, <2>3, Quiet
<1>2. ASSUME NEW n \in 1..(SND_LEN - proc[e].written), stream' = [stream EXCEPT ![e] = @ + n],
             proc' = IF proc[e].written + n < SND_LEN THEN [proc EXCEPT ![e].written = @ + n]
                     ELSE [proc EXCEPT ![e].tx = "test", ![e].written = 0,
                                       ![e].sent = @ + Counted(proc[e], n)]
      PROVE  PerfInv'
  <2>1. /\ n \in Nat /\ stream[e] + n \in Nat
        /\ proc[e].written + n \in Nat /\ proc[e].sent + (proc[e].written + n) \in Nat
    BY <1>0, <1>2, PerfAssumption DEF PerfAssumption, ProcType, PerfInv, PerfTypes
  <2>2. PICK q \in ProcType : /\ proc' = [proc EXCEPT ![e] = q] /\ q.got = proc[e].got
                              /\ q.sent + q.written = proc[e].sent + proc[e].written + n
    <3>1. CASE proc[e].written + n < SND_LEN
      <4> DEFINE q == [proc[e] EXCEPT !.written = @ + n]
      <4>1. proc' = [proc EXCEPT ![e] = q] BY <1>2, <3>1
      <4>2. q \in ProcType BY <1>0, <2>1 DEF ProcType
      <4>3. q.sent = proc[e].sent /\ q.written = proc[e].written + n /\ q.got = proc[e].got
        BY <1>0 DEF ProcType
      <4> HIDE DEF q
      <4>4. q.sent + q.written = proc[e].sent + proc[e].written + n
        BY <1>0, <2>1, <4>3 DEF ProcType
      <4> QED BY <4>1, <4>2, <4>3, <4>4
    <3>2. CASE ~(proc[e].written + n < SND_LEN)
      <4> DEFINE q == [proc[e] EXCEPT !.tx = "test", !.written = 0, !.sent = @ + (proc[e].written + n)]
      <4>1. proc' = [proc EXCEPT ![e] = q] BY <1>0, <1>2, <3>2 DEF Counted, PerfInv, PerfTypes
      <4>2. q \in ProcType BY <1>0, <2>1 DEF ProcType
      <4>3. q.sent = proc[e].sent + (proc[e].written + n) /\ q.written = 0 /\ q.got = proc[e].got
        BY <1>0 DEF ProcType
      <4> HIDE DEF q
      <4>4. q.sent + q.written = proc[e].sent + proc[e].written + n
        BY <1>0, <2>1, <4>3 DEF ProcType
      <4> QED BY <4>1, <4>2, <4>3, <4>4
    <3> QED BY <3>1, <3>2
  <2>3. PerfTypes'
    BY <1>2, <2>1, <2>2 DEF PerfInv, PerfTypes
  <2>4. PerfAgrees'
    BY <1>2, <2>1, <2>2, Peers DEF PerfInv, PerfTypes, ProcType, PerfAgrees
  <2> QED BY <2>3, <2>4 DEF PerfInv
<1>3. ASSUME UNCHANGED stream, proc' = [proc EXCEPT ![e].main = "killed"]
      PROVE  PerfInv'
  <2> DEFINE q == [proc[e] EXCEPT !.main = "killed"]
  <2>1. q \in ProcType /\ q.sent + q.written = proc[e].sent + proc[e].written /\ q.got = proc[e].got
    BY <1>0 DEF ProcType
  <2>2. proc' = [proc EXCEPT ![e] = q]
    BY <1>3
  <2> QED BY <1>3, <2>1, <2>2, Quiet
<1>4. ASSUME UNCHANGED stream, proc' = [proc EXCEPT ![e].tx = "test", ![e].written = 0,
                                                    ![e].sent = @ + Counted(proc[e], 0)]
      PROVE  PerfInv'
  <2> DEFINE q == [proc[e] EXCEPT !.tx = "test", !.written = 0, !.sent = @ + (proc[e].written + 0)]
  <2>1. proc[e].sent + (proc[e].written + 0) \in Nat
    BY <1>0 DEF ProcType
  <2>2. q \in ProcType
    BY <1>0, <2>1 DEF ProcType
  <2>3. q.sent = proc[e].sent + (proc[e].written + 0) /\ q.written = 0 /\ q.got = proc[e].got
    BY <1>0 DEF ProcType
  <2>4. proc' = [proc EXCEPT ![e] = q]
    BY <1>0, <1>4 DEF Counted, PerfInv, PerfTypes
  <2> HIDE DEF q
  <2>5. q.sent + q.written = proc[e].sent + proc[e].written
    BY <1>0, <2>3 DEF ProcType
  <2> QED BY <1>4, <2>2, <2>3, <2>4, <2>5, Quiet
<1> QED
  BY <1>1, <1>2, <1>3, <1>4 DEF SndThread, SndWrite

\* A read moves n bytes out of the stream of the peer.
LEMMA RcvSteps == ASSUME PerfInv, NEW e \in End, RcvThread(e) PROVE PerfInv'
<1>0. proc[e] \in ProcType BY DEF PerfInv, PerfTypes
<1>1. CASE RcvTest(e)
  <2> DEFINE rx == IF proc[e].need_exit THEN "over" ELSE "read"
             q == [proc[e] EXCEPT !.rx = rx]
  <2>1. proc' = [proc EXCEPT ![e] = q] /\ UNCHANGED stream
    BY <1>1 DEF RcvTest
  <2>2. rx \in {"over", "read"}
    BY Zenon
  <2> HIDE DEF rx
  <2>3. q \in ProcType /\ q.sent + q.written = proc[e].sent + proc[e].written /\ q.got = proc[e].got
    BY <1>0, <2>2 DEF ProcType
  <2> QED BY <2>1, <2>3, Quiet
<1>2. ASSUME NEW n \in 1..stream[Peer(e)], stream' = [stream EXCEPT ![Peer(e)] = @ - n],
             proc' = [proc EXCEPT ![e].rx = "test", ![e].got = @ + n]
      PROVE  PerfInv'
  <2> DEFINE q == [proc[e] EXCEPT !.rx = "test", !.got = @ + n]
  <2>1. n \in Nat /\ stream[Peer(e)] - n \in Nat /\ proc[e].got + n \in Nat
    BY <1>0, <1>2, Peers DEF ProcType, PerfInv, PerfTypes
  <2>2. q \in ProcType
    BY <1>0, <2>1 DEF ProcType
  <2>3. q.got = proc[e].got + n /\ q.sent = proc[e].sent /\ q.written = proc[e].written
    BY <1>0 DEF ProcType
  <2>4. proc' = [proc EXCEPT ![e] = q]
    BY <1>0, <1>2 DEF PerfInv, PerfTypes
  <2> HIDE DEF q
  <2>5. PerfTypes'
    BY <1>2, <2>1, <2>2, <2>4, Peers, ZenonT(60) DEF PerfInv, PerfTypes
  <2>6. PerfAgrees'
    BY <1>2, <2>1, <2>3, <2>4, Peers DEF PerfInv, PerfTypes, ProcType, PerfAgrees
  <2> QED BY <2>5, <2>6 DEF PerfInv
<1>3. ASSUME UNCHANGED stream, proc' = [proc EXCEPT ![e].rx = "test"]
      PROVE  PerfInv'
  <2> DEFINE q == [proc[e] EXCEPT !.rx = "test"]
  <2>1. q \in ProcType /\ q.sent + q.written = proc[e].sent + proc[e].written /\ q.got = proc[e].got
    BY <1>0 DEF ProcType
  <2>2. proc' = [proc EXCEPT ![e] = q]
    BY <1>3
  <2> QED BY <1>3, <2>1, <2>2, Quiet
<1> QED
  BY <1>1, <1>2, <1>3 DEF RcvThread, RcvRead
-----------------------------------------------------------------------------
\* PerfInv is an invariant: every step of the threads, the main program and the
\* handlers of an end keeps it.
THEOREM PerfInvariance == PerfSpec => []PerfInv
<1>1. PerfInv /\ [PerfNext]_perf => PerfInv'
  <2> SUFFICES ASSUME PerfInv, [PerfNext]_perf PROVE PerfInv'
    OBVIOUS
  <2>1. CASE UNCHANGED perf
    BY <2>1 DEF perf, PerfInv, PerfTypes, PerfAgrees
  <2>2. CASE PerfNext
    BY <2>2, MainSteps, SndSteps, RcvSteps, SignalSteps DEF PerfNext
  <2> QED BY <2>1, <2>2
<1> QED
  BY <1>1, PerfInitially, PTL DEF PerfSpec

\* What one end of the meter counts as sent is what the other end has read or
\* will find in the stream, whichever calls signals interrupt.
THEOREM MetersAgree == PerfSpec => []PerfAgrees
<1>1. PerfInv => PerfAgrees
  BY DEF PerfInv
<1> QED
  BY <1>1, PerfInvariance, PTL
============================================================================
