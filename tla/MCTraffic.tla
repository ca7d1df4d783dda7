------------------------------ MODULE MCTraffic ------------------------------
(* The programs that talk over TCP and UDP, one in every behaviour.        *)
EXTENDS Echo, TcpPerf

VARIABLE program

\* both ends, one end, or none
MCRoles == {[client |-> TRUE, server |-> TRUE], [client |-> FALSE, server |-> TRUE],
            [client |-> FALSE, server |-> FALSE]}

NoProc == [e \in End |-> [main |-> "done", rx |-> "none", tx |-> "none", rcv_data |-> FALSE,
            snd_data |-> FALSE, need_exit |-> FALSE, alarm |-> "off", written |-> 0, sent |-> 0, got |-> 0]]

Init ==
  /\ program \in {"echo", "perf"} /\ EchoInit
  /\ IF program = "perf" THEN PerfInit ELSE proc = NoProc /\ stream = [e \in End |-> 0]
  /\ program = "perf" => ~udp /\ ~only_recv

Next ==
  \/ program = "echo" /\ EchoNext /\ UNCHANGED <<program, perf>>
  \/ program = "perf" /\ PerfNext /\ UNCHANGED <<program, echo>>

vars == <<program, echo, perf>>
\* The program that is not the chosen one has no step to take.
Spec == Init /\ [][Next]_vars /\ EchoFairness /\ PerfFairness
=============================================================================
