------------------------------ MODULE TapWriter ------------------------------
(* misc/tap_writer.c: sends the packets of a file to a tap interface, once *)
(* in every interval of the wall clock, from a thread, until SIGINT or     *)
(* after burst_num rounds. A second has SEC ticks (1000000 us).            *)
EXTENDS Integers

CONSTANTS SEC, MAX_PACKET_NUM,
          Options,              \* command lines
          Files,                \* what pcap reads
          MAX_TICKS, MAX_ROUNDS \* bounds of the clock and of the rounds

TapAssumption ==
  /\ SEC \in Nat \ {0} /\ MAX_PACKET_NUM \in Nat /\ MAX_TICKS \in Nat /\ MAX_ROUNDS \in Nat
  /\ Options \subseteq [opt : {"none", "interval", "frequency"}, value : Int, max_speed : BOOLEAN,
                        burst_num : Int]
  /\ Files \subseteq [opens : BOOLEAN, good : Nat]
ASSUME TapAssumption

VARIABLES opts, dump,           \* the command line and the file
          clock,                \* the wall clock, in ticks
          tap,                  \* g_pkts_num, main's and the thread's place
          sender,               \* next_snd_tv, the rounds and the packets
          began                 \* when the thread began, for the properties

tapWriter == <<opts, dump, clock, tap, sender, began>>
Timeval(t) == [sec |-> t \div SEC, usec |-> t % SEC]
Ticks(tv) == tv.sec * SEC + tv.usec
-----------------------------------------------------------------------------
(* parse_and_check_args: each option sets the other's value by a division. *)
Divides(o) == o.opt = "none" \/ o.value # 0
snd_interval(o) ==
  CASE o.opt = "none" -> SEC [] o.opt = "interval" -> o.value [] OTHER -> SEC \div o.value
frequency(o) ==
  CASE o.opt = "none" -> 1 [] o.opt = "interval" -> SEC \div o.value [] OTHER -> o.value
check_args(o) == o.max_speed \/ (snd_interval(o) > 0 /\ frequency(o) > 0)

(* load_from_dump_file stops at a packet that is too long, which is not a  *)
(* failure for the caller, and at MAX_PACKET_NUM.                          *)
load_from_dump_file(f) == IF f.good < MAX_PACKET_NUM THEN f.good ELSE MAX_PACKET_NUM

\* Fault: the seconds are not compared.
time_a_smaller_than_b_Usec(a, b) == a.usec < b.usec
time_a_smaller_than_b(a, b) == a.sec < b.sec \/ (a.sec = b.sec /\ a.usec < b.usec)

time_a_between_b2(a, b) ==
  IF b.usec < a.usec THEN [sec |-> b.sec - 1 - a.sec, usec |-> b.usec + SEC - a.usec]
  ELSE [sec |-> b.sec - a.sec, usec |-> b.usec - a.usec]

Advance(tv, n) == [sec |-> tv.sec + (tv.usec + n) \div SEC, usec |-> (tv.usec + n) % SEC]
-----------------------------------------------------------------------------
(* main up to the key that starts the thread.                              *)
Prepare ==
  /\ tap.main = "args"
  /\ \E got_tap \in BOOLEAN :
       tap' = [tap EXCEPT !.main =
                 CASE ~Divides(opts) -> "crashed"
                   [] Divides(opts) /\ ~check_args(opts) -> "quit"
                   [] OTHER -> IF got_tap /\ dump.opens THEN "key" ELSE "quit",
               !.pkts = load_from_dump_file(dump)]
  /\ UNCHANGED <<opts, dump, clock, sender, began>>

(* The result of pthread_create is not looked at.                          *)
CreateThread ==
  /\ tap.main = "key"
  /\ \E pc \in {"start", "none"} : tap' = [tap EXCEPT !.main = "created", !.sending = TRUE, !.pc = pc]
  /\ UNCHANGED <<opts, dump, clock, sender, began>>

register_sig_act ==
  /\ tap.main = "created" /\ tap' = [tap EXCEPT !.main = "show"]
  /\ UNCHANGED <<opts, dump, clock, sender, began>>

ShowEnds ==
  /\ tap.main = "show" /\ ~tap.sending /\ tap' = [tap EXCEPT !.main = "quit"]
  /\ UNCHANGED <<opts, dump, clock, sender, began>>

my_sig_handler ==
  /\ tap.main \in {"key", "created", "show"} /\ ~tap.need_stop
  /\ tap' = IF tap.main = "show" THEN [tap EXCEPT !.need_stop = TRUE] ELSE [tap EXCEPT !.main = "quit"]
  /\ UNCHANGED <<opts, dump, clock, sender, began>>
-----------------------------------------------------------------------------
(* send_pkt.                                                               *)
Alive == tap.main \in {"created", "show"}

SendStarts ==
  /\ Alive /\ tap.pc = "start"
  /\ tap' = [tap EXCEPT !.pc = "test"]
  /\ sender' = [sender EXCEPT !.next = Timeval(clock)] /\ began' = clock
  /\ UNCHANGED <<opts, dump, clock>>

SendStops ==
  /\ Alive /\ tap.pc \in {"test", "wait"} /\ tap.need_stop
  /\ tap' = [tap EXCEPT !.pc = "exit"]
  /\ UNCHANGED <<opts, dump, clock, sender, began>>

SendWaits ==
  /\ Alive /\ tap.pc = "test" /\ ~tap.need_stop /\ ~opts.max_speed
  /\ tap' = [tap EXCEPT !.pc = "wait"]
  /\ UNCHANGED <<opts, dump, clock, sender, began>>

(* A round is due: at full speed at once, else when the clock has come to  *)
(* next_snd_tv. What the clock shows is kept for the summary.              *)
SendDue ==
  /\ Alive /\ ~tap.need_stop /\ sender.rounds < MAX_ROUNDS
  /\ \/ tap.pc = "test" /\ opts.max_speed
     \/ tap.pc = "wait" /\ ~time_a_smaller_than_b(Timeval(clock), sender.next)
  /\ tap' = [tap EXCEPT !.pc = "write"]
  /\ sender' = [sender EXCEPT !.last = Timeval(clock),
                              !.first = IF @.sec = 0 THEN Timeval(clock) ELSE @]
  /\ UNCHANGED <<opts, dump, clock, began>>

SendWrites ==
  /\ Alive /\ tap.pc = "write" /\ sender.i < tap.pkts
  /\ sender' \in {[sender EXCEPT !.i = @ + 1, !.total = @ + 1], [sender EXCEPT !.i = @ + 1, !.fail = @ + 1]}
  /\ UNCHANGED <<opts, dump, clock, tap, began>>

\* Fault: one round too many.
BurstIsOver_Beyond(rounds) == opts.burst_num > 0 /\ rounds > opts.burst_num
BurstIsOver(rounds) == opts.burst_num > 0 /\ rounds >= opts.burst_num

SendRoundEnds ==
  /\ Alive /\ tap.pc = "write" /\ sender.i = tap.pkts
  /\ LET over == BurstIsOver(sender.rounds + 1)
     IN  /\ tap' = [tap EXCEPT !.pc = IF over THEN "exit" ELSE "test"]
         /\ sender' = [sender EXCEPT !.i = 0, !.rounds = @ + 1,
                         !.next = IF over \/ opts.max_speed THEN @ ELSE Advance(@, snd_interval(opts))]
  /\ UNCHANGED <<opts, dump, clock, began>>

(* report_snd_summary divides by the time between first and last round.    *)
SendExits ==
  /\ Alive /\ tap.pc = "exit"
  /\ tap' = IF Ticks(time_a_between_b2(sender.first, sender.last)) = 0
            THEN [tap EXCEPT !.main = "crashed"]
            ELSE [tap EXCEPT !.pc = "over", !.sending = FALSE]
  /\ UNCHANGED <<opts, dump, clock, sender, began>>

ClockTicks ==
  /\ clock < MAX_TICKS /\ clock' = clock + 1
  /\ UNCHANGED <<opts, dump, tap, sender, began>>
-----------------------------------------------------------------------------
TapInit ==
  /\ opts \in Options /\ dump \in Files /\ clock \in SEC..(2 * SEC - 1) /\ began = 0
  /\ tap = [main |-> "args", pc |-> "none", pkts |-> 0, need_stop |-> FALSE, sending |-> FALSE]
  /\ sender = [next |-> Timeval(0), first |-> Timeval(0), last |-> Timeval(0),
               i |-> 0, rounds |-> 0, total |-> 0, fail |-> 0]

TapNext ==
  \/ Prepare \/ CreateThread \/ register_sig_act \/ ShowEnds \/ my_sig_handler
  \/ SendStarts \/ SendStops \/ SendWaits \/ SendDue \/ SendWrites \/ SendRoundEnds \/ SendExits
  \/ ClockTicks
-----------------------------------------------------------------------------
Begun == sender.rounds + (IF tap.pc = "write" THEN 1 ELSE 0)

(* Whatever delays the thread and wherever the second ends, the schedule   *)
(* does not drift (it falls on multiples of the interval after the start), *)
(* and the rounds never run ahead of it, catching up included.             *)
TapPaced ==
  (began > 0 /\ ~opts.max_speed) =>
    /\ sender.next.usec < SEC
    /\ tap.pc \in {"test", "wait", "write"} =>
         Ticks(sender.next) = began + sender.rounds * snd_interval(opts)
    /\ Begun <= (clock - began) \div snd_interval(opts) + 1

(* SIGINT never cuts a round: every packet of the file is sent, or counted *)
(* as failed, as often as any other, and burst_num times in the end unless *)
(* SIGINT has ended the thread.                                            *)
TapRounds ==
  /\ sender.total + sender.fail = sender.rounds * tap.pkts + sender.i
  /\ tap.pc \notin {"exit", "over"} => ~BurstIsOver(sender.rounds)
  /\ (tap.pc \in {"exit", "over"} /\ ~tap.need_stop) =>
       opts.burst_num > 0 /\ sender.rounds = opts.burst_num

(* Both: every due round is sent, whole, and no other.                     *)
TapSends == TapPaced /\ TapRounds
=============================================================================
