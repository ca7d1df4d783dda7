----------------------------- MODULE AudioModem -----------------------------
(* apps/data_in_audio: sends a file as sound, and receives it. Sound is a  *)
(* sequence of samples, of each of which only the tone is kept. A window's *)
(* tones are told apart by their powers, that is by the squares of their   *)
(* shares of it. The receiver starts somewhere, and its windows fall where *)
(* they fall. A byte is the set of the places of its bits that are 1.      *)
EXTENDS Naturals, SequencesExt

CONSTANTS BIT, CHECK,        \* samples of a bit, and of a window of the preamble
          BITS, STOP_BITS,   \* of a byte: data and stop bits
          BASE, Number,      \* how many bytes there are; the number each stands for
          SIZE_LEN,          \* bytes of the size
          SYNC_HI, SYNC_LO,  \* the two bytes of SYNC_WORD
          SILENCE, PREAMBLE, \* samples before the sound, and of the preamble
          Recordable, Starts,        \* files; where a receiver starts
          Cuts,                      \* samples that a call which fails has done before
          Breaks, Gaps, Losses,      \* where devices lose the pace: samples silent, gone
          MAX_TROUBLES               \* bounds how often something fails or is lost

Byte == SUBSET (0..(BITS - 1))

AudioAssumption ==
  /\ BIT \in Nat /\ BIT >= 2 /\ CHECK \in Nat \ {0}
  /\ BITS \in Nat \ {0} /\ STOP_BITS \in Nat \ {0} /\ SIZE_LEN \in Nat \ {0}
  /\ BASE \in Nat \ {0} /\ Number \in Bijection(Byte, 0..(BASE - 1))
  /\ SYNC_HI \in Byte /\ SYNC_LO \in Byte
  /\ SILENCE \in Nat /\ PREAMBLE \in Nat
  /\ Recordable \subseteq Seq(Byte) /\ Starts \subseteq Nat /\ MAX_TROUBLES \in Nat
  /\ Cuts \subseteq 0..((1 + BITS + STOP_BITS) * BIT)
  /\ Breaks \subseteq Nat /\ Gaps \subseteq Nat /\ Losses \subseteq Nat
ASSUME AudioAssumption

VARIABLES file, air,   \* what is sent, and the sound
          server,      \* server_mode: pc, the bytes sent
          receiver,    \* client_mode: pc, place in the sound, fsize, the file
          troubles     \* how often the sound has not been what was to be sent or read

audioModem == <<file, air, server, receiver, troubles>>
Tone(tone, samples) == [u \in 1..samples |-> tone]
Troubled == troubles < MAX_TROUBLES /\ troubles' = troubles + 1
-----------------------------------------------------------------------------
(* modulate_byte, and what is sent before the data.                        *)
Level(byte, bit) ==
  IF bit = 0 \/ (bit \in 1..BITS /\ bit - 1 \notin byte) THEN "space" ELSE "mark"
modulate_byte(byte) ==
  [u \in 1..((1 + BITS + STOP_BITS) * BIT) |-> Level(byte, (u - 1) \div BIT)]

(* The size, the byte of the most weight first; it is cut to SIZE_LEN.     *)
Power[k \in 0..SIZE_LEN] == IF k = 0 THEN 1 ELSE BASE * Power[k - 1]
SizeBytes(n) ==
  [i \in 1..SIZE_LEN |-> CHOOSE b \in Byte : Number[b] = (n \div Power[SIZE_LEN - i]) % BASE]
ToSend == <<SYNC_HI, SYNC_LO>> \o SizeBytes(Len(file)) \o file
IsData(i) == i > 2 + SIZE_LEN

(* The preamble's parts are one tone, shorter when one of them fails.      *)
Opens ==
  /\ server.pc = "start"
  /\ \/ /\ server' = [server EXCEPT !.pc = "plays"] /\ air' = air \o Tone("mark", PREAMBLE)
        /\ UNCHANGED troubles
     \/ /\ server' = [server EXCEPT !.pc = "plays"] /\ Troubled
        /\ \E played \in Cuts : air' = air \o Tone("mark", played)
     \/ server' = [server EXCEPT !.pc = "done"] /\ UNCHANGED <<air, troubles>>
  /\ UNCHANGED <<file, receiver>>

(* A failure ends it only when it is a data byte's.                        *)
server_mode ==
  /\ server.pc = "plays" /\ server.sent < Len(ToSend)
  /\ LET sound == modulate_byte(ToSend[server.sent + 1])
     IN  \/ /\ air' = air \o sound
            /\ server' = [server EXCEPT !.sent = @ + 1] /\ UNCHANGED troubles
         \/ /\ \E played \in Cuts : air' = air \o SubSeq(sound, 1, played)
            /\ server' = [server EXCEPT !.sent = @ + 1,
                                        !.pc = IF IsData(server.sent + 1) THEN "done" ELSE @]
            /\ Troubled
  /\ UNCHANGED <<file, receiver>>

Closes ==
  /\ server.pc = "plays" /\ server.sent = Len(ToSend)
  /\ server' = [server EXCEPT !.pc = "done"]
  /\ UNCHANGED <<file, air, receiver, troubles>>

(* What comes to be read: where the playing device ran dry there is        *)
(* silence, where the recording one ran over, samples are gone. audio_play *)
(* and audio_record prepare the device, go on, and return success.         *)
OutOfPace ==
  /\ server.pc = "done" /\ receiver.pc = "start" /\ Troubled
  /\ \E p \in Breaks, gap \in Gaps, lost \in Losses :
       /\ p + lost <= Len(air)
       /\ air' = SubSeq(air, 1, p) \o Tone("silence", gap) \o SubSeq(air, p + lost + 1, Len(air))
  /\ UNCHANGED <<file, server, receiver>>
-----------------------------------------------------------------------------
(* What goertzel_magnitude finds in a window; there is silence at the end. *)
Share(at, len, tone) == Cardinality({u \in (at + 1)..(at + len) : u <= Len(air) /\ air[u] = tone})
check_size == BIT \div 2
Louder(x, y, at, len) == Share(at, len, x) > Share(at, len, y)
\* Fault: any share of the start bit's tone is enough.
IsSpace_Any(at) == Share(at, check_size, "space") > 0
IsSpace(at) ==
  LET space == Share(at, check_size, "space")
      mark == Share(at, check_size, "mark")
  IN space * space > 2 * (mark * mark)

(* The first window, of those that begin at `at`, that has a start bit.    *)
Window(at, n) == at + n * check_size
StartBits(at) ==
  {Window(at, n) : n \in {n \in 0..Len(air) : /\ IsSpace(Window(at, n))
                                           /\ \A m \in 0..(n - 1) : ~IsSpace(Window(at, m))}}

(* After the window with the start bit. A failure of the read that skips   *)
(* the rest of that bit is not looked at.                                  *)
RestOfBit == BIT - check_size
FirstBit(s, skipped) == s + check_size + skipped
Demodulated(s, skipped) ==
  {i \in 0..(BITS - 1) : Louder("mark", "space", FirstBit(s, skipped) + i * BIT, BIT)}
Behind(s, skipped) == FirstBit(s, skipped) + BITS * BIT

(* demodulate_byte: waits for ever when there is no start bit to come.     *)
demodulate_byte ==
  {[byte |-> Demodulated(s, skipped), at |-> Behind(s, skipped), skipped |-> skipped] :
     s \in StartBits(receiver.at), skipped \in {RestOfBit} \cup {n \in Cuts : n < RestOfBit}}
Disturbs(b) == IF b.skipped = RestOfBit THEN UNCHANGED troubles ELSE Troubled
-----------------------------------------------------------------------------
(* client_mode, on all of the sound.                                       *)
Hears(pc) == server.pc = "done" /\ receiver.pc = pc /\ UNCHANGED <<file, air, server>>
Fails == receiver' = [receiver EXCEPT !.pc = "failed"] /\ UNCHANGED troubles

(* Of the threshold only that silence is below it, and a full window above. *)
wait_for_preamble ==
  /\ Hears("start")
  /\ \/ \E start \in Starts, n \in 0..Len(air) :
          LET at == start + n * CHECK
          IN  /\ Share(at, CHECK, "mark") > 0
              /\ \A k \in 0..(n - 1) : Share(start + k * CHECK, CHECK, "mark") < CHECK
              /\ receiver' = [receiver EXCEPT !.pc = "sync", !.at = at + CHECK,
                                              !.late = (at + CHECK > SILENCE + PREAMBLE)]
              /\ UNCHANGED troubles
     \/ Fails

(* The byte after a first one is not looked at as a first one. A failure   *)
(* here goes on to the size as if the word had been found.                 *)
SyncWord ==
  /\ Hears("sync")
  /\ \/ \E b \in demodulate_byte :
          /\ receiver' = [receiver EXCEPT !.pc = IF receiver.first /\ b.byte = SYNC_LO THEN "size" ELSE @,
                                          !.first = (~receiver.first /\ b.byte = SYNC_HI), !.at = b.at]
          /\ Disturbs(b)
     \/ receiver' = [receiver EXCEPT !.pc = "size"] /\ Troubled

SizeByte ==
  /\ Hears("size")
  /\ \/ \E b \in demodulate_byte :
          /\ receiver' = [receiver EXCEPT !.fsize = @ * BASE + Number[b.byte], !.n = @ + 1, !.at = b.at,
                                          !.pc = IF receiver.n + 1 = SIZE_LEN THEN "data" ELSE @]
          /\ Disturbs(b)
     \/ Fails

DataByte ==
  /\ Hears("data") /\ Len(receiver.file) < receiver.fsize
  /\ \/ \E b \in demodulate_byte :
          receiver' = [receiver EXCEPT !.file = Append(@, b.byte), !.at = b.at] /\ Disturbs(b)
     \/ Fails

Complete ==
  /\ Hears("data") /\ Len(receiver.file) = receiver.fsize
  /\ receiver' = [receiver EXCEPT !.pc = "complete"] /\ UNCHANGED troubles
-----------------------------------------------------------------------------
AudioInit ==
  /\ file \in Recordable /\ air = Tone("silence", SILENCE)
  /\ server = [pc |-> "start", sent |-> 0] /\ troubles = 0
  /\ receiver = [pc |-> "start", at |-> 0, first |-> FALSE, n |-> 0, fsize |-> 0, file |-> <<>>,
                 late |-> FALSE]

AudioNext ==
  \/ Opens \/ server_mode \/ Closes \/ OutOfPace
  \/ wait_for_preamble \/ SyncWord \/ SizeByte \/ DataByte \/ Complete
-----------------------------------------------------------------------------
(* Wherever the receiver's windows fall, whatever bytes the file has, the  *)
(* sync word's among them: a receiver that hears the preamble has received *)
(* the beginning of the file, in the end all of it, unless the sound was   *)
(* not what was sent. These cases go on unnoticed, with wrong bytes: a     *)
(* call of audio_play that failed (main.c:45,58,60,66), a device that ran  *)
(* dry or over (audio_io.c:52-54,68-70), and a failure to read that        *)
(* demodulator.c:66 or the wait for the sync word does not look at. A      *)
(* device that ran over while it waited for the preamble has the receiver  *)
(* start elsewhere.                                                        *)
AudioWhole ==
  (~receiver.late /\ troubles = 0 /\ Len(file) < Power[SIZE_LEN]) =>
    /\ IsPrefix(receiver.file, file)
    /\ receiver.pc = "complete" => receiver.file = file
=============================================================================
