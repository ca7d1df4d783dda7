------------------------------ MODULE MCDevices ------------------------------
(* The programs and the kernel modules that do not talk to each other, one *)
(* in every behaviour; the others stay in their initial states.            *)
EXTENDS TapWriter, DropPackets, BlockDriver, DeviceModule, LineEditor, ShellLine, AudioModem

VARIABLE program
Programs == {"tap", "drop", "disk", "device", "editor", "shell", "audio"}

\* every command line with a value that divides the second, one that does not, and 0
MCOptions ==
  {o \in [opt : {"none", "interval", "frequency"}, value : {0, 1, 3, 5},
          max_speed : BOOLEAN, burst_num : {0, 2}] :
     /\ o.opt = "none" => o.value = 0
     /\ o.max_speed => o.opt = "none"}
MCFiles ==
  {[opens |-> FALSE, good |-> 0], [opens |-> TRUE, good |-> 1], [opens |-> TRUE, good |-> 3]}
MCAdmin == <<"a">>
MCQuit == <<"b">>
MCHi == {1}
MCLo == {0}
MCNumber == [b \in SUBSET {0, 1} |-> SumFunctionOnSet([i \in {0, 1} |-> 2 ^ i], b)]
\* all short files, the sync word in a longer one, and one whose size is cut
MCRecordable ==
  BoundedSeq(Byte, 1) \cup {<<{}, {0, 1}>>, <<{1}, {0}, {}>>, <<{0}, {1}, {0, 1}, {}>>}

Init ==
  /\ program \in Programs
  /\ TapInit /\ DropInit /\ BlockInit /\ DeviceInit /\ EditorInit /\ ShellLineInit /\ AudioInit
  /\ program # "tap" =>
       opts = [opt |-> "none", value |-> 0, max_speed |-> FALSE, burst_num |-> 0] /\ clock = SEC /\ ~dump.opens
  /\ program # "drop" => ~netpoll.config /\ ~dev.flag
  /\ program # "audio" => file = <<>>

Only(p, others) == program = p /\ UNCHANGED <<program, others>>
Next ==
  \/ Only("tap", <<dropPackets, blockDriver, deviceModule, lineEditor, shellLine, audioModem>>) /\ TapNext
  \/ Only("drop", <<tapWriter, blockDriver, deviceModule, lineEditor, shellLine, audioModem>>) /\ DropNext
  \/ Only("disk", <<tapWriter, dropPackets, deviceModule, lineEditor, shellLine, audioModem>>) /\ BlockNext
  \/ Only("device", <<tapWriter, dropPackets, blockDriver, lineEditor, shellLine, audioModem>>) /\ DeviceNext
  \/ Only("editor", <<tapWriter, dropPackets, blockDriver, deviceModule, shellLine, audioModem>>) /\ EditorNext
  \/ Only("shell", <<tapWriter, dropPackets, blockDriver, deviceModule, lineEditor, audioModem>>) /\ ShellLineNext
  \/ Only("audio", <<tapWriter, dropPackets, blockDriver, deviceModule, lineEditor, shellLine>>) /\ AudioNext

vars == <<program, tapWriter, dropPackets, blockDriver, deviceModule, lineEditor, shellLine, audioModem>>
Spec == Init /\ [][Next]_vars

(* The three kernel modules leave nothing behind that can still be called, *)
(* counted in or freed twice: see DropQuiet, DisksQuiet and DeviceQuiet.   *)
ModulesGoQuietly == DropQuiet /\ DisksQuiet /\ DeviceQuiet
=============================================================================
