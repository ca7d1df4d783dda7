------------------------------ MODULE ShellLine ------------------------------
(* The line that the debug shell reads (libs/app_utils/src/telnetd4dbg.c), *)
(* its history, and what it tells the user's terminal to show, whose lines *)
(* have room for all of shell_buf. A prompt is shown as one cell.          *)
EXTENDS Naturals, SequencesExt

CONSTANTS Printable,            \* characters, one of them Space
          Space, Admin, Quit,   \* of them; the user name; the command
          MAX_HISTORY_CMD_NUM,
          SHELL_BUF_LEN,        \* characters that shell_buf holds
          STAR_NUM              \* stars there are to show for a password

ShellLineAssumption ==
  /\ MAX_HISTORY_CMD_NUM \in Nat \ {0} /\ SHELL_BUF_LEN \in Nat \ {0} /\ STAR_NUM \in Nat
  /\ Space \in Printable
ASSUME ShellLineAssumption

VARIABLES shell,    \* where the thread reads, the line, and is_login, is_password
          history,  \* histotry_cmds, and cur_histotry_cmds_roll_idx
          display,  \* the terminal's last line and its column
          garbled   \* what lies behind the stars is on that line; display has stars for it

shellLine == <<shell, history, display, garbled>>
cur_histotry_cmds_num == Len(history.cmds)
Width == SHELL_BUF_LEN + 2
Clear == [cells |-> [c \in 1..Width |-> Space], col |-> 0]
-----------------------------------------------------------------------------
printf_to_fd(d, s) ==
  [cells |-> [c \in 1..Width |-> IF c \in (d.col + 1)..(d.col + Len(s)) THEN s[c - d.col] ELSE d.cells[c]],
   col |-> d.col + Len(s)]
CarriageReturn(d) == [d EXCEPT !.col = 0]
NewLine(s) == printf_to_fd(Clear, s)

(* The prompt that the flags choose, and the line as it may be seen.       *)
Prompt == IF ~shell.is_login THEN "hint" ELSE IF shell.is_password THEN "password:" ELSE "login:"
Seen(s) == IF shell.is_password THEN [i \in DOMAIN s |-> "*"] ELSE s

(* A refreshed password takes its stars from a string that may be shorter. *)
Strays(s) == shell.is_password /\ Len(s) > STAR_NUM
refresh_shell_buf_display(d, s) == printf_to_fd(CarriageReturn(d), <<Prompt>> \o Seen(s))

\* Fault: the line is not blanked before it is written again.
back_input_NotBlanked(d, len, s) == refresh_shell_buf_display(d, s)
\* s is what is left of shell_buf, of which len characters are shown
back_input(d, len, s) ==
  refresh_shell_buf_display(
    printf_to_fd(CarriageReturn(d), <<Prompt>> \o [i \in 1..len |-> Space]), s)

(* strcpy comes first, so that back_input shows the start of the command.  *)
Roll(idx) ==
  LET name == history.cmds[idx + 1]
      len == Len(shell.line)
      blanked == IF Len(name) < len THEN back_input(display, len, name) ELSE display
  IN  /\ shell' = [shell EXCEPT !.line = name]
      /\ history' = [history EXCEPT !.roll_idx = idx]
      /\ display' = refresh_shell_buf_display(blanked, name)
      /\ garbled' = (garbled \/ Strays(name))
-----------------------------------------------------------------------------
(* read_input, key by key.                                                 *)
Reads == shell.pc \in {"user", "password", "command"}
Full == Len(shell.line) = SHELL_BUF_LEN
Enter(pc) == shell.pc = pc /\ ~Full /\ garbled' = FALSE

ReadsKey(c) ==
  /\ Reads /\ ~Full
  /\ shell' = [shell EXCEPT !.line = Append(@, c)]
  /\ display' = printf_to_fd(display, Seen(<<c>>))
  /\ UNCHANGED <<history, garbled>>

(* A key, or the 0 that Enter writes, falls behind shell_buf: undefined.   *)
Overruns ==
  /\ Reads /\ Full
  /\ shell' = [shell EXCEPT !.pc = "overrun"]
  /\ UNCHANGED <<history, display, garbled>>

ReadsBackspace ==
  /\ Reads /\ shell.line # <<>>
  /\ shell' = [shell EXCEPT !.line = Front(@)]
  /\ display' = back_input(display, Len(shell.line), Front(shell.line))
  /\ garbled' = (garbled \/ Strays(Front(shell.line)))
  /\ UNCHANGED history

history_cmd_roll_prev ==
  /\ Reads /\ cur_histotry_cmds_num > 0 /\ history.roll_idx > 0
  /\ Roll(history.roll_idx - 1)

history_cmd_roll_next ==
  /\ Reads /\ cur_histotry_cmds_num > 0 /\ history.roll_idx < cur_histotry_cmds_num - 1
  /\ Roll(history.roll_idx + 1)
-----------------------------------------------------------------------------
(* the_shell_thread_func. The roll index is left from the last session.    *)
ShellBegins ==
  /\ shell.pc = "start" /\ garbled' = FALSE
  /\ shell' = [pc |-> "user", line |-> <<>>, user |-> <<>>, is_login |-> TRUE, is_password |-> FALSE]
  /\ history' = [history EXCEPT !.cmds = <<>>] /\ display' = NewLine(<<"login:">>)

(* login_auth; its test of the password looks at the user name again.      *)
UserGiven ==
  /\ Enter("user")
  /\ shell' = [shell EXCEPT !.pc = "password", !.user = shell.line, !.line = <<>>, !.is_password = TRUE]
  /\ display' = NewLine(<<"password:">>)
  /\ UNCHANGED history

PasswordGiven ==
  /\ Enter("password")
  /\ shell' = [shell EXCEPT !.line = <<>>, !.is_password = FALSE, !.is_login = (shell.user # Admin),
                            !.pc = IF shell.user = Admin THEN "command" ELSE "user"]
  /\ display' = NewLine(IF shell.user = Admin THEN <<"hint">> ELSE <<"login:">>)
  /\ UNCHANGED history

update_histotry_cmds(cmds, cmd) ==
  Append(IF Len(cmds) = MAX_HISTORY_CMD_NUM THEN Tail(cmds) ELSE cmds, cmd)
str_trim_all(s) == SelectSeq(s, LAMBDA c : c # Space)

CommandGiven ==
  /\ Enter("command")
  /\ shell' = [shell EXCEPT !.line = <<>>, !.pc = IF str_trim_all(shell.line) = Quit THEN "start" ELSE @]
  /\ IF shell.line = <<>> THEN UNCHANGED history
     ELSE LET cmds == update_histotry_cmds(history.cmds, shell.line)
          IN  history' = [cmds |-> cmds, roll_idx |-> Len(cmds)]
  /\ display' = NewLine(<<"hint">>)
-----------------------------------------------------------------------------
ShellLineInit ==
  /\ shell = [pc |-> "start", line |-> <<>>, user |-> <<>>, is_login |-> FALSE, is_password |-> FALSE]
  /\ history = [cmds |-> <<>>, roll_idx |-> 0] /\ display = Clear /\ garbled = FALSE

ShellLineNext ==
  \/ ShellBegins \/ UserGiven \/ PasswordGiven \/ CommandGiven
  \/ ReadsBackspace \/ history_cmd_roll_prev \/ history_cmd_roll_next
  \/ Overruns \/ \E c \in Printable : ReadsKey(c)
-----------------------------------------------------------------------------
(* After typing, erasing and rolling through the history, the line that    *)
(* the user sees is the line that will be run, nothing more of a longer    *)
(* one before it, with the cursor at its end; a password is never seen;    *)
(* and what the history recalls is there to be recalled. read_input does   *)
(* not look at the size of anything, so this ends where a line overruns    *)
(* shell_buf (telnetd4dbg.c:236,244); and a password that is longer than   *)
(* the string of stars (148) spoils its line as soon as it is corrected.   *)
ShellShows ==
  Reads =>
    /\ ~garbled => display = NewLine(<<Prompt>> \o Seen(shell.line))
    /\ (shell.pc = "password" => shell.is_password) /\ (shell.pc = "command" => ~shell.is_password)
    /\ cur_histotry_cmds_num > 0 =>
         cur_histotry_cmds_num <= MAX_HISTORY_CMD_NUM /\ history.roll_idx <= cur_histotry_cmds_num
=============================================================================
