----------------------------- MODULE LineEditor -----------------------------
(* simple_apps/vi_style_input_test.c: an editor of MAX_LINE_NR lines, that *)
(* tells the terminal how to follow its buffer with escape sequences       *)
(* (screen_ops.h). The terminal is larger than the lines.                  *)
EXTENDS Naturals, SequencesExt

CONSTANTS MAX_LINE_NR, MAX_LINE_LEN, Char

Blank == " "
EditorAssumption == Blank \notin Char /\ MAX_LINE_NR \in Nat \ {0} /\ MAX_LINE_LEN \in Nat
ASSUME EditorAssumption

VARIABLES edit,   \* pc, need_exit, cur_line, cur_col and the lines
          term    \* the terminal: its text, its cursor, and its raw mode

lineEditor == <<edit, term>>
LineNr == 0..(MAX_LINE_NR - 1)
Column == 1..MAX_LINE_LEN
cur_line_len == Len(edit.lines[edit.cur_line])
-----------------------------------------------------------------------------
(* The terminal. A count of 0 in an escape sequence stands for 1.          *)
Count(n) == IF n = 0 THEN 1 ELSE n
Return(t) == [t EXCEPT !.col = 0]
MOVE_CURSOR_RIGHT(t, n) == [t EXCEPT !.col = @ + Count(n)]
MOVE_CURSOR_LEFT(t, n) == [t EXCEPT !.col = @ - Count(n)]
MOVE_CURSOR_UP(t, n) == [t EXCEPT !.row = @ - Count(n)]
MOVE_CURSOR_DOWN(t, n) == [t EXCEPT !.row = @ + Count(n)]
Put(t, s) ==
  [t EXCEPT !.text[t.row] = [c \in Column |-> IF c \in (t.col + 1)..(t.col + Len(s)) THEN s[c - t.col] ELSE @[c]],
            !.col = @ + Len(s)]
empty_line == [c \in Column |-> Blank]
\* printf("\r%s\r%s\r", empty_line, line), and back to the column
Redraw(t, line) == Return(Put(Return(Put(Return(t), empty_line)), line))
GoTo(t, col) == IF col > 0 THEN MOVE_CURSOR_RIGHT(t, col) ELSE t

insert_char(s, c, idx) == InsertAt(s, idx + 1, c)
delete_char(s, idx) == RemoveAt(s, idx + 1)
-----------------------------------------------------------------------------
\* Fault: the cursor is moved right by 0 columns on an empty line.
adjust_cursor_Always(t, line, col) ==
  IF col <= Len(edit.lines[line]) THEN t ELSE MOVE_CURSOR_RIGHT(Return(t), Len(edit.lines[line]))
adjust_cursor(t, line, col) ==
  IF col <= Len(edit.lines[line]) THEN t ELSE GoTo(Return(t), Len(edit.lines[line]))
Within(line, col) == IF col <= Len(edit.lines[line]) THEN col ELSE Len(edit.lines[line])

MoveTo(t, line) ==
  /\ edit' = [edit EXCEPT !.cur_line = line, !.cur_col = Within(line, @)]
  /\ term' = adjust_cursor(t, line, edit.cur_col)

move_cursor_up == edit.cur_line >= 1 /\ MoveTo(MOVE_CURSOR_UP(term, 1), edit.cur_line - 1)
move_cursor_down ==
  edit.cur_line < MAX_LINE_NR - 1 /\ MoveTo(MOVE_CURSOR_DOWN(term, 1), edit.cur_line + 1)

move_cursor_left ==
  /\ edit.cur_col > 0 /\ term' = MOVE_CURSOR_LEFT(term, 1)
  /\ edit' = [edit EXCEPT !.cur_col = @ - 1]
move_cursor_right ==
  /\ edit.cur_col < cur_line_len /\ term' = MOVE_CURSOR_RIGHT(term, 1)
  /\ edit' = [edit EXCEPT !.cur_col = @ + 1]

Change(line, col) ==
  /\ edit' = [edit EXCEPT !.lines[edit.cur_line] = line, !.cur_col = col]
  /\ term' = GoTo(Redraw(term, line), col)

backspace_proc ==
  edit.cur_col >= 1 /\ Change(delete_char(edit.lines[edit.cur_line], edit.cur_col - 1), edit.cur_col - 1)
delete_proc ==
  edit.cur_col < cur_line_len /\ Change(delete_char(edit.lines[edit.cur_line], edit.cur_col), edit.cur_col)
normal_key_input_proc ==
  /\ cur_line_len < MAX_LINE_LEN
  /\ \E c \in Char : Change(insert_char(edit.lines[edit.cur_line], c, edit.cur_col), edit.cur_col + 1)
-----------------------------------------------------------------------------
(* What one read returns. Alone, a key is one byte, or an escape sequence; *)
(* of more keys in one read only the first escape sequence counts, and     *)
(* anything else ends the program at once, in raw mode.                    *)
Reading == edit.pc = "loop" /\ ~edit.need_exit

virtual_key_input_proc ==
  Reading /\ (move_cursor_up \/ move_cursor_down \/ move_cursor_left \/ move_cursor_right \/ delete_proc)
special_key_input_proc ==
  /\ Reading
  /\ \/ edit' = [edit EXCEPT !.need_exit = TRUE] /\ UNCHANGED term
     \/ move_cursor_down \/ backspace_proc
OneCharacter == Reading /\ normal_key_input_proc
ReadsTwoKeys == Reading /\ edit' = [edit EXCEPT !.pc = "aborted"] /\ UNCHANGED term

sig_handler ==
  /\ edit.pc = "loop" /\ ~edit.need_exit /\ edit' = [edit EXCEPT !.need_exit = TRUE]
  /\ UNCHANGED term

(* main: the screen is pushed, the mode set, the signals caught and the    *)
(* screen cleared; a signal before they are caught kills the program.      *)
EditStarts ==
  /\ edit.pc = "start" /\ edit' = [edit EXCEPT !.pc = "raw"]
  /\ term' = [term EXCEPT !.raw = TRUE]
EditKilled ==
  edit.pc \in {"start", "raw"} /\ edit' = [edit EXCEPT !.pc = "killed"] /\ UNCHANGED term
EditShows ==
  /\ edit.pc = "raw" /\ edit' = [edit EXCEPT !.pc = "loop"]
  /\ term' = [term EXCEPT !.text = [l \in LineNr |-> empty_line], !.row = 0, !.col = 0]
EditEnds ==
  /\ edit.pc = "loop" /\ edit.need_exit /\ edit' = [edit EXCEPT !.pc = "done"]
  /\ term' = [term EXCEPT !.raw = FALSE]
-----------------------------------------------------------------------------
EditorInit ==
  /\ edit = [pc |-> "start", need_exit |-> FALSE, cur_line |-> 0, cur_col |-> 0, lines |-> [l \in LineNr |-> <<>>]]
  /\ term = [raw |-> FALSE, row |-> 0, col |-> 0, text |-> [l \in LineNr |-> empty_line]]

EditorNext ==
  \/ EditStarts \/ EditKilled \/ EditShows \/ EditEnds \/ sig_handler \/ OneCharacter \/ ReadsTwoKeys
  \/ virtual_key_input_proc \/ special_key_input_proc
-----------------------------------------------------------------------------
(* After any keys, the screen shows the lines as they are in the buffer,   *)
(* with the cursor where the next key takes effect, within the line; and   *)
(* the terminal is given back as it was, unless two keys came in one read, *)
(* or a signal came before the program catches or ignores it.              *)
EditorShows ==
  /\ edit.pc = "loop" =>
       /\ edit.cur_col <= cur_line_len /\ term.row = edit.cur_line /\ term.col = edit.cur_col
       /\ \A l \in LineNr : term.text[l] =
            [c \in Column |-> IF c <= Len(edit.lines[l]) THEN edit.lines[l][c] ELSE Blank]
  /\ edit.pc = "done" => ~term.raw
=============================================================================
