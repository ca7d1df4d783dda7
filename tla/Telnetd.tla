------------------------------ MODULE Telnetd ------------------------------
(***************************************************************************)
(* The debug shell server libs/app_utils/src/telnetd4dbg.c: the misc       *)
(* thread, which accepts clients and relays data between the connection    *)
(* and a socket pair, and the shell thread of the one session there is,    *)
(* which reads lines from the socket pair, and runs them as commands with  *)
(* the standard streams of the whole process redirected to it.             *)
(*                                                                         *)
(* The threads share the flags shell_thread_should_exit and                *)
(* shell_quit_occurred, the descriptors of the session and, through        *)
(* dup2, the standard streams.  A client's input is a sequence of lines,   *)
(* each a member of LineKind; output is a number of blocks, each what one  *)
(* read of trans_data_pty2sock takes.                                      *)
(***************************************************************************)
EXTENDS Integers, Sequences

CONSTANTS
  Client,
  NoClient,   \* fd_conn = 0
  MAX_TYPED,  \* lines a client has on their way, in the connection and the socket pair
  PTY_BUF,    \* blocks of output that fill the socket pair
  Setup       \* the environments considered: subsets of Trouble

\* What a user, a command or the system may do to make things hard.
Trouble ==
  {"impatient",     \* hang up, log in anew or send urgent data while a login is in progress
   "much_output",   \* a command whose output fills the socket pair
   "escape",        \* an escape character without the two bytes of an arrow key
   "no_thread"}     \* pthread_create fails

LineKind == {"admin", "word", "quit", "escape"}

ASSUME TelnetdAssumption ==
  /\ NoClient \notin Client
  /\ MAX_TYPED \in Nat \ {0}
  /\ PTY_BUF \in Nat /\ PTY_BUF >= 2
  /\ Setup \subseteq SUBSET Trouble

VARIABLES
  setup,       \* the environment of this behaviour
  client,      \* for each client: "away", "connecting", "connected", "hungup"
  backlog,     \* the connections to be accepted
  typed,       \* the lines in the connection
  pty_in,      \* the lines in the socket pair
  pty_out,     \* the blocks of output in the socket pair
  cache,       \* pty2sock_cache holds a block
  fd_conn,     \* the client of the session
  stdio,       \* where descriptors 0 to 2 lead: "original" or "session"
  shell_thread_should_exit,
  shell_quit_occurred,
  misc,        \* where the misc thread is
  new_conn,    \* tmp_fd: the client whose session is to be made
  shell,       \* where the shell thread is; "none": there is no such thread
  shell_conn   \* the client of the session the shell thread was created for

wires == <<typed, pty_in, pty_out, cache>>
flags == <<shell_thread_should_exit, shell_quit_occurred>>
vars == <<setup, client, backlog, wires, fd_conn, stdio, flags, misc, new_conn,
          shell, shell_conn>>

Init ==
  /\ setup \in Setup
  /\ client = [c \in Client |-> "away"]
  /\ backlog = <<>>
  /\ typed = <<>> /\ pty_in = <<>>
  /\ pty_out = 0
  /\ cache = FALSE
  /\ fd_conn = NoClient
  /\ stdio = "original"
  /\ shell_thread_should_exit = FALSE
  /\ shell_quit_occurred = FALSE
  /\ misc = "select"
  /\ new_conn = NoClient
  /\ shell = "none"
  /\ shell_conn = NoClient

\* The shell thread has not yet redirected the standard streams.
LoginPc == {"intro", "user", "password", "password_wrong", "granted", "denied",
            "user_escape", "password_escape", "password_wrong_escape"}

-----------------------------------------------------------------------------
\* The misc thread.

\* Fault: the shell thread is not told to exit.
BeginTerm_NotTold(next) ==
  /\ stdio' = "original"
  /\ misc' = "term"
  /\ new_conn' = next
  /\ UNCHANGED shell_thread_should_exit

\* Fault: the standard streams stay with the session that ends.
BeginTerm_NotRestored(next) ==
  /\ shell_thread_should_exit' = TRUE
  /\ misc' = "term"
  /\ new_conn' = next
  /\ UNCHANGED stdio

\* term_session up to its wait for the shell thread, to be followed by a session for next.
BeginTerm(next) ==
  /\ stdio' = "original"
  /\ shell_thread_should_exit' = TRUE
  /\ misc' = "term"
  /\ new_conn' = next

\* Descriptors that select reports for the session.
ConnReadable == fd_conn # NoClient /\ (typed # <<>> \/ client[fd_conn] = "hungup")
PtyReadable == fd_conn # NoClient /\ pty_out > 0

\* accept.  A session there is has to end first.
Accept ==
  /\ misc = "select"
  /\ backlog # <<>>
  /\ backlog' = Tail(backlog)
  /\ client' = [client EXCEPT ![Head(backlog)] = IF @ = "hungup" THEN @ ELSE "connected"]
  /\ IF fd_conn = NoClient
     THEN /\ misc' = "make"
          /\ new_conn' = Head(backlog)
          /\ UNCHANGED <<stdio, shell_thread_should_exit>>
     ELSE BeginTerm(Head(backlog))
  /\ UNCHANGED <<setup, wires, fd_conn, shell_quit_occurred, shell, shell_conn>>

\* The shell thread has ended: noticed only when select has something to report.
NoticeQuit ==
  /\ misc = "select"
  /\ backlog = <<>>
  /\ ConnReadable \/ PtyReadable
  /\ shell_quit_occurred
  /\ BeginTerm(NoClient)
  /\ UNCHANGED <<setup, client, backlog, wires, fd_conn, shell_quit_occurred, shell,
                 shell_conn>>

\* trans_data_sock2pty: end of file.
NoticeHangup ==
  /\ misc = "select"
  /\ backlog = <<>>
  /\ ~shell_quit_occurred
  /\ ConnReadable /\ typed = <<>>
  /\ BeginTerm(NoClient)
  /\ UNCHANGED <<setup, client, backlog, wires, fd_conn, shell_quit_occurred, shell,
                 shell_conn>>

\* trans_data_sock2pty: data.  Output that select reported with it is relayed next.
RelayInput ==
  /\ misc = "select"
  /\ backlog = <<>>
  /\ ~shell_quit_occurred
  /\ ConnReadable /\ typed # <<>>
  /\ pty_in' = Append(pty_in, Head(typed))
  /\ typed' = Tail(typed)
  /\ misc' = IF PtyReadable \/ cache THEN "relay" ELSE "select"
  /\ UNCHANGED <<setup, client, backlog, pty_out, cache, fd_conn, stdio, flags,
                 new_conn, shell, shell_conn>>

\* Fault: a block is read although the cache still holds one and the pair may be empty.
RelayOutput_AlwaysReads ==
  /\ \/ misc = "relay"
     \/ /\ misc = "select" /\ backlog = <<>> /\ ~shell_quit_occurred
        /\ ~ConnReadable /\ PtyReadable
  /\ misc' = "select"
  /\ pty_out' = pty_out - 1
  /\ cache' \in BOOLEAN
  /\ UNCHANGED <<setup, client, backlog, typed, pty_in, fd_conn, stdio, flags, new_conn,
                 shell, shell_conn>>

\* trans_data_pty2sock: a block is read unless the cache still holds one, and stays there
\* if the client is slow and its connection takes no more.
RelayOutput ==
  /\ \/ misc = "relay"
     \/ /\ misc = "select" /\ backlog = <<>> /\ ~shell_quit_occurred
        /\ ~ConnReadable /\ PtyReadable
  /\ misc' = "select"
  /\ pty_out' = IF cache THEN pty_out ELSE pty_out - 1
  /\ cache' \in BOOLEAN
  /\ UNCHANGED <<setup, client, backlog, typed, pty_in, fd_conn, stdio, flags, new_conn,
                 shell, shell_conn>>

\* trans_data_pty2sock: the connection is broken, and the session ends.
RelayFails ==
  /\ misc = "relay" /\ client[fd_conn] = "hungup"
  /\ BeginTerm(NoClient)
  /\ pty_out' = IF cache THEN pty_out ELSE pty_out - 1
  /\ cache' = TRUE
  /\ UNCHANGED <<setup, client, backlog, typed, pty_in, fd_conn, shell_quit_occurred, shell,
                 shell_conn>>

\* What term_session does once it has seen shell_quit_occurred.
CloseSession ==
  /\ client' = [client EXCEPT ![fd_conn] = "away"]
  /\ typed' = <<>> /\ pty_in' = <<>>
  /\ pty_out' = 0
  /\ cache' = FALSE
  /\ fd_conn' = NoClient
  /\ misc' = IF new_conn = NoClient THEN "select" ELSE "make"

\* Fault: the flag is left for the next session.
EndTerm_NoReset ==
  /\ misc = "term"
  /\ shell_quit_occurred
  /\ CloseSession
  /\ UNCHANGED <<setup, backlog, stdio, flags, new_conn, shell, shell_conn>>

\* Fault: the shell thread is not waited for.
EndTerm_NoWait ==
  /\ misc = "term"
  /\ CloseSession
  /\ shell_quit_occurred' = FALSE
  /\ UNCHANGED <<setup, backlog, stdio, shell_thread_should_exit, new_conn, shell, shell_conn>>

\* The rest of term_session.
EndTerm ==
  /\ misc = "term"
  /\ shell_quit_occurred
  /\ CloseSession
  /\ shell_quit_occurred' = FALSE
  /\ UNCHANGED <<setup, backlog, stdio, shell_thread_should_exit, new_conn, shell, shell_conn>>

\* make_new_session.
MakeSession ==
  /\ misc = "make"
  /\ fd_conn' = new_conn
  /\ shell_thread_should_exit' = FALSE
  /\ \/ shell' = "intro" /\ shell_conn' = new_conn
     \/ "no_thread" \in setup /\ UNCHANGED <<shell, shell_conn>>
  /\ misc' = "select"
  /\ new_conn' = NoClient
  /\ UNCHANGED <<setup, client, backlog, wires, stdio, shell_quit_occurred>>

\* There is no socket pair for it: the connection is closed.
MakeSessionFails ==
  /\ misc = "make"
  /\ client' = [client EXCEPT ![new_conn] = "away"]
  /\ misc' = "select"
  /\ new_conn' = NoClient
  /\ UNCHANGED <<setup, backlog, wires, fd_conn, stdio, flags, shell, shell_conn>>

misc_thread ==
  \/ Accept \/ NoticeQuit \/ NoticeHangup \/ RelayInput \/ RelayOutput \/ RelayFails
  \/ EndTerm \/ MakeSession \/ MakeSessionFails

-----------------------------------------------------------------------------
\* The shell thread.

ShellGoto(from, to) == shell = from /\ shell' = to

\* printf_to_fd(fd_pty_slave) of a prompt: it waits while the socket pair is full, and goes
\* to the block that is there.
Write == pty_out < PTY_BUF /\ pty_out' = IF pty_out = 0 THEN 1 ELSE pty_out

\* read_input returns 1: a line, of one of the kinds.
Read(kinds) ==
  /\ pty_in # <<>>
  /\ Head(pty_in) \in kinds
  /\ pty_in' = Tail(pty_in)

Others == <<setup, client, backlog, typed, cache, fd_conn, misc, new_conn, shell_conn,
            shell_thread_should_exit>>

\* print_intro and, again after a wrong login, the prompt of login_auth.
Intro ==
  /\ ShellGoto("intro", "user") \/ ShellGoto("denied", "user")
  /\ Write
  /\ UNCHANGED <<Others, pty_in, stdio, shell_quit_occurred>>

\* login_auth.  It reads again when read_input times out, whatever
\* shell_thread_should_exit says; the user's name is all that it looks at.
ReadUser ==
  /\ \/ ShellGoto("user", "password") /\ Read({"admin"})
     \/ ShellGoto("user", "password_wrong") /\ Read({"word", "quit"})
  /\ UNCHANGED <<Others, pty_out, stdio, shell_quit_occurred>>

ReadPassword ==
  /\ ShellGoto("password", "granted") \/ ShellGoto("password_wrong", "denied")
  /\ Read(LineKind \ {"escape"})
  /\ UNCHANGED <<Others, pty_out, stdio, shell_quit_occurred>>

\* Where read_input is called, and where it waits for the two bytes after an escape, without
\* a timeout and whatever shell_thread_should_exit says.
Escapes == [user |-> "user_escape", password |-> "password_escape",
            password_wrong |-> "password_wrong_escape", reading |-> "reading_escape"]

ReadEscape ==
  /\ \E place \in DOMAIN Escapes : ShellGoto(place, Escapes[place])
  /\ Read({"escape"})
  /\ UNCHANGED <<Others, pty_out, stdio, shell_quit_occurred>>

\* The next line's first two bytes are taken for them, and what is left of it is read again.
EscapeRead ==
  /\ \E place \in DOMAIN Escapes : ShellGoto(Escapes[place], place)
  /\ pty_in # <<>>
  /\ \/ pty_in' = Tail(pty_in)
     \/ \E kind \in LineKind : pty_in' = <<kind>> \o Tail(pty_in)
  /\ UNCHANGED <<Others, pty_out, stdio, shell_quit_occurred>>

\* redirect_io.
RedirectIo ==
  /\ ShellGoto("granted", "prompt")
  /\ stdio' = "session"
  /\ UNCHANGED <<Others, pty_in, pty_out, shell_quit_occurred>>

\* print_hint, with the echo of what was read.
Prompt ==
  /\ ShellGoto("prompt", "loop")
  /\ Write
  /\ UNCHANGED <<Others, pty_in, stdio, shell_quit_occurred>>

\* The loop of the_shell_thread_func looks at shell_thread_should_exit ...
LoopTest ==
  /\ ShellGoto("loop", IF shell_thread_should_exit THEN "exit" ELSE "reading")
  /\ UNCHANGED <<Others, pty_in, pty_out, stdio, shell_quit_occurred>>

\* ... and reads for a while.
ReadTimeout ==
  /\ ShellGoto("reading", "loop")
  /\ pty_in = <<>>
  /\ UNCHANGED <<Others, pty_in, pty_out, stdio, shell_quit_occurred>>

ReadCommand ==
  /\ \/ ShellGoto("reading", "command") /\ Read({"admin", "word"})
     \/ ShellGoto("reading", "exit") /\ Read({"quit"})
  /\ UNCHANGED <<Others, pty_out, stdio, shell_quit_occurred>>

\* proccess_cmd writes to descriptor 1, another block, and is inside of write while the
\* socket pair is full.  What it writes to the original streams is of no interest here.
CommandWrites ==
  /\ "much_output" \in setup
  /\ stdio = "session"
  /\ \/ ShellGoto("command", "command") /\ pty_out < PTY_BUF /\ pty_out' = pty_out + 1
     \/ ShellGoto("command", "writing") /\ pty_out = PTY_BUF /\ UNCHANGED pty_out
  /\ UNCHANGED <<Others, pty_in, stdio, shell_quit_occurred>>

CommandWrote ==
  /\ ShellGoto("writing", "command")
  /\ pty_out < PTY_BUF
  /\ pty_out' = pty_out + 1
  /\ UNCHANGED <<Others, pty_in, stdio, shell_quit_occurred>>

CommandEnds ==
  /\ ShellGoto("command", "prompt")
  /\ UNCHANGED <<Others, pty_in, pty_out, stdio, shell_quit_occurred>>

\* The last thing the thread does.
Quit ==
  /\ ShellGoto("exit", "none")
  /\ shell_quit_occurred' = TRUE
  /\ UNCHANGED <<Others, pty_in, pty_out, stdio>>

the_shell_thread ==
  \/ Intro \/ ReadUser \/ ReadPassword \/ ReadEscape \/ EscapeRead \/ RedirectIo \/ Prompt
  \/ LoopTest \/ ReadTimeout \/ ReadCommand \/ CommandWrites \/ CommandWrote \/ CommandEnds \/ Quit

-----------------------------------------------------------------------------
\* The clients.

\* Nobody is logging in, or about to.
NoLogin == shell \notin LoginPc /\ backlog = <<>> /\ misc = "select"

Connect(c) ==
  /\ client[c] = "away"
  /\ "impatient" \in setup \/ NoLogin
  /\ client' = [client EXCEPT ![c] = "connecting"]
  /\ backlog' = Append(backlog, c)
  /\ UNCHANGED <<setup, wires, fd_conn, stdio, flags, misc, new_conn, shell, shell_conn>>

HangUp(c) ==
  /\ client[c] \in {"connecting", "connected"}
  /\ "impatient" \in setup \/ NoLogin
  /\ client' = [client EXCEPT ![c] = "hungup"]
  /\ UNCHANGED <<setup, backlog, wires, fd_conn, stdio, flags, misc, new_conn, shell, shell_conn>>

TypeLine(c) ==
  /\ fd_conn = c /\ client[c] = "connected"
  /\ Len(typed) + Len(pty_in) < MAX_TYPED
  /\ \E kind \in LineKind :
       /\ kind = "escape" => "escape" \in setup
       /\ typed' = Append(typed, kind)
  /\ UNCHANGED <<setup, client, backlog, pty_in, pty_out, cache, fd_conn, stdio, flags,
                 misc, new_conn, shell, shell_conn>>

\* Urgent data is an exceptional condition of the connection, and select reports it: the
\* session ends.
SendUrgent(c) ==
  /\ fd_conn = c /\ client[c] = "connected"
  /\ misc = "select" /\ backlog = <<>>
  /\ "impatient" \in setup \/ NoLogin
  /\ BeginTerm(NoClient)
  /\ UNCHANGED <<setup, client, backlog, wires, fd_conn, shell_quit_occurred, shell,
                 shell_conn>>

Clients == \E c \in Client : Connect(c) \/ HangUp(c) \/ TypeLine(c) \/ SendUrgent(c)

-----------------------------------------------------------------------------
Next == misc_thread \/ the_shell_thread \/ Clients

\* Both threads are scheduled, and a command ends; clients do as they like.
Spec == Init /\ [][Next]_vars /\ WF_vars(misc_thread) /\ WF_vars(the_shell_thread)
             /\ WF_vars(CommandEnds)

-----------------------------------------------------------------------------
\* Properties.

\* The types of the variables: neither end of the socket pair takes what is not there.
TypeOK ==
  /\ setup \in Setup
  /\ client \in [Client -> {"away", "connecting", "connected", "hungup"}]
  /\ backlog \in Seq(Client)
  /\ typed \in Seq(LineKind) /\ pty_in \in Seq(LineKind)
  /\ Len(typed) + Len(pty_in) <= MAX_TYPED
  /\ pty_out \in 0 .. PTY_BUF
  /\ cache \in BOOLEAN
  /\ fd_conn \in Client \cup {NoClient} /\ new_conn \in Client \cup {NoClient}
  /\ shell_conn \in Client \cup {NoClient}
  /\ stdio \in {"original", "session"}
  /\ shell_thread_should_exit \in BOOLEAN /\ shell_quit_occurred \in BOOLEAN
  /\ misc \in {"select", "relay", "term", "make"}
  /\ shell \in LoginPc \cup {"none", "prompt", "loop", "reading", "reading_escape", "command",
                            "writing", "exit"}

\* The shell thread works on the session it was created for, and there is one of it at a
\* time: the descriptors it reads and writes are not closed, nor another session's.
ShellOwnsSession ==
  shell # "none" => /\ fd_conn = shell_conn
                    /\ misc # "make"

\* shell_quit_occurred is said of the session there is, by a thread that is gone: it
\* never makes term_session pull down a later one.
QuitIsOfSession == shell_quit_occurred => shell = "none" /\ fd_conn = shell_conn

\* Between two sessions the standard streams of the process are its own again, provided
\* that nobody ends or replaces the session during a login: between login_auth and
\* redirect_io, restoring them comes too early.
StreamsRestored ==
  fd_conn = NoClient /\ "impatient" \notin setup => stdio = "original"

\* A client that connects is accepted and the session before its own shut down, provided
\* that the shell thread cannot be held up by a login, an unfinished escape sequence or
\* a full socket pair, and exists.
LoginServed(c) == (client[c] = "connecting") ~> (client[c] # "connecting" /\ misc # "term")
EveryLoginServed == [](setup = {}) => \A c \in Client : LoginServed(c)

\* "A new login happens, so we shutdown your session...": the session it is said to ends.
NewLoginShutsDown == (misc = "term") ~> (misc # "term")
=============================================================================
