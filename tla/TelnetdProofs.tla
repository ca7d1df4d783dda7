--------------------------- MODULE TelnetdProofs ---------------------------
(***************************************************************************)
(* Telnetd for any number of clients and lengths of the buffers: the       *)
(* session and its shell thread, and the standard streams.                 *)
(***************************************************************************)
EXTENDS Telnetd, TLAPS

\* A shell thread has a session, and a session is pulled down, or one made, only without a
\* thread that could still say it has quit.
Session ==
  /\ misc = "relay" => pty_out > 0 \/ cache
  /\ misc = "make" => new_conn # NoClient
  /\ misc \in {"term", "relay"} => fd_conn # NoClient
  /\ misc = "make" => fd_conn = NoClient
  /\ fd_conn = NoClient => shell = "none" /\ ~shell_quit_occurred
  /\ shell # "none" => fd_conn = shell_conn
  /\ shell_quit_occurred => shell = "none" /\ fd_conn = shell_conn

\* Who is patient connects when nobody else does, and does not end the session during a login.
Waiting == \E c \in Client : backlog = <<c>> /\ client[c] = "connecting"
Patient ==
  /\ backlog # <<>> => Waiting /\ misc = "select" /\ shell \notin LoginPc
  /\ fd_conn # NoClient => client[fd_conn] \in {"connected", "hungup"}
  /\ new_conn # NoClient =>
       client[new_conn] = "connected" /\ new_conn # fd_conn /\ misc \in {"term", "make"}
  /\ shell \in LoginPc => client[fd_conn] = "connected" /\ misc \in {"select", "relay"}
  /\ misc = "term" \/ fd_conn = NoClient => stdio = "original"

TelnetInv == TypeOK /\ Session /\ ("impatient" \notin setup => Patient)

-----------------------------------------------------------------------------
LEMMA AcceptStep == ASSUME TelnetInv, Accept PROVE TelnetInv'
<1>s. /\ Head(backlog) \in Client /\ Tail(backlog) \in Seq(Client)
      /\ \A d \in Client : backlog = <<d>> => Head(backlog) = d /\ Tail(backlog) = <<>>
  <2>1. backlog \in Seq(Client) /\ backlog # <<>> BY DEF TelnetInv, TypeOK, Accept
  <2>2. Head(backlog) \in Client /\ Tail(backlog) \in Seq(Client) BY <2>1
  <2>3. \A d \in Client : Head(<<d>>) = d /\ Tail(<<d>>) = <<>> OBVIOUS
  <2> QED BY <2>2, <2>3
<1>1. TypeOK' BY <1>s, TelnetdAssumption DEF TelnetInv, TypeOK, Session, Accept, ConnReadable, PtyReadable, BeginTerm, CloseSession, wires, flags, LoginPc
<1>2. Session' BY <1>s, TelnetdAssumption DEF TelnetInv, TypeOK, Session, Accept, ConnReadable, PtyReadable, BeginTerm, CloseSession, wires, flags, LoginPc
<1>3. ASSUME "impatient" \notin setup' PROVE Patient'
  BY <1>s, <1>3, TelnetdAssumption DEF TelnetInv, TypeOK, Session, Patient, Waiting, Accept, ConnReadable, PtyReadable, BeginTerm, CloseSession, wires, flags, LoginPc
<1> QED BY <1>1, <1>2, <1>3 DEF TelnetInv

LEMMA NoticeQuitStep == ASSUME TelnetInv, NoticeQuit PROVE TelnetInv'
<1>1. TypeOK' BY TelnetdAssumption DEF TelnetInv, TypeOK, Session, NoticeQuit, ConnReadable, PtyReadable, BeginTerm, CloseSession, wires, flags, LoginPc
<1>2. Session' BY TelnetdAssumption DEF TelnetInv, TypeOK, Session, NoticeQuit, ConnReadable, PtyReadable, BeginTerm, CloseSession, wires, flags, LoginPc
<1>3. ASSUME "impatient" \notin setup' PROVE Patient'
  BY <1>3, TelnetdAssumption DEF TelnetInv, TypeOK, Session, Patient, Waiting, NoticeQuit, ConnReadable, PtyReadable, BeginTerm, CloseSession, wires, flags, LoginPc
<1> QED BY <1>1, <1>2, <1>3 DEF TelnetInv

LEMMA NoticeHangupStep == ASSUME TelnetInv, NoticeHangup PROVE TelnetInv'
<1>1. TypeOK' BY TelnetdAssumption DEF TelnetInv, TypeOK, Session, NoticeHangup, ConnReadable, PtyReadable, BeginTerm, CloseSession, wires, flags, LoginPc
<1>2. Session' BY TelnetdAssumption DEF TelnetInv, TypeOK, Session, NoticeHangup, ConnReadable, PtyReadable, BeginTerm, CloseSession, wires, flags, LoginPc
<1>3. ASSUME "impatient" \notin setup' PROVE Patient'
  BY <1>3, TelnetdAssumption DEF TelnetInv, TypeOK, Session, Patient, Waiting, NoticeHangup, ConnReadable, PtyReadable, BeginTerm, CloseSession, wires, flags, LoginPc
<1> QED BY <1>1, <1>2, <1>3 DEF TelnetInv

LEMMA RelayInputStep == ASSUME TelnetInv, RelayInput PROVE TelnetInv'
<1>s. /\ Append(pty_in, Head(typed)) \in Seq(LineKind) /\ Tail(typed) \in Seq(LineKind)
      /\ Len(Append(pty_in, Head(typed))) = Len(pty_in) + 1 /\ Len(Tail(typed)) = Len(typed) - 1
      /\ Len(typed) \in Nat /\ Len(pty_in) \in Nat
  <2>1. typed \in Seq(LineKind) /\ pty_in \in Seq(LineKind) /\ typed # <<>>
    BY DEF TelnetInv, TypeOK, RelayInput
  <2> QED BY <2>1
<1>1. TypeOK' BY <1>s, TelnetdAssumption DEF TelnetInv, TypeOK, Session, RelayInput, ConnReadable, PtyReadable, BeginTerm, CloseSession, wires, flags, LoginPc
<1>2. Session' BY <1>s, TelnetdAssumption DEF TelnetInv, TypeOK, Session, RelayInput, ConnReadable, PtyReadable, BeginTerm, CloseSession, wires, flags, LoginPc
<1>3. ASSUME "impatient" \notin setup' PROVE Patient'
  BY <1>s, <1>3, TelnetdAssumption DEF TelnetInv, TypeOK, Session, Patient, Waiting, RelayInput, ConnReadable, PtyReadable, BeginTerm, CloseSession, wires, flags, LoginPc
<1> QED BY <1>1, <1>2, <1>3 DEF TelnetInv

LEMMA RelayOutputStep == ASSUME TelnetInv, RelayOutput PROVE TelnetInv'
<1>1. TypeOK' BY TelnetdAssumption DEF TelnetInv, TypeOK, Session, RelayOutput, ConnReadable, PtyReadable, BeginTerm, CloseSession, wires, flags, LoginPc
<1>2. Session' BY TelnetdAssumption DEF TelnetInv, TypeOK, Session, RelayOutput, ConnReadable, PtyReadable, BeginTerm, CloseSession, wires, flags, LoginPc
<1>3. ASSUME "impatient" \notin setup' PROVE Patient'
  BY <1>3, TelnetdAssumption DEF TelnetInv, TypeOK, Session, Patient, Waiting, RelayOutput, ConnReadable, PtyReadable, BeginTerm, CloseSession, wires, flags, LoginPc
<1> QED BY <1>1, <1>2, <1>3 DEF TelnetInv

LEMMA RelayFailsStep == ASSUME TelnetInv, RelayFails PROVE TelnetInv'
<1>1. TypeOK' BY TelnetdAssumption DEF TelnetInv, TypeOK, Session, RelayFails, ConnReadable, PtyReadable, BeginTerm, CloseSession, wires, flags, LoginPc
<1>2. Session' BY TelnetdAssumption DEF TelnetInv, TypeOK, Session, RelayFails, ConnReadable, PtyReadable, BeginTerm, CloseSession, wires, flags, LoginPc
<1>3. ASSUME "impatient" \notin setup' PROVE Patient'
  BY <1>3, TelnetdAssumption DEF TelnetInv, TypeOK, Session, Patient, Waiting, RelayFails, ConnReadable, PtyReadable, BeginTerm, CloseSession, wires, flags, LoginPc
<1> QED BY <1>1, <1>2, <1>3 DEF TelnetInv

LEMMA EndTermStep == ASSUME TelnetInv, EndTerm PROVE TelnetInv'
<1>s. <<>> \in Seq(LineKind) /\ 0 \in 0 .. PTY_BUF
  BY TelnetdAssumption
<1>1. TypeOK'
  <2>1. typed' = <<>> /\ pty_in' = <<>> /\ pty_out' = 0 BY DEF EndTerm, CloseSession
  <2>2. (Len(typed) + Len(pty_in))' <= MAX_TYPED
    <3>1. Len(typed') = 0 BY <2>1
    <3>2. Len(pty_in') = 0 BY <2>1
    <3> QED BY <3>1, <3>2, TelnetdAssumption
  <2>3. /\ backlog' = backlog /\ setup' = setup /\ cache' = FALSE /\ fd_conn' = NoClient
        /\ client' \in [Client -> {"away", "connecting", "connected", "hungup"}]
        /\ UNCHANGED <<stdio, shell_thread_should_exit, new_conn, shell, shell_conn>>
        /\ shell_quit_occurred' = FALSE /\ misc' \in {"select", "make"}
    BY DEF TelnetInv, TypeOK, EndTerm, CloseSession
  <2> QED BY <1>s, <2>1, <2>2, <2>3 DEF TelnetInv, TypeOK
<1>2. Session' BY <1>s, TelnetdAssumption DEF TelnetInv, TypeOK, Session, EndTerm, ConnReadable, PtyReadable, BeginTerm, CloseSession, wires, flags, LoginPc
<1>3. ASSUME "impatient" \notin setup' PROVE Patient'
  BY <1>s, <1>3, TelnetdAssumption DEF TelnetInv, TypeOK, Session, Patient, Waiting, EndTerm, ConnReadable, PtyReadable, BeginTerm, CloseSession, wires, flags, LoginPc
<1> QED BY <1>1, <1>2, <1>3 DEF TelnetInv

LEMMA MakeSessionStep == ASSUME TelnetInv, MakeSession PROVE TelnetInv'
<1>1. TypeOK' BY TelnetdAssumption DEF TelnetInv, TypeOK, Session, MakeSession, ConnReadable, PtyReadable, BeginTerm, CloseSession, wires, flags, LoginPc
<1>2. Session' BY TelnetdAssumption DEF TelnetInv, TypeOK, Session, MakeSession, ConnReadable, PtyReadable, BeginTerm, CloseSession, wires, flags, LoginPc
<1>3. ASSUME "impatient" \notin setup' PROVE Patient'
  BY <1>3, TelnetdAssumption DEF TelnetInv, TypeOK, Session, Patient, Waiting, MakeSession, ConnReadable, PtyReadable, BeginTerm, CloseSession, wires, flags, LoginPc
<1> QED BY <1>1, <1>2, <1>3 DEF TelnetInv

LEMMA MakeSessionFailsStep == ASSUME TelnetInv, MakeSessionFails PROVE TelnetInv'
<1>1. TypeOK' BY TelnetdAssumption DEF TelnetInv, TypeOK, Session, MakeSessionFails, ConnReadable, PtyReadable, BeginTerm, CloseSession, wires, flags, LoginPc
<1>2. Session' BY TelnetdAssumption DEF TelnetInv, TypeOK, Session, MakeSessionFails, ConnReadable, PtyReadable, BeginTerm, CloseSession, wires, flags, LoginPc
<1>3. ASSUME "impatient" \notin setup' PROVE Patient'
  BY <1>3, TelnetdAssumption DEF TelnetInv, TypeOK, Session, Patient, Waiting, MakeSessionFails, ConnReadable, PtyReadable, BeginTerm, CloseSession, wires, flags, LoginPc
<1> QED BY <1>1, <1>2, <1>3 DEF TelnetInv

-----------------------------------------------------------------------------
LEMMA IntroStep == ASSUME TelnetInv, Intro PROVE TelnetInv'
<1>1. TypeOK' BY TelnetdAssumption DEF TelnetInv, TypeOK, Session, Intro, ShellGoto, Read, Write, Others, LoginPc
<1>2. Session' BY TelnetdAssumption DEF TelnetInv, TypeOK, Session, Intro, ShellGoto, Read, Write, Others, LoginPc
<1>3. ASSUME "impatient" \notin setup' PROVE Patient'
  BY <1>3, TelnetdAssumption DEF TelnetInv, TypeOK, Session, Patient, Waiting, Intro, ShellGoto, Read, Write, Others, LoginPc
<1> QED BY <1>1, <1>2, <1>3 DEF TelnetInv

LEMMA ReadUserStep == ASSUME TelnetInv, ReadUser PROVE TelnetInv'
<1>s. /\ Tail(pty_in) \in Seq(LineKind) /\ Len(Tail(pty_in)) = Len(pty_in) - 1
      /\ Len(typed) \in Nat /\ Len(pty_in) \in Nat /\ pty_in' = Tail(pty_in)
  <2>1. typed \in Seq(LineKind) /\ pty_in \in Seq(LineKind) /\ pty_in # <<>> /\ pty_in' = Tail(pty_in)
    BY DEF TelnetInv, TypeOK, ReadUser, Read
  <2> QED BY <2>1
<1>1. TypeOK' BY <1>s, TelnetdAssumption DEF TelnetInv, TypeOK, Session, ReadUser, ShellGoto, Read, Write, Others, LoginPc
<1>2. Session' BY <1>s, TelnetdAssumption DEF TelnetInv, TypeOK, Session, ReadUser, ShellGoto, Read, Write, Others, LoginPc
<1>3. ASSUME "impatient" \notin setup' PROVE Patient'
  BY <1>s, <1>3, TelnetdAssumption DEF TelnetInv, TypeOK, Session, Patient, Waiting, ReadUser, ShellGoto, Read, Write, Others, LoginPc
<1> QED BY <1>1, <1>2, <1>3 DEF TelnetInv

LEMMA ReadPasswordStep == ASSUME TelnetInv, ReadPassword PROVE TelnetInv'
<1>s. /\ Tail(pty_in) \in Seq(LineKind) /\ Len(Tail(pty_in)) = Len(pty_in) - 1
      /\ Len(typed) \in Nat /\ Len(pty_in) \in Nat /\ pty_in' = Tail(pty_in)
  <2>1. typed \in Seq(LineKind) /\ pty_in \in Seq(LineKind) /\ pty_in # <<>> /\ pty_in' = Tail(pty_in)
    BY DEF TelnetInv, TypeOK, ReadPassword, Read
  <2> QED BY <2>1
<1>1. TypeOK' BY <1>s, TelnetdAssumption DEF TelnetInv, TypeOK, Session, ReadPassword, ShellGoto, Read, Write, Others, LoginPc
<1>2. Session' BY <1>s, TelnetdAssumption DEF TelnetInv, TypeOK, Session, ReadPassword, ShellGoto, Read, Write, Others, LoginPc
<1>3. ASSUME "impatient" \notin setup' PROVE Patient'
  BY <1>s, <1>3, TelnetdAssumption DEF TelnetInv, TypeOK, Session, Patient, Waiting, ReadPassword, ShellGoto, Read, Write, Others, LoginPc
<1> QED BY <1>1, <1>2, <1>3 DEF TelnetInv

LEMMA ReadEscapeStep == ASSUME TelnetInv, ReadEscape PROVE TelnetInv'
<1>s. /\ Tail(pty_in) \in Seq(LineKind) /\ Len(Tail(pty_in)) = Len(pty_in) - 1
      /\ Len(typed) \in Nat /\ Len(pty_in) \in Nat /\ pty_in' = Tail(pty_in)
  <2>1. typed \in Seq(LineKind) /\ pty_in \in Seq(LineKind) /\ pty_in # <<>> /\ pty_in' = Tail(pty_in)
    BY DEF TelnetInv, TypeOK, ReadEscape, Read
  <2> QED BY <2>1
<1>1. TypeOK' BY <1>s, TelnetdAssumption DEF TelnetInv, TypeOK, Session, ReadEscape, Escapes, ShellGoto, Read, Write, Others, LoginPc
<1>2. Session' BY <1>s, TelnetdAssumption DEF TelnetInv, TypeOK, Session, ReadEscape, Escapes, ShellGoto, Read, Write, Others, LoginPc
<1>3. ASSUME "impatient" \notin setup' PROVE Patient'
  BY <1>s, <1>3, TelnetdAssumption DEF TelnetInv, TypeOK, Session, Patient, Waiting, ReadEscape, Escapes, ShellGoto, Read, Write, Others, LoginPc
<1> QED BY <1>1, <1>2, <1>3 DEF TelnetInv

LEMMA EscapeReadStep == ASSUME TelnetInv, EscapeRead PROVE TelnetInv'
<1>s. /\ pty_in' \in Seq(LineKind) /\ Len(pty_in') \in {Len(pty_in) - 1, Len(pty_in)}
      /\ Len(typed) \in Nat /\ Len(pty_in) \in Nat
  <2>1. typed \in Seq(LineKind) /\ pty_in \in Seq(LineKind) /\ pty_in # <<>>
    BY DEF TelnetInv, TypeOK, EscapeRead
  <2>2. Tail(pty_in) \in Seq(LineKind) /\ Len(Tail(pty_in)) = Len(pty_in) - 1 BY <2>1
  <2>3. ASSUME NEW kind \in LineKind
        PROVE  /\ <<kind>> \o Tail(pty_in) \in Seq(LineKind)
               /\ Len(<<kind>> \o Tail(pty_in)) = Len(pty_in)
    <3>1. <<kind>> \in Seq(LineKind) /\ Len(<<kind>>) = 1 OBVIOUS
    <3> QED BY <2>1, <2>2, <3>1
  <2>4. pty_in' = Tail(pty_in) \/ \E kind \in LineKind : pty_in' = <<kind>> \o Tail(pty_in)
    BY DEF EscapeRead
  <2>5. CASE pty_in' = Tail(pty_in) BY <2>1, <2>2, <2>5
  <2>6. ASSUME NEW kind \in LineKind, pty_in' = <<kind>> \o Tail(pty_in)
        PROVE  pty_in' \in Seq(LineKind) /\ Len(pty_in') = Len(pty_in)
    BY <2>3, <2>6
  <2>7. Len(typed) \in Nat /\ Len(pty_in) \in Nat BY <2>1
  <2> QED BY <2>4, <2>5, <2>6, <2>7
<1>1. TypeOK' BY <1>s, TelnetdAssumption DEF TelnetInv, TypeOK, Session, EscapeRead, Escapes, ShellGoto, Read, Write, Others, LoginPc
<1>2. Session' BY <1>s, TelnetdAssumption DEF TelnetInv, TypeOK, Session, EscapeRead, Escapes, ShellGoto, Read, Write, Others, LoginPc
<1>3. ASSUME "impatient" \notin setup' PROVE Patient'
  BY <1>s, <1>3, TelnetdAssumption DEF TelnetInv, TypeOK, Session, Patient, Waiting, EscapeRead, Escapes, ShellGoto, Read, Write, Others, LoginPc
<1> QED BY <1>1, <1>2, <1>3 DEF TelnetInv

LEMMA RedirectIoStep == ASSUME TelnetInv, RedirectIo PROVE TelnetInv'
<1>1. TypeOK' BY TelnetdAssumption DEF TelnetInv, TypeOK, Session, RedirectIo, ShellGoto, Read, Write, Others, LoginPc
<1>2. Session' BY TelnetdAssumption DEF TelnetInv, TypeOK, Session, RedirectIo, ShellGoto, Read, Write, Others, LoginPc
<1>3. ASSUME "impatient" \notin setup' PROVE Patient'
  BY <1>3, TelnetdAssumption DEF TelnetInv, TypeOK, Session, Patient, Waiting, RedirectIo, ShellGoto, Read, Write, Others, LoginPc
<1> QED BY <1>1, <1>2, <1>3 DEF TelnetInv

LEMMA PromptStep == ASSUME TelnetInv, Prompt PROVE TelnetInv'
<1>1. TypeOK' BY TelnetdAssumption DEF TelnetInv, TypeOK, Session, Prompt, ShellGoto, Read, Write, Others, LoginPc
<1>2. Session' BY TelnetdAssumption DEF TelnetInv, TypeOK, Session, Prompt, ShellGoto, Read, Write, Others, LoginPc
<1>3. ASSUME "impatient" \notin setup' PROVE Patient'
  BY <1>3, TelnetdAssumption DEF TelnetInv, TypeOK, Session, Patient, Waiting, Prompt, ShellGoto, Read, Write, Others, LoginPc
<1> QED BY <1>1, <1>2, <1>3 DEF TelnetInv

LEMMA LoopTestStep == ASSUME TelnetInv, LoopTest PROVE TelnetInv'
<1>1. TypeOK' BY TelnetdAssumption DEF TelnetInv, TypeOK, Session, LoopTest, ShellGoto, Read, Write, Others, LoginPc
<1>2. Session' BY TelnetdAssumption DEF TelnetInv, TypeOK, Session, LoopTest, ShellGoto, Read, Write, Others, LoginPc
<1>3. ASSUME "impatient" \notin setup' PROVE Patient'
  BY <1>3, TelnetdAssumption DEF TelnetInv, TypeOK, Session, Patient, Waiting, LoopTest, ShellGoto, Read, Write, Others, LoginPc
<1> QED BY <1>1, <1>2, <1>3 DEF TelnetInv

LEMMA ReadTimeoutStep == ASSUME TelnetInv, ReadTimeout PROVE TelnetInv'
<1>1. TypeOK' BY TelnetdAssumption DEF TelnetInv, TypeOK, Session, ReadTimeout, ShellGoto, Read, Write, Others, LoginPc
<1>2. Session' BY TelnetdAssumption DEF TelnetInv, TypeOK, Session, ReadTimeout, ShellGoto, Read, Write, Others, LoginPc
<1>3. ASSUME "impatient" \notin setup' PROVE Patient'
  BY <1>3, TelnetdAssumption DEF TelnetInv, TypeOK, Session, Patient, Waiting, ReadTimeout, ShellGoto, Read, Write, Others, LoginPc
<1> QED BY <1>1, <1>2, <1>3 DEF TelnetInv

LEMMA ReadCommandStep == ASSUME TelnetInv, ReadCommand PROVE TelnetInv'
<1>s. /\ Tail(pty_in) \in Seq(LineKind) /\ Len(Tail(pty_in)) = Len(pty_in) - 1
      /\ Len(typed) \in Nat /\ Len(pty_in) \in Nat /\ pty_in' = Tail(pty_in)
  <2>1. typed \in Seq(LineKind) /\ pty_in \in Seq(LineKind) /\ pty_in # <<>> /\ pty_in' = Tail(pty_in)
    BY DEF TelnetInv, TypeOK, ReadCommand, Read
  <2> QED BY <2>1
<1>1. TypeOK' BY <1>s, TelnetdAssumption DEF TelnetInv, TypeOK, Session, ReadCommand, ShellGoto, Read, Write, Others, LoginPc
<1>2. Session' BY <1>s, TelnetdAssumption DEF TelnetInv, TypeOK, Session, ReadCommand, ShellGoto, Read, Write, Others, LoginPc
<1>3. ASSUME "impatient" \notin setup' PROVE Patient'
  BY <1>s, <1>3, TelnetdAssumption DEF TelnetInv, TypeOK, Session, Patient, Waiting, ReadCommand, ShellGoto, Read, Write, Others, LoginPc
<1> QED BY <1>1, <1>2, <1>3 DEF TelnetInv

LEMMA CommandWritesStep == ASSUME TelnetInv, CommandWrites PROVE TelnetInv'
<1>1. TypeOK' BY TelnetdAssumption DEF TelnetInv, TypeOK, Session, CommandWrites, ShellGoto, Read, Write, Others, LoginPc
<1>2. Session' BY TelnetdAssumption DEF TelnetInv, TypeOK, Session, CommandWrites, ShellGoto, Read, Write, Others, LoginPc
<1>3. ASSUME "impatient" \notin setup' PROVE Patient'
  BY <1>3, TelnetdAssumption DEF TelnetInv, TypeOK, Session, Patient, Waiting, CommandWrites, ShellGoto, Read, Write, Others, LoginPc
<1> QED BY <1>1, <1>2, <1>3 DEF TelnetInv

LEMMA CommandWroteStep == ASSUME TelnetInv, CommandWrote PROVE TelnetInv'
<1>1. TypeOK' BY TelnetdAssumption DEF TelnetInv, TypeOK, Session, CommandWrote, ShellGoto, Read, Write, Others, LoginPc
<1>2. Session' BY TelnetdAssumption DEF TelnetInv, TypeOK, Session, CommandWrote, ShellGoto, Read, Write, Others, LoginPc
<1>3. ASSUME "impatient" \notin setup' PROVE Patient'
  BY <1>3, TelnetdAssumption DEF TelnetInv, TypeOK, Session, Patient, Waiting, CommandWrote, ShellGoto, Read, Write, Others, LoginPc
<1> QED BY <1>1, <1>2, <1>3 DEF TelnetInv

LEMMA CommandEndsStep == ASSUME TelnetInv, CommandEnds PROVE TelnetInv'
<1>1. TypeOK' BY TelnetdAssumption DEF TelnetInv, TypeOK, Session, CommandEnds, ShellGoto, Read, Write, Others, LoginPc
<1>2. Session' BY TelnetdAssumption DEF TelnetInv, TypeOK, Session, CommandEnds, ShellGoto, Read, Write, Others, LoginPc
<1>3. ASSUME "impatient" \notin setup' PROVE Patient'
  BY <1>3, TelnetdAssumption DEF TelnetInv, TypeOK, Session, Patient, Waiting, CommandEnds, ShellGoto, Read, Write, Others, LoginPc
<1> QED BY <1>1, <1>2, <1>3 DEF TelnetInv

LEMMA QuitStep == ASSUME TelnetInv, Quit PROVE TelnetInv'
<1>1. TypeOK' BY TelnetdAssumption DEF TelnetInv, TypeOK, Session, Quit, ShellGoto, Read, Write, Others, LoginPc
<1>2. Session' BY TelnetdAssumption DEF TelnetInv, TypeOK, Session, Quit, ShellGoto, Read, Write, Others, LoginPc
<1>3. ASSUME "impatient" \notin setup' PROVE Patient'
  BY <1>3, TelnetdAssumption DEF TelnetInv, TypeOK, Session, Patient, Waiting, Quit, ShellGoto, Read, Write, Others, LoginPc
<1> QED BY <1>1, <1>2, <1>3 DEF TelnetInv

-----------------------------------------------------------------------------
LEMMA ConnectStep == ASSUME TelnetInv, NEW c \in Client, Connect(c) PROVE TelnetInv'
<1>s. /\ Append(backlog, c) \in Seq(Client)
      /\ backlog = <<>> => Append(backlog, c) = <<c>>
  <2>1. backlog \in Seq(Client) BY DEF TelnetInv, TypeOK
  <2>2. Append(backlog, c) \in Seq(Client) BY <2>1
  <2>3. Append(<<>>, c) = <<c>> OBVIOUS
  <2> QED BY <2>2, <2>3
<1>1. TypeOK' BY <1>s, TelnetdAssumption DEF TelnetInv, TypeOK, Session, Connect, NoLogin, wires, flags, ConnReadable, PtyReadable, LoginPc
<1>2. Session' BY <1>s, TelnetdAssumption DEF TelnetInv, TypeOK, Session, Connect, NoLogin, wires, flags, ConnReadable, PtyReadable, LoginPc
<1>3. ASSUME "impatient" \notin setup' PROVE Patient'
  BY <1>s, <1>3, TelnetdAssumption DEF TelnetInv, TypeOK, Session, Patient, Waiting, Connect, NoLogin, wires, flags, ConnReadable, PtyReadable, LoginPc
<1> QED BY <1>1, <1>2, <1>3 DEF TelnetInv

LEMMA HangUpStep == ASSUME TelnetInv, NEW c \in Client, HangUp(c) PROVE TelnetInv'
<1>1. TypeOK' BY TelnetdAssumption DEF TelnetInv, TypeOK, Session, HangUp, NoLogin, wires, flags, ConnReadable, PtyReadable, LoginPc
<1>2. Session' BY TelnetdAssumption DEF TelnetInv, TypeOK, Session, HangUp, NoLogin, wires, flags, ConnReadable, PtyReadable, LoginPc
<1>3. ASSUME "impatient" \notin setup' PROVE Patient'
  BY <1>3, TelnetdAssumption DEF TelnetInv, TypeOK, Session, Patient, Waiting, HangUp, NoLogin, wires, flags, ConnReadable, PtyReadable, LoginPc
<1> QED BY <1>1, <1>2, <1>3 DEF TelnetInv

LEMMA SendUrgentStep == ASSUME TelnetInv, NEW c \in Client, SendUrgent(c) PROVE TelnetInv'
<1>1. TypeOK' BY TelnetdAssumption DEF BeginTerm, TelnetInv, TypeOK, Session, SendUrgent, NoLogin, wires, flags, ConnReadable, PtyReadable, LoginPc
<1>2. Session' BY TelnetdAssumption DEF BeginTerm, TelnetInv, TypeOK, Session, SendUrgent, NoLogin, wires, flags, ConnReadable, PtyReadable, LoginPc
<1>3. ASSUME "impatient" \notin setup' PROVE Patient'
  BY <1>3, TelnetdAssumption DEF BeginTerm, TelnetInv, TypeOK, Session, Patient, Waiting, SendUrgent, NoLogin, wires, flags, ConnReadable, PtyReadable, LoginPc
<1> QED BY <1>1, <1>2, <1>3 DEF BeginTerm, TelnetInv

LEMMA TypeLineStep == ASSUME TelnetInv, NEW c \in Client, TypeLine(c) PROVE TelnetInv'
<1>s. \A kind \in LineKind : /\ Append(typed, kind) \in Seq(LineKind)
                              /\ Len(Append(typed, kind)) = Len(typed) + 1
      /\ Len(typed) \in Nat /\ Len(pty_in) \in Nat
  <2>1. typed \in Seq(LineKind) /\ pty_in \in Seq(LineKind) BY DEF TelnetInv, TypeOK
  <2> QED BY <2>1
<1>1. TypeOK' BY <1>s, TelnetdAssumption DEF TelnetInv, TypeOK, Session, TypeLine, NoLogin, wires, flags, ConnReadable, PtyReadable, LoginPc
<1>2. Session' BY <1>s, TelnetdAssumption DEF TelnetInv, TypeOK, Session, TypeLine, NoLogin, wires, flags, ConnReadable, PtyReadable, LoginPc
<1>3. ASSUME "impatient" \notin setup' PROVE Patient'
  BY <1>s, <1>3, TelnetdAssumption DEF TelnetInv, TypeOK, Session, Patient, Waiting, TypeLine, NoLogin, wires, flags, ConnReadable, PtyReadable, LoginPc
<1> QED BY <1>1, <1>2, <1>3 DEF TelnetInv

-----------------------------------------------------------------------------
LEMMA InitInv == Init => TelnetInv
<1> SUFFICES ASSUME Init PROVE TelnetInv OBVIOUS
<1>1. /\ <<>> \in Seq(Client) /\ <<>> \in Seq(LineKind) /\ 0 \in 0 .. PTY_BUF
  BY TelnetdAssumption
<1>2. TypeOK
  <2>1. /\ backlog \in Seq(Client) /\ typed \in Seq(LineKind) /\ pty_in \in Seq(LineKind)
        /\ pty_out \in 0 .. PTY_BUF
    BY <1>1 DEF Init
  <2>2. Len(typed) + Len(pty_in) <= MAX_TYPED
    <3>1. typed = <<>> /\ pty_in = <<>> BY DEF Init
    <3>2. Len(typed) = 0 BY <3>1
    <3>3. Len(pty_in) = 0 BY <3>1
    <3> QED BY <3>2, <3>3, TelnetdAssumption
  <2>3. /\ setup \in Setup /\ client \in [Client -> {"away", "connecting", "connected", "hungup"}]
        /\ cache = FALSE /\ fd_conn = NoClient /\ new_conn = NoClient /\ shell_conn = NoClient
        /\ stdio = "original" /\ shell_thread_should_exit = FALSE /\ shell_quit_occurred = FALSE
        /\ misc = "select" /\ shell = "none"
    BY DEF Init
  <2> QED BY <2>1, <2>2, <2>3 DEF TypeOK
<1>3. Session /\ Patient BY DEF Init, Session, Patient, LoginPc
<1> QED BY <1>2, <1>3 DEF TelnetInv

LEMMA StepInv == TelnetInv /\ [Next]_vars => TelnetInv'
<1> SUFFICES ASSUME TelnetInv, [Next]_vars PROVE TelnetInv' OBVIOUS
<1>1. ASSUME misc_thread PROVE TelnetInv'
  BY <1>1, AcceptStep, NoticeQuitStep, NoticeHangupStep, RelayInputStep, RelayOutputStep,
     RelayFailsStep, EndTermStep, MakeSessionStep, MakeSessionFailsStep DEF misc_thread
<1>2. ASSUME the_shell_thread PROVE TelnetInv'
  BY <1>2, IntroStep, ReadUserStep, ReadPasswordStep, ReadEscapeStep, EscapeReadStep, RedirectIoStep, PromptStep,
     LoopTestStep, ReadTimeoutStep, ReadCommandStep, CommandWritesStep, CommandWroteStep,
     CommandEndsStep, QuitStep DEF the_shell_thread
<1>3. ASSUME Clients PROVE TelnetInv'
  BY <1>3, ConnectStep, HangUpStep, TypeLineStep, SendUrgentStep DEF Clients
<1>4. ASSUME UNCHANGED vars PROVE TelnetInv'
  BY <1>4 DEF vars, wires, flags, TelnetInv, TypeOK, Session, Patient, Waiting
<1> QED BY <1>1, <1>2, <1>3, <1>4 DEF Next

LEMMA Inv == Spec => []TelnetInv
BY InitInv, StepInv, PTL DEF Spec

\* The variables have their types for any number of clients: neither thread takes a line or a
\* block that is not there, and the socket pair never holds more than it can.
THEOREM TypeCorrect == Spec => []TypeOK
<1>1. TelnetInv => TypeOK BY DEF TelnetInv
<1> QED BY <1>1, Inv, PTL

\* A shell thread reads and writes its own session's descriptors until it ends, although
\* the misc thread makes and closes sessions meanwhile.
THEOREM OwnSession == Spec => []ShellOwnsSession
<1>1. TelnetInv => ShellOwnsSession BY DEF TelnetInv, Session, ShellOwnsSession
<1> QED BY <1>1, Inv, PTL

\* shell_quit_occurred is never left over from an earlier session.
THEOREM OwnQuit == Spec => []QuitIsOfSession
<1>1. TelnetInv => QuitIsOfSession BY DEF TelnetInv, Session, QuitIsOfSession
<1> QED BY <1>1, Inv, PTL

\* If nobody ends or replaces the session during a login, the process has its own standard streams
\* back whenever there is no session.
THEOREM OwnStreams == Spec => []StreamsRestored
<1>1. TelnetInv => StreamsRestored BY DEF TelnetInv, Patient, StreamsRestored
<1> QED BY <1>1, Inv, PTL
=============================================================================
