----------------------------- MODULE GuiSession -----------------------------
(***************************************************************************)
(* The window of gui/mod.rs: a launcher or one session on the screen, and  *)
(* the threads behind the sessions: local_shell/mod.rs for a local shell,  *)
(* spawn_ssh_thread for SSH.  A session that was left goes on until its    *)
(* threads notice.                                                         *)
(*                                                                         *)
(* A channel is a sequence; it is open while the window holds its ends,    *)
(* which it drops both at once.  `program` is the shell at the far end of  *)
(* the PTY, local or remote; some of its output asks for the cursor        *)
(* position and makes it wait for a reply, which hyperterm-dsr-fix gives   *)
(* and src does not.  Other processes may hold its terminal and outlive    *)
(* it.  How a frame is painted, and the launcher's form, which only sets   *)
(* an error line when it does not validate, are left out.                  *)
(***************************************************************************)
EXTENDS Integers, Sequences, FiniteSets

CONSTANTS Sizes,        \* window sizes in cells
          StartSize,    \* 120 x 32
          MaxSessions,  \* bound: sessions opened
          MaxOutput,    \* bound: pieces of output a program writes
          MaxQueue      \* bound: commands under which a key or a resize is sent

ASSUME StartAssumption == StartSize \in Sizes

Launcher == 0
Exited == -1

VARIABLES
  variant,   \* which parser was built in: "src" or "dsr_fix"
  screen,    \* Launcher, Exited or the index of the session shown
  sessions   \* every session opened so far, see NewSessionOf

vars == <<variant, screen, sessions>>

NewSessionOf(kind) ==
  [kind |-> kind, thread |-> "starting", reader |-> "none",
   program |-> "none", asking |-> FALSE, wrote |-> 0,
   held |-> FALSE,              \* other processes have the program's terminal
   pty |-> <<>>,                \* output not yet read from the PTY or the connection
   size |-> StartSize,          \* the PTY's size
   cmds |-> <<>>, msgs |-> <<>>, open |-> TRUE,
   grid |-> StartSize, fed |-> <<>>, status |-> "connecting",
   broke |-> FALSE,             \* ghost: writing to the far end failed
   missed |-> FALSE,            \* ghost: the last resize failed
   cut |-> FALSE]               \* ghost: reading the PTY failed

Update(i, s) == sessions' = [sessions EXCEPT ![i] = s]
Is(i, kind)  == sessions[i].kind = kind
Thread(i)    == sessions[i].thread

(* A send on a channel whose receiver is gone fails, which most callers    *)
(* ignore.                                                                 *)
Sent(s, msg) == IF s.open THEN [s EXCEPT !.msgs = Append(@, msg)] ELSE s

(* Killing the program leaves the processes it started alone.              *)
Killed(s) == [s EXCEPT !.program = "gone", !.asking = FALSE]

(* What the thread held of the terminal or of the connection goes with it. *)
Ended(s)  == [s EXCEPT !.thread = "ended", !.held = FALSE]

-----------------------------------------------------------------------------
(* The program and the processes it leaves on its terminal.  A piece of    *)
(* output is its number, negative if it asks.                              *)

Awake(s) == s.program = "alive" /\ ~s.asking

Write(i) ==
  /\ Awake(sessions[i]) \/ sessions[i].held
  /\ sessions[i].wrote < MaxOutput
  /\ \E asks \in BOOLEAN :
       LET n == sessions[i].wrote + 1
       IN  /\ asks => Awake(sessions[i])
           /\ Update(i, [sessions[i] EXCEPT !.wrote = n, !.asking = @ \/ asks,
                                             !.pty = Append(@, IF asks THEN -n ELSE n)])
  /\ UNCHANGED <<variant, screen>>

Background(i) ==
  /\ Awake(sessions[i])
  /\ Update(i, [sessions[i] EXCEPT !.held = TRUE])
  /\ UNCHANGED <<variant, screen>>

Release(i) ==
  /\ sessions[i].held
  /\ Update(i, [sessions[i] EXCEPT !.held = FALSE])
  /\ UNCHANGED <<variant, screen>>

Quit(i) ==
  /\ sessions[i].program = "alive"
  /\ Update(i, Killed(sessions[i]))
  /\ UNCHANGED <<variant, screen>>

(* What a command does at the far end, Close apart.  Only a reply ends the *)
(* program's wait.                                                         *)
Obeyed(s, cmd) ==
  CASE cmd[1] = "resize" -> [s EXCEPT !.size = cmd[2], !.missed = FALSE]
    [] cmd[1] = "reply"  -> [s EXCEPT !.asking = FALSE]
    [] OTHER             -> s

(* The far end takes the command badly.                                    *)
Refused(s, cmd) ==
  IF cmd[1] = "resize" THEN [s EXCEPT !.missed = TRUE] ELSE [s EXCEPT !.broke = TRUE]

-----------------------------------------------------------------------------
(* local_shell::spawn.  The last two ways to fail kill the shell they      *)
(* started; so does a window that is gone.                                 *)

ShellFails(i) ==
  /\ Is(i, "shell") /\ Thread(i) = "starting"
  /\ \E program \in {"none", "gone"} :
       Update(i, Ended([Sent(sessions[i], <<"failed">>) EXCEPT !.program = program]))
  /\ UNCHANGED <<variant, screen>>

ShellStarts(i) ==
  /\ Is(i, "shell") /\ Thread(i) = "starting"
  /\ LET s == [sessions[i] EXCEPT !.program = "alive"]
     IN  Update(i, IF s.open
                   THEN [Sent(s, <<"connected">>) EXCEPT !.thread = "running", !.reader = "reading"]
                   ELSE Ended(Killed(s)))
  /\ UNCHANGED <<variant, screen>>

(* The reader thread: what read returns is some of what is there.          *)
Read(i) ==
  /\ sessions[i].reader = "reading" /\ sessions[i].pty # <<>>
  /\ \E k \in 1 .. Len(sessions[i].pty) :
       LET s == [sessions[i] EXCEPT !.pty = SubSeq(@, k + 1, Len(@))]
       IN  Update(i, IF s.open THEN Sent(s, <<"data", SubSeq(sessions[i].pty, 1, k)>>)
                     ELSE [s EXCEPT !.reader = "done"])
  /\ UNCHANGED <<variant, screen>>

(* An error other than EOF ends the reader too, whatever it has not read.  *)
ReadFails(i) ==
  /\ sessions[i].reader = "reading"
  /\ Update(i, [sessions[i] EXCEPT !.reader = "done", !.cut = TRUE])
  /\ UNCHANGED <<variant, screen>>

(* The far side is closed by the last that holds it.                       *)
(* Mutant: the end is seen before what was written last.                   *)
AtEof_BeforeTheRest(s) == s.program = "gone" /\ ~s.held
AtEof(s) == s.program = "gone" /\ ~s.held /\ s.pty = <<>>

ReadEof(i) ==
  /\ sessions[i].reader = "reading" /\ AtEof(sessions[i])
  /\ Update(i, [sessions[i] EXCEPT !.reader = "done"])
  /\ UNCHANGED <<variant, screen>>

(* The host loop leaves when the shell is gone, whatever the command was.  *)
Looped(s) == IF s.program = "gone" THEN [s EXCEPT !.thread = "exiting"] ELSE s

(* Mutant: Close leaves the loop, and the shell alone.                     *)
HostClosed_NoKill(s) == [s EXCEPT !.thread = "exiting"]
HostClosed(s) == [Killed(s) EXCEPT !.thread = "exiting"]

HostCommand(i) ==
  /\ Is(i, "shell") /\ Thread(i) = "running" /\ sessions[i].cmds # <<>>
  /\ LET cmd == Head(sessions[i].cmds)
         s   == [sessions[i] EXCEPT !.cmds = Tail(@)]
     IN  \/ Update(i, IF cmd[1] = "close" THEN HostClosed(s) ELSE Looped(Obeyed(s, cmd)))
         \/ /\ cmd[1] = "resize"
            /\ Update(i, Looped(Refused(s, cmd)))
         \/ /\ cmd[1] \in {"input", "reply"}
            /\ Update(i, [Refused(s, cmd) EXCEPT !.thread = "exiting"])
  /\ UNCHANGED <<variant, screen>>

(* recv_timeout without a command: every sender is gone, or it timed out.  *)
HostIdle(i) ==
  /\ Is(i, "shell") /\ Thread(i) = "running" /\ sessions[i].cmds = <<>>
  /\ Update(i, IF sessions[i].open THEN Looped(sessions[i]) ELSE HostClosed(sessions[i]))
  /\ UNCHANGED <<variant, screen>>

(* Exited is sent while the reader may still have output to send.          *)
SendExited(i) ==
  /\ Thread(i) = "exiting"
  /\ Update(i, [Sent(sessions[i], <<"closed">>) EXCEPT !.thread = "joining"])
  /\ UNCHANGED <<variant, screen>>

JoinReader(i) ==
  /\ Thread(i) = "joining" /\ sessions[i].reader = "done"
  /\ Update(i, Ended(sessions[i]))
  /\ UNCHANGED <<variant, screen>>

-----------------------------------------------------------------------------
(* spawn_ssh_thread.  When the thread ends the connection does, and the    *)
(* remote shell with it.                                                   *)

SshFails(i) ==
  /\ Is(i, "ssh") /\ Thread(i) = "starting"
  /\ Update(i, Ended(Sent(sessions[i], <<"failed">>)))
  /\ UNCHANGED <<variant, screen>>

SshConnects(i) ==
  /\ Is(i, "ssh") /\ Thread(i) = "starting"
  /\ LET s == [sessions[i] EXCEPT !.program = "alive"]
     IN  Update(i, IF s.open THEN [Sent(s, <<"connected">>) EXCEPT !.thread = "running"]
                   ELSE Ended(Killed(s)))
  /\ UNCHANGED <<variant, screen>>

(* The select is biased: an event that is ready goes before any command.   *)
SshEvent(i) ==
  /\ Is(i, "ssh") /\ Thread(i) = "running"
  /\ LET s == sessions[i]
     IN  \/ /\ AtEof(s)
            /\ Update(i, Ended(Sent(s, <<"closed">>)))
         \/ /\ ~AtEof(s) /\ s.pty # <<>>
            /\ Update(i, IF s.open
                         THEN [Sent(s, <<"data", <<Head(s.pty)>>>>) EXCEPT !.pty = Tail(@)]
                         ELSE Ended(Killed(s)))
  /\ UNCHANGED <<variant, screen>>

SshCommand(i) ==
  /\ Is(i, "ssh") /\ Thread(i) = "running"
  /\ sessions[i].pty = <<>> /\ ~AtEof(sessions[i])
  /\ LET s == sessions[i]
         t == [s EXCEPT !.cmds = Tail(@)]
     IN  \/ /\ s.cmds # <<>> /\ Head(s.cmds)[1] # "close"
            /\ \/ Update(i, Obeyed(t, Head(s.cmds)))
               \/ Update(i, Refused(t, Head(s.cmds)))
         \/ /\ IF s.cmds = <<>> THEN ~s.open ELSE Head(s.cmds)[1] = "close"
            /\ Update(i, Ended(Killed(s)))
  /\ UNCHANGED <<variant, screen>>

-----------------------------------------------------------------------------
(* The window's thread.                                                    *)

Left(s) == [s EXCEPT !.open = FALSE, !.msgs = <<>>]
Told(s, cmds) == [s EXCEPT !.cmds = @ \o cmds]

(* try_connect: the backend is spawned first; if the scrollback cannot be  *)
(* opened after that, it is told to close and dropped.                     *)
Connect ==
  /\ screen = Launcher /\ Len(sessions) < MaxSessions
  /\ \E kind \in {"shell", "ssh"}, opened \in BOOLEAN :
       IF opened
       THEN /\ sessions' = Append(sessions, NewSessionOf(kind))
            /\ screen' = Len(sessions) + 1
       ELSE /\ sessions' = Append(sessions, Left(Told(NewSessionOf(kind), <<<<"close">>>>)))
            /\ UNCHANGED screen
  /\ UNCHANGED variant

NewSession ==
  /\ screen \in DOMAIN sessions
  /\ Update(screen, Left(Told(sessions[screen], <<<<"close">>>>)))
  /\ screen' = Launcher
  /\ UNCHANGED variant

(* File > Exit is process::exit: nothing runs any more.                    *)
Exit ==
  /\ screen' = Exited
  /\ UNCHANGED <<variant, sessions>>

(* A message as update_terminal takes it in.                               *)
Status(msg, old) ==
  CASE msg[1] = "connected" -> "none"
    [] msg[1] = "failed"    -> "failed"
    [] msg[1] = "closed"    -> "closed"
    [] OTHER                -> old

(* Mutant: the parser of src in the variant.                               *)
Replies_Never(pieces) == <<>>
Replies(pieces) ==
  IF variant = "src" THEN <<>>
  ELSE [n \in 1 .. Cardinality({k \in DOMAIN pieces : pieces[k] < 0}) |-> <<"reply">>]

PiecesOf(msg) == IF msg[1] = "data" THEN msg[2] ELSE <<>>

Took(s, msg) ==
  [s EXCEPT !.status = Status(msg, @), !.fed = @ \o PiecesOf(msg),
            !.cmds = @ \o Replies(PiecesOf(msg))]

Drained(s) ==
  LET after[n \in 0 .. Len(s.msgs)] ==
        IF n = 0 THEN s ELSE Took(after[n - 1], s.msgs[n])
  IN  [after[Len(s.msgs)] EXCEPT !.msgs = <<>>]

(* Mutant: a resize is only sent when the session is up.                   *)
ResizeOf_WhenUp(s, size) ==
  IF size = s.grid \/ s.status # "none" THEN <<>> ELSE <<<<"resize", size>>>>
ResizeOf(s, size) ==
  IF size = s.grid THEN <<>> ELSE <<<<"resize", size>>>>

(* update_terminal: drain, the toolbar's Disconnect, the size, the keys.   *)
Frame ==
  /\ screen \in DOMAIN sessions
  /\ \E size \in Sizes, typed \in BOOLEAN, leave \in BOOLEAN :
       LET s == Drained(sessions[screen])
           cmds == (IF leave THEN <<<<"close">>>> ELSE <<>>) \o ResizeOf(s, size)
                     \o (IF typed THEN <<<<"input">>>> ELSE <<>>)
           t == [Told(s, cmds) EXCEPT !.grid = size]
       IN  /\ (size # s.grid \/ typed) => Len(sessions[screen].cmds) < MaxQueue
           /\ Update(screen, IF leave THEN Left(t) ELSE t)
           /\ screen' = IF leave THEN Launcher ELSE screen
  /\ UNCHANGED variant

-----------------------------------------------------------------------------
Init ==
  /\ variant \in {"src", "dsr_fix"}
  /\ screen = Launcher
  /\ sessions = <<>>

StartShell(i) == ShellFails(i) \/ ShellStarts(i)
StartSsh(i)  == SshFails(i) \/ SshConnects(i)
Reader(i)    == Read(i) \/ ReadFails(i) \/ ReadEof(i)
Host(i)      == HostCommand(i) \/ HostIdle(i) \/ SendExited(i) \/ JoinReader(i)
SshThread(i) == SshEvent(i) \/ SshCommand(i)
Program(i)   == Write(i) \/ Quit(i) \/ Background(i) \/ Release(i)
Window       == Connect \/ NewSession \/ Exit \/ Frame

Next ==
  /\ screen # Exited
  /\ \/ Window
     \/ \E i \in DOMAIN sessions :
          StartShell(i) \/ StartSsh(i) \/ Reader(i) \/ Host(i) \/ SshThread(i) \/ Program(i)

Live(i, A(_)) == screen # Exited /\ i \in DOMAIN sessions /\ A(i)

(* The thread is in write_all or send_input, or about to be.               *)
Sending(i) ==
  /\ i \in DOMAIN sessions /\ Thread(i) = "running" /\ sessions[i].cmds # <<>>
  /\ Head(sessions[i].cmds)[1] \in {"input", "reply"}

(* Threads run, and the window asks for a repaint every 16 ms while a      *)
(* session is shown.  Nothing says that a connection attempt ends, which   *)
(* is awaited outside the select with no timeout, or that input is ever    *)
(* taken (local_shell/mod.rs:206, gui/mod.rs:211).                         *)
Fairness ==
  /\ \A i \in 1 .. MaxSessions :
       /\ WF_vars(Live(i, StartShell)) /\ WF_vars(Live(i, Reader))
       /\ WF_vars(~Sending(i) /\ Live(i, Host)) /\ WF_vars(~Sending(i) /\ Live(i, SshThread))
  /\ WF_vars(screen # Exited /\ Frame)

Spec == Init /\ [][Next]_vars /\ Fairness

-----------------------------------------------------------------------------
Pieces(s) == [k \in DOMAIN s.fed |-> IF s.fed[k] < 0 THEN -s.fed[k] ELSE s.fed[k]]
Upto(n) == [k \in 1 .. n |-> k]

(* The parser is fed what was written on the terminal, in order, and when  *)
(* the threads are done and the window still shows the session, all of it: *)
(* "session closed" may overtake the last output, it must not cut it off.  *)
(* A read error may (local_shell/mod.rs:192-195).                          *)
OutputShown ==
  \A i \in DOMAIN sessions :
    LET s == sessions[i]
    IN  /\ Pieces(s) = Upto(Len(s.fed))
        /\ s.thread = "ended" /\ s.open /\ s.msgs = <<>> => s.cut \/ Len(s.fed) = s.wrote

(* Whenever no resize is under way the PTY has the size of the grid its    *)
(* output is drawn on, also when the window changed while connecting,      *)
(* unless the last resize failed, which the code ignores                   *)
(* (local_shell/mod.rs:211, gui/mod.rs:214).                               *)
GridFollowsPty ==
  \A i \in DOMAIN sessions :
    LET s == sessions[i]
    IN  s.open /\ s.thread = "running" /\ (\A k \in DOMAIN s.cmds : s.cmds[k][1] # "resize")
          => s.missed \/ s.size = s.grid

Opened(i) == i \in DOMAIN sessions

(* What can keep the thread of a session that was left: a connection       *)
(* attempt still going on (gui/mod.rs:176), a shell whose PTY refused a    *)
(* write and which nobody kills (local_shell/mod.rs:205-208), or a reader  *)
(* waiting for an EOF that another process on the terminal holds back      *)
(* (local_shell/mod.rs:236).                                               *)
Kept(s) ==
  \/ s.kind = "ssh" /\ s.thread = "starting"
  \/ s.kind = "shell" /\ s.broke
  \/ s.thread = "joining" /\ s.reader = "reading" /\ s.program # "alive" /\ s.held

(* A session that was left, or never shown because its scrollback could    *)
(* not be opened, ends, its threads and its shell, as soon as none of the  *)
(* three keeps it; stated for threads that do not send input for ever.     *)
LeftSessionsEnd ==
  \A i \in 1 .. MaxSessions :
    []<>~Sending(i) =>
      ((Opened(i) /\ ~sessions[i].open) ~>
         \/ screen = Exited
         \/ Opened(i) /\ Kept(sessions[i])
         \/ Opened(i) /\ sessions[i].thread = "ended" /\ sessions[i].program # "alive")

(* With the cursor-report variant a program that asks does not wait for    *)
(* ever while its session is shown (hyperterm-dsr-fix), unless its output  *)
(* could not be read or something could not be written to it, or is being  *)
(* written for ever.                                                       *)
QueriesAnswered ==
  \A i \in 1 .. MaxSessions :
    []<>~Sending(i) =>
      ((variant = "dsr_fix" /\ Opened(i) /\ sessions[i].asking) ~>
         \/ screen = Exited
         \/ Opened(i) /\ LET s == sessions[i]
                         IN  ~s.open \/ s.cut \/ s.broke \/ ~s.asking)
=============================================================================
