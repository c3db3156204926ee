--------------------------------- MODULE Relay ---------------------------------
(***************************************************************************)
(* One relay of the bridge (relay_stdio and relay_lazy of src/ws.rs, with   *)
(* stdio_reader_task and tcp_reader_task): a WebSocket client on one side,  *)
(* a Copilot CLI on the other, and between them                             *)
(*   - the relay's own task, a tokio select! over a read branch, a ping     *)
(*     branch and a branch that waits for the session's shutdown signal;    *)
(*   - a bounded channel (ws_tx, ws_rx) and the sink task that empties it   *)
(*     into the WebSocket;                                                  *)
(*   - a reader task that turns the lines of the CLI into frames.           *)
(* A step is what a task does between two awaits that can block.  mode is   *)
(* "stdio" for relay_stdio (a child process per client) and "tcp" for       *)
(* relay_lazy (a connection to a CLI that listens); they differ in what     *)
(* they do with invalid JSON, with a CLI that is gone, and when they end.   *)
(***************************************************************************)
EXTENDS Naturals, Sequences, SequencesExt

CONSTANTS
    Modes,          \* values of copilot_mode: "stdio", "tcp"
    Capacity,       \* of the channel to the sink task (64 in the code)
    PongTicks,      \* PONG_TIMEOUT in PING_INTERVALs (15 in the code)
    PipeCap,        \* lines a pipe or socket to or from the CLI buffers
    SockCap,        \* frames the WebSocket's transport buffers each way
    ClientFrames,   \* kinds of frames the client sends on its own account
    CliLines,       \* kinds of lines the CLI writes
    MaxAsk,         \* bound on the frames the client sends on its own account
    MaxSay,         \* bound on the lines the CLI writes
    MaxTicks        \* bound on the ping intervals that pass

(* Text frames by what the relay tells apart: a session/prompt, another JSON *)
(* text, one that is not JSON, an empty one.  Lines of the CLI: a            *)
(* session/update, another JSON line, one that is not JSON, an empty one,   *)
(* and one that read_line cannot read (not UTF-8, or an I/O error).         *)
TextKinds == {"prompt", "request", "bad", "blank"}
LineKinds == {"update", "reply", "bad", "blank", "garbled"}

ASSUME ModesAssumption == Modes \subseteq {"stdio", "tcp"}
ASSUME CapacityAssumption == {Capacity, PipeCap, SockCap} \subseteq Nat \ {0}
ASSUME KindsAssumption == /\ ClientFrames \subseteq TextKinds \cup {"ping", "close"}
                          /\ CliLines \subseteq LineKinds
ASSUME BoundsAssumption ==
    /\ PongTicks \in Nat
    /\ {MaxAsk, MaxSay, MaxTicks} \subseteq Nat

VARIABLES
    main,       \* where the relay's task is: in the select!, or past it
    why,        \* which branch ended the select! (not in the code)
    rd,         \* the read branch: the await it is at, the frame it holds
    ping,       \* the ping branch: the await it is at
    due,        \* ticks of ping_interval the branch has not consumed
    age,        \* intervals since last_pong
    ticks,      \* intervals that have passed
    late,       \* what held the answer up when it became overdue (not in the code)
    mode,       \* copilot_mode
    told,       \* the shutdown channel: true was sent, or its sender dropped
    chan,       \* the frames in the channel
    sink,       \* the sink task, and the frame it is sending
    wsClosed,   \* a Close frame went over the WebSocket, either way
    sock,       \* frames sent to the client that it has not read
    wsIn,       \* frames of the client that the relay has not read
    client,     \* "open" or "gone"
    cli,        \* the CLI, or the connection to it
    writer,     \* the relay has the CLI's writer (stdio_writer, tcp_writer)
    stdin,      \* lines the CLI has not read
    stdout,     \* lines of the CLI the reader task has not read
    reader,     \* the reader task, and the line it is sending
    prompts,    \* calls of increment_prompts
    messages,   \* calls of increment_messages
    asked, toCli, said, toClient    \* history: what each side sent and was sent

task == <<main, why, rd, ping>>
timer == <<due, age, ticks, late>>
session == <<mode, told>>
outbound == <<chan, sink, wsClosed, sock, toClient>>
peer == <<client, wsIn, asked>>
copilot == <<cli, writer, stdin, stdout, said, toCli>>
counts == <<prompts, messages>>
vars == <<task, timer, session, outbound, peer, copilot, reader, counts>>
-------------------------------------------------------------------------------
Stdio == mode = "stdio"

Ctl(kind) == [kind |-> kind, n |-> 0]       \* a frame that carries no message

Frame(kinds) == [kind : kinds, n : Nat]

NotReading == [at |-> "next", frame |-> Ctl("none")]

Init ==
    /\ main = "select" /\ why = "none" /\ rd = NotReading /\ ping = "tick"
    /\ due = 1 /\ age = 0 /\ ticks = 0 /\ late = "none"      \* tokio's first tick is immediate
    /\ mode \in Modes /\ told = FALSE
    /\ chan = <<>> /\ sink = [at |-> "recv", frame |-> Ctl("none")]
    /\ wsClosed = FALSE /\ sock = <<>> /\ toClient = <<>>
    /\ client = "open" /\ wsIn = <<>> /\ asked = <<>>
    /\ cli = "none" /\ writer = FALSE /\ stdin = <<>> /\ stdout = <<>>
    /\ said = <<>> /\ toCli = <<>>
    /\ reader = [at |-> "none", line |-> Ctl("none")]
    /\ prompts = 0 /\ messages = 0
-------------------------------------------------------------------------------
(* The channel.  send waits for room, and fails once the sink task is over. *)

ChannelClosed == sink.at \in {"ended", "failed"}

(* Mutant: an unbounded channel. *)
CanSendAlways == TRUE

CanSend == ChannelClosed \/ Len(chan) < Capacity

(* Mutant: try_send, with the error ignored. *)
TrySend(frame) ==
    /\ chan' = IF ChannelClosed \/ Len(chan) >= Capacity THEN chan ELSE Append(chan, frame)
    /\ UNCHANGED <<sink, wsClosed, sock, toClient>>

Send(frame) ==
    /\ CanSend
    /\ chan' = IF ChannelClosed THEN chan ELSE Append(chan, frame)
    /\ UNCHANGED <<sink, wsClosed, sock, toClient>>

InSelect == main = "select"

(* A branch completed: select! drops the others where they stand, with the  *)
(* frame the read branch may hold.                                          *)
EndSelect(next, reason) ==
    /\ main' = next /\ why' = reason
    /\ rd' = NotReading /\ ping' = "tick"

(* The read branch moves on, the select! goes on. *)
Read(at, frame) ==
    /\ rd' = [at |-> at, frame |-> frame]
    /\ UNCHANGED <<main, why, ping>>

ReadNext == Read("next", Ctl("none"))

Reading(at) == InSelect /\ rd.at = at
-------------------------------------------------------------------------------
(* The read branch: WebSocket to CLI.                                       *)

RecvText ==
    /\ Reading("next") /\ wsIn # <<>> /\ Head(wsIn).kind \in TextKinds
    /\ IF Head(wsIn).kind = "blank" THEN ReadNext ELSE Read("count", Head(wsIn))
    /\ wsIn' = Tail(wsIn)
    /\ UNCHANGED <<timer, session, outbound, client, asked, copilot, reader, counts>>

RecvPing ==
    /\ Reading("next") /\ wsIn # <<>> /\ Head(wsIn).kind = "ping"
    /\ Read("pong", Ctl("pong"))
    /\ wsIn' = Tail(wsIn)
    /\ UNCHANGED <<timer, session, outbound, client, asked, copilot, reader, counts>>

(* Mutant: a Pong is not noted. *)
RecvPongIgnored ==
    /\ Reading("next") /\ wsIn # <<>> /\ Head(wsIn).kind = "pong"
    /\ wsIn' = Tail(wsIn)
    /\ UNCHANGED <<task, timer, session, outbound, client, asked, copilot, reader, counts>>

RecvPong ==
    /\ Reading("next") /\ wsIn # <<>> /\ Head(wsIn).kind = "pong"
    /\ age' = 0
    /\ wsIn' = Tail(wsIn)
    /\ UNCHANGED <<task, due, ticks, late, session, outbound, client, asked, copilot, reader, counts>>

RecvClose ==
    /\ Reading("next") /\ wsIn # <<>> /\ Head(wsIn).kind = "close"
    /\ EndSelect("cleanup", "peer")
    /\ wsClosed' = TRUE
    /\ wsIn' = Tail(wsIn)
    /\ UNCHANGED <<timer, session, chan, sink, sock, toClient, client, asked, copilot, reader, counts>>

(* The stream ended or failed; a reset may lose frames that were on the way. *)
RecvEnd ==
    /\ Reading("next") /\ client = "gone"
    /\ EndSelect("cleanup", "peer")
    /\ UNCHANGED <<timer, session, outbound, peer, copilot, reader, counts>>

(* Mutant: the prompt that opens the CLI is not counted. *)
CountTextOnceOpen ==
    /\ Reading("count")
    /\ prompts' = IF rd.frame.kind = "prompt" /\ writer THEN prompts + 1 ELSE prompts
    /\ Read(IF writer THEN "write" ELSE "open", rd.frame)
    /\ UNCHANGED <<timer, session, outbound, peer, copilot, reader, messages>>

(* record_activity and increment_prompts, before anything is written. *)
CountText ==
    /\ Reading("count")
    /\ prompts' = IF rd.frame.kind = "prompt" THEN prompts + 1 ELSE prompts
    /\ Read(IF writer THEN "write" ELSE "open", rd.frame)
    /\ UNCHANGED <<timer, session, outbound, peer, copilot, reader, messages>>

(* Mutant: the text that opens the CLI is not written to it. *)
OpenCliOnly ==
    /\ Reading("open")
    /\ cli' = "up" /\ writer' = TRUE
    /\ reader' = [reader EXCEPT !.at = "read"]
    /\ ReadNext
    /\ UNCHANGED <<timer, session, outbound, peer, stdin, stdout, said, toCli, counts>>

(* First text: spawn the child, or connect, and start the reader task. *)
OpenCli ==
    /\ Reading("open")
    /\ cli' = "up" /\ writer' = TRUE
    /\ reader' = [reader EXCEPT !.at = "read"]
    /\ Read("write", rd.frame)
    /\ UNCHANGED <<timer, session, outbound, peer, stdin, stdout, said, toCli, counts>>

OpenFails ==
    /\ Reading("open")
    /\ cli' = "failed"
    /\ Read("error", Ctl("error"))
    /\ UNCHANGED <<timer, session, outbound, peer, writer, stdin, stdout, said, toCli, reader, counts>>

(* The error message goes to the client, then the branch breaks. *)
SendError ==
    /\ Reading("error")
    /\ Send(rd.frame)
    /\ EndSelect("cleanup", "error")
    /\ UNCHANGED <<timer, session, peer, copilot, reader, counts>>

SendPong ==
    /\ Reading("pong")
    /\ Send(rd.frame)
    /\ ReadNext
    /\ UNCHANGED <<timer, session, peer, copilot, reader, counts>>

(* Mutant: text that is not JSON is written to the child. *)
WriteUnvalidated ==
    /\ Reading("write") /\ rd.frame.kind = "bad"
    /\ cli = "up" /\ Len(stdin) < PipeCap
    /\ stdin' = Append(stdin, rd.frame)
    /\ toCli' = Append(toCli, rd.frame)
    /\ ReadNext
    /\ UNCHANGED <<timer, session, outbound, peer, cli, writer, stdout, said, reader, counts>>

(* Text that is not JSON: skipped in stdio mode, an error of write_line that *)
(* ends the relay in tcp mode.                                              *)
WriteInvalid ==
    /\ Reading("write") /\ rd.frame.kind = "bad"
    /\ IF Stdio THEN ReadNext ELSE EndSelect("cleanup", "write")
    /\ UNCHANGED <<timer, session, outbound, peer, copilot, reader, counts>>

(* write_all and flush complete once the CLI's buffer takes the line. *)
WriteLine ==
    /\ Reading("write") /\ rd.frame.kind # "bad"
    /\ cli = "up" /\ Len(stdin) < PipeCap
    /\ stdin' = Append(stdin, rd.frame)
    /\ toCli' = Append(toCli, rd.frame)
    /\ ReadNext
    /\ UNCHANGED <<timer, session, outbound, peer, cli, writer, stdout, said, reader, counts>>

(* The CLI is gone: the write fails, or over TCP may still seem to succeed. *)
WriteFails ==
    /\ Reading("write") /\ rd.frame.kind # "bad"
    /\ cli = "exited"
    /\ \/ EndSelect("cleanup", "write")
       \/ ~Stdio /\ ReadNext
    /\ UNCHANGED <<timer, session, outbound, peer, copilot, reader, counts>>

ReadBranch ==
    \/ RecvText \/ RecvPing \/ RecvPong \/ RecvClose \/ RecvEnd \/ CountText
    \/ OpenCli \/ OpenFails \/ SendError \/ SendPong
    \/ WriteInvalid \/ WriteLine \/ WriteFails
-------------------------------------------------------------------------------
(* The ping branch.                                                         *)

(* last_pong lies between two intervals, and a due tick may be consumed      *)
(* somewhat late: with PongTicks ticks since last_pong the elapsed time may  *)
(* be on either side of PONG_TIMEOUT.                                       *)
PingTick ==
    /\ InSelect /\ ping = "tick" /\ due > 0
    /\ due' = due - 1
    /\ \/ age >= PongTicks /\ ping' = "close"
       \/ age <= PongTicks /\ ping' = "ping"
    /\ UNCHANGED <<main, why, rd, age, ticks, late, session, outbound, peer, copilot, reader, counts>>

SendPing ==
    /\ InSelect /\ ping = "ping"
    /\ Send(Ctl("ping"))
    /\ IF ChannelClosed THEN EndSelect("cleanup", "peer")
       ELSE ping' = "tick" /\ UNCHANGED <<main, why, rd>>
    /\ UNCHANGED <<timer, session, peer, copilot, reader, counts>>

(* "pong timeout" *)
SendPongTimeout ==
    /\ InSelect /\ ping = "close"
    /\ Send(Ctl("close"))
    /\ EndSelect("cleanup", "pong")
    /\ UNCHANGED <<timer, session, peer, copilot, reader, counts>>

PingBranch == PingTick \/ SendPing \/ SendPongTimeout
-------------------------------------------------------------------------------
(* The shutdown branch, its handler and the cleanup after the select!.      *)

ShutdownSeen ==
    /\ InSelect /\ told
    /\ EndSelect("idleClose", "idle")
    /\ UNCHANGED <<timer, session, outbound, peer, copilot, reader, counts>>

(* "idle timeout", through the same channel *)
SendIdleClose ==
    /\ main = "idleClose"
    /\ Send(Ctl("close"))
    /\ main' = "idleSleep"
    /\ UNCHANGED <<why, rd, ping, timer, session, peer, copilot, reader, counts>>

(* after 250 ms the task's clones of the sender are dropped *)
IdleSleepEnds ==
    /\ main = "idleSleep"
    /\ main' = "cleanup"
    /\ UNCHANGED <<why, rd, ping, timer, session, outbound, peer, copilot, reader, counts>>

(* Mutant: the sink task is not awaited. *)
ReturnWithoutAwait ==
    /\ main = "cleanup"
    /\ main' = "returned"
    /\ writer' = FALSE
    /\ cli' = IF Stdio /\ cli = "up" THEN "killed" ELSE cli
    /\ stdin' = IF Stdio THEN <<>> ELSE stdin
    /\ UNCHANGED <<why, rd, ping, timer, session, outbound, peer, stdout, said, toCli, reader, counts>>

(* sink_task.await is over; returning drops the writer and, in stdio mode,  *)
(* the CopilotProcess, whose Drop kills the child.                          *)
Return ==
    /\ main = "cleanup" /\ ChannelClosed
    /\ main' = "returned"
    /\ writer' = FALSE
    /\ cli' = IF Stdio /\ cli = "up" THEN "killed" ELSE cli
    /\ stdin' = IF Stdio THEN <<>> ELSE stdin
    /\ UNCHANGED <<why, rd, ping, timer, session, outbound, peer, stdout, said, toCli, reader, counts>>

Finish == SendIdleClose \/ IdleSleepEnds \/ Return
-------------------------------------------------------------------------------
(* The sink task.                                                           *)

(* A sender is alive: the relay's clones before cleanup, the reader's after. *)
SendersAlive == main \in {"select", "idleClose", "idleSleep"} \/ reader.at \in {"read", "send"}

(* Mutant: the newest frame goes out first. *)
SinkRecvNewest ==
    /\ sink.at = "recv" /\ chan # <<>>
    /\ sink' = [at |-> "send", frame |-> Last(chan)]
    /\ chan' = Front(chan)
    /\ UNCHANGED <<task, timer, session, wsClosed, sock, toClient, peer, copilot, reader, counts>>

SinkRecv ==
    /\ sink.at = "recv" /\ chan # <<>>
    /\ sink' = [at |-> "send", frame |-> Head(chan)]
    /\ chan' = Tail(chan)
    /\ UNCHANGED <<task, timer, session, wsClosed, sock, toClient, peer, copilot, reader, counts>>

SinkSend ==
    /\ sink.at = "send" /\ ~wsClosed /\ client = "open" /\ Len(sock) < SockCap
    /\ sock' = Append(sock, sink.frame)
    /\ toClient' = IF sink.frame.kind \in {"ping", "pong"} THEN toClient
                   ELSE Append(toClient, sink.frame)
    /\ wsClosed' = (sink.frame.kind = "close")
    /\ sink' = [at |-> "recv", frame |-> Ctl("none")]
    /\ UNCHANGED <<task, timer, session, chan, peer, copilot, reader, counts>>

(* Sending after a Close, or to a client that is gone, is an error; the last *)
(* may go unnoticed for a while.  The receiver is dropped with the task.    *)
SinkFails ==
    /\ sink.at = "send" /\ (wsClosed \/ client = "gone")
    /\ sink' = [at |-> "failed", frame |-> Ctl("none")]
    /\ chan' = <<>>
    /\ UNCHANGED <<task, timer, session, wsClosed, sock, toClient, peer, copilot, reader, counts>>

SinkLoses ==
    /\ sink.at = "send" /\ ~wsClosed /\ client = "gone"
    /\ sink' = [at |-> "recv", frame |-> Ctl("none")]
    /\ wsClosed' = (sink.frame.kind = "close")
    /\ UNCHANGED <<task, timer, session, chan, sock, toClient, peer, copilot, reader, counts>>

(* recv returns None: every sender is dropped and the channel is empty. *)
SinkEnds ==
    /\ sink.at = "recv" /\ chan = <<>> /\ ~SendersAlive
    /\ sink' = [sink EXCEPT !.at = "ended"]
    /\ UNCHANGED <<task, timer, session, chan, wsClosed, sock, toClient, peer, copilot, reader, counts>>

Sink == SinkRecv \/ SinkSend \/ SinkFails \/ SinkLoses \/ SinkEnds
-------------------------------------------------------------------------------
(* The reader task: CLI to channel.                                         *)

ReaderStops == reader' = [at |-> "ended", line |-> Ctl("none")]

(* The lines at which the task ends for good, while the relay goes on. *)
Stops == IF Stdio THEN {"garbled"} ELSE {"garbled", "bad"}

(* A JSON line is counted, if it is a session/update, and then sent.  A line *)
(* that is not JSON is skipped in stdio mode and ends the task in tcp mode; *)
(* one that cannot be read ends it in both.                                 *)
ReadLine ==
    /\ reader.at = "read" /\ stdout # <<>>
    /\ LET line == Head(stdout) IN
       /\ CASE line.kind \in Stops -> ReaderStops
            [] line.kind \in {"blank", "bad"} \ Stops -> UNCHANGED reader
            [] OTHER -> reader' = [at |-> "send", line |-> line]
       /\ messages' = IF line.kind = "update" THEN messages + 1 ELSE messages
    /\ stdout' = Tail(stdout)
    /\ UNCHANGED <<task, timer, session, outbound, peer, cli, writer, stdin, said, toCli, prompts>>

ReadEof ==
    /\ reader.at = "read" /\ stdout = <<>> /\ cli \in {"exited", "killed"}
    /\ ReaderStops
    /\ UNCHANGED <<task, timer, session, outbound, peer, copilot, counts>>

(* Mutant: the reader ends after the first line. *)
SendLineOnce ==
    /\ reader.at = "send"
    /\ Send(reader.line)
    /\ ReaderStops
    /\ UNCHANGED <<task, timer, session, peer, copilot, counts>>

SendLine ==
    /\ reader.at = "send"
    /\ Send(reader.line)
    /\ IF ChannelClosed THEN ReaderStops ELSE reader' = [at |-> "read", line |-> Ctl("none")]
    /\ UNCHANGED <<task, timer, session, peer, copilot, counts>>

Reader == ReadLine \/ ReadEof \/ SendLine
-------------------------------------------------------------------------------
(* The world around the relay.                                              *)

Asks(kind) ==
    /\ client = "open" /\ Len(wsIn) < SockCap /\ Len(asked) < MaxAsk
    /\ \A i \in DOMAIN asked : asked[i].kind # "close"
    /\ LET frame == [kind |-> kind, n |-> Len(asked) + 1] IN
       /\ asked' = Append(asked, frame)
       /\ wsIn' = Append(wsIn, frame)
    /\ UNCHANGED <<task, timer, session, outbound, client, copilot, reader, counts>>

(* A WebSocket library answers a Ping with a Pong by itself; the few bytes   *)
(* of a Pong always fit.                                                    *)
ClientReads ==
    /\ client = "open" /\ sock # <<>>
    /\ wsIn' = IF Head(sock).kind = "ping" THEN Append(wsIn, Ctl("pong")) ELSE wsIn
    /\ sock' = Tail(sock)
    /\ UNCHANGED <<task, timer, session, chan, sink, wsClosed, toClient, client, asked, copilot, reader, counts>>

ClientLeaves ==
    /\ client = "open"
    /\ client' = "gone"
    /\ UNCHANGED <<task, timer, session, outbound, wsIn, asked, copilot, reader, counts>>

CliReads ==
    /\ cli = "up" /\ stdin # <<>>
    /\ stdin' = Tail(stdin)
    /\ UNCHANGED <<task, timer, session, outbound, peer, cli, writer, stdout, said, toCli, reader, counts>>

Says(kind) ==
    /\ cli = "up" /\ Len(stdout) < PipeCap /\ Len(said) < MaxSay
    /\ LET line == [kind |-> kind, n |-> Len(said) + 1] IN
       /\ said' = Append(said, line)
       /\ stdout' = Append(stdout, line)
    /\ UNCHANGED <<task, timer, session, outbound, peer, cli, writer, stdin, toCli, reader, counts>>

CliExits ==
    /\ cli = "up"
    /\ cli' = "exited"
    /\ stdin' = <<>>
    /\ UNCHANGED <<task, timer, session, outbound, peer, writer, stdout, said, toCli, reader, counts>>

(* The idle checker sent true, or DELETE dropped the session's entry. *)
SessionTells ==
    /\ ~told
    /\ told' = TRUE
    /\ UNCHANGED <<mode, task, timer, outbound, peer, copilot, reader, counts>>

(* The CLI does not read, and the read branch waits in write_all for it. *)
CliStalls == Reading("write") /\ rd.frame.kind # "bad" /\ cli = "up" /\ Len(stdin) = PipeCap

(* Everything else is done: pings sent, frames taken, the channel emptied. *)
Settled ==
    /\ due = 0 /\ ping = "tick" /\ chan = <<>> /\ sink.at # "send"
    /\ rd.at = "next" /\ wsIn = <<>>

(* What a ping or its answer waits for: a client that has not read it, a CLI *)
(* that does not read, or if neither, a runtime that has not got round.     *)
Holdup ==
    IF sock # <<>> THEN "client"
    ELSE IF CliStalls THEN "cli"
    ELSE IF Settled THEN "none" ELSE "runtime"

(* A ping interval passes. *)
Tick ==
    /\ ticks < MaxTicks
    /\ ticks' = ticks + 1 /\ due' = due + 1 /\ age' = age + 1
    /\ late' = IF InSelect /\ age' >= PongTicks THEN Holdup ELSE late
    /\ UNCHANGED <<task, session, outbound, peer, copilot, reader, counts>>

Environment ==
    \/ \E kind \in ClientFrames : Asks(kind)
    \/ \E kind \in CliLines : Says(kind)
    \/ ClientReads \/ ClientLeaves \/ CliReads \/ CliExits \/ SessionTells \/ Tick
-------------------------------------------------------------------------------
Next == ReadBranch \/ PingBranch \/ ShutdownSeen \/ Finish \/ Sink \/ Reader \/ Environment

Spec == Init /\ [][Next]_vars

(* The runtime keeps polling every task, and every branch of the select!.   *)
BridgeRuns ==
    /\ WF_vars(ReadBranch) /\ WF_vars(PingBranch) /\ WF_vars(ShutdownSeen)
    /\ WF_vars(Finish) /\ WF_vars(Sink) /\ WF_vars(Reader)

ClientKeepsReading == WF_vars(ClientReads)

CliKeepsReading == WF_vars(CliReads)

CliComesToAnEnd == WF_vars(CliExits)

TimePasses == WF_vars(Tick)

(* Only the bridge's own tasks are fair. *)
BridgeSpec == Spec /\ BridgeRuns /\ TimePasses

(* A client that reads what it is sent, a CLI that never ends by itself. *)
ReadingClientSpec == BridgeSpec /\ ClientKeepsReading /\ CliKeepsReading

(* ... and a CLI that ends some day. *)
EndingCliSpec == ReadingClientSpec /\ CliComesToAnEnd
-------------------------------------------------------------------------------
(* Properties.                                                             *)

OutFrames == Frame({"update", "reply", "error", "ping", "pong", "close"})

TaskOK ==
    /\ main \in {"select", "idleClose", "idleSleep", "cleanup", "returned"}
    /\ why \in {"none", "peer", "error", "write", "pong", "idle"}
    /\ rd \in [at : {"next", "count", "open", "write", "error", "pong"},
               frame : Frame(TextKinds \cup {"none", "error", "pong"})]
    /\ ping \in {"tick", "ping", "close"}

TimerOK ==
    /\ due \in Nat /\ age \in Nat /\ ticks \in Nat
    /\ late \in {"none", "client", "cli", "runtime"}

OutboundOK ==
    /\ chan \in Seq(OutFrames) /\ Len(chan) <= Capacity
    /\ sink \in [at : {"recv", "ended", "failed"}, frame : Frame({"none"})]
               \cup [at : {"send"}, frame : OutFrames]
    /\ wsClosed \in BOOLEAN
    /\ sock \in Seq(OutFrames) /\ Len(sock) <= SockCap
    /\ toClient \in Seq(OutFrames)

PeerOK ==
    /\ client \in {"open", "gone"}
    /\ wsIn \in Seq(Frame(TextKinds \cup {"ping", "pong", "close"}))
    /\ asked \in Seq(Frame(TextKinds \cup {"ping", "close"}))

CopilotOK ==
    /\ cli \in {"none", "up", "failed", "exited", "killed"} /\ writer \in BOOLEAN
    /\ stdin \in Seq(Frame(TextKinds)) /\ toCli \in Seq(Frame(TextKinds))
    /\ stdout \in Seq(Frame(LineKinds)) /\ said \in Seq(Frame(LineKinds))

TypeOK ==
    /\ TaskOK /\ TimerOK /\ OutboundOK /\ PeerOK /\ CopilotOK
    /\ mode \in Modes /\ told \in BOOLEAN
    /\ reader \in [at : {"none", "read", "send", "ended"}, line : Frame(LineKinds \cup {"none"})]
    /\ prompts \in Nat /\ messages \in Nat

(* The frames of some kinds, in order.  A recursive function because the     *)
(* provers cannot expand SelectSeq.                                         *)
Kinds(seq, kinds) ==
    LET pick[i \in 0..Len(seq)] ==
            IF i = 0 THEN <<>>
            ELSE IF seq[i].kind \in kinds THEN Append(pick[i - 1], seq[i]) ELSE pick[i - 1]
    IN pick[Len(seq)]

Messages == [kind : {"prompt", "request", "update", "reply"}, n : 1..(MaxAsk + MaxSay)]

(* The relay is transparent (docs/architecture.md, Design constraints): what *)
(* the CLI is written is what the client sent, once each, in order, without  *)
(* a gap, whatever the select! cancels and whatever the text is.            *)
Upward == INSTANCE OrderedPipe WITH
    Message <- Messages, accepted <- Kinds(asked, {"prompt", "request"}), delivered <- toCli

UpwardSpec == Upward!Spec

(* ... and what the client is sent is what the CLI said, though the lines go *)
(* through a task, a channel and a second task, next to pings and errors.   *)
Downward == INSTANCE OrderedPipe WITH
    Message <- Messages, accepted <- Kinds(said, {"update", "reply"}),
    delivered <- Kinds(toClient, {"update", "reply"})

DownwardSpec == Downward!Spec

(* The session's counters never fall behind what was delivered: the relay   *)
(* counts a prompt before it writes it and the reader an update before it   *)
(* sends it, so that a branch dropped in between loses no count.            *)
CountsCoverDelivery ==
    /\ prompts >= Len(Kinds(toCli, {"prompt"}))
    /\ messages >= Len(Kinds(toClient, {"update"}))

(* A relay that ends on its own side, for a write or a spawn that failed,    *)
(* ends no earlier than its answers: when it has returned, a client that    *)
(* stayed and was sent no Close has been sent all that the CLI said, up to  *)
(* the line at which the reader task gave up.  What is still in the channel, *)
(* in the sink task or in the reader task's hands is not cut off.           *)
ReturnLosesNothing ==
    main = "returned" /\ client = "open" /\ ~wsClosed =>
        LET unread == IF Kinds(said, Stops) = <<>> THEN <<>> ELSE stdout
        IN Kinds(toClient, {"update", "reply"}) \o Kinds(unread, {"update", "reply"})
           = Kinds(said, {"update", "reply"})

(* A client that stays learns why it lost its session: the error of a spawn *)
(* or a connect that failed, and the Close of both timeouts, reach it       *)
(* before the relay returns although they go through the channel (comments  *)
(* and log lines of ws.rs: "sending close frame").                          *)
LastWordDelivered ==
    main = "returned" /\ client = "open" =>
        CASE why = "error" -> Kinds(toClient, {"error"}) # <<>>
          [] why \in {"pong", "idle"} -> Kinds(toClient, {"close"}) # <<>>
          [] OTHER -> TRUE

(* A client that stays is dropped for a pong timeout only if, at the moment   *)
(* the answer became overdue, the client had not read its ping, or the CLI  *)
(* did not read its stdin, behind which the pongs then wait, or the runtime *)
(* had not run for an interval; never because of how answers, ticks,        *)
(* traffic and the client's own pings fall together.  PONG_TIMEOUT leaves a  *)
(* ping at least an interval to be answered in.                             *)
ResponsiveNeverDropped ==
    PongTicks >= 2 /\ why = "pong" => late # "none" \/ client = "gone"

(* A session told to shut down, for being idle or by DELETE, ends            *)
(* (docs/architecture.md, Session lifecycle): its relay returns, with it    *)
(* goes the child, and the reader task it spawned ends.                     *)
ToldEnds == told ~> main = "returned" /\ reader.at \in {"none", "ended"}

(* A client that has not answered pings for longer than the pong timeout is *)
(* disconnected, unless it answers after all (docs/architecture.md,         *)
(* Keepalive: idle or dead peers are disconnected).                         *)
SilentPeerDropped ==
    age > PongTicks /\ ticks = MaxTicks ~> main # "select" \/ age <= PongTicks

(* What the CLI says reaches the client for as long as both stay, or was     *)
(* said after a line that ends the reader task and leaves the relay running: *)
(* one that cannot be read and, over TCP only, one that is not JSON, which  *)
(* the child's reader skips.                                                *)
AfterStop(i) ==
    \E k \in DOMAIN said :
        said[k].kind \in Stops /\ Len(Kinds(SubSeq(said, 1, k), {"update", "reply"})) < i

AnswersDelivered ==
    \A i \in 1..MaxSay :
        Len(Kinds(said, {"update", "reply"})) >= i ~>
            \/ Len(Kinds(toClient, {"update", "reply"})) >= i
            \/ client = "gone" \/ wsClosed
            \/ AfterStop(i)

(* What the client asks reaches the CLI, or the session ends.  Not of a TCP  *)
(* CLI that left: a write to it may still seem to succeed, and relay_lazy    *)
(* does not look at its reader task, so such a text is lost in silence.    *)
PromptsForwarded ==
    \A i \in 1..MaxAsk :
        Len(Kinds(asked, {"prompt", "request"})) >= i ~>
            Len(toCli) >= i \/ main # "select" \/ (~Stdio /\ cli = "exited")
===============================================================================
