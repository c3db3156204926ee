--------------------------------- MODULE Bridge ---------------------------------
(***************************************************************************)
(* One connection of the bridge from accept to close: the session tracker  *)
(* (SessionManager) and the relay (Relay) put together, as                  *)
(* handle_ws_connection of src/bridge.rs does.  They share                 *)
(*   - the shutdown channel: the relay is told when its value becomes true  *)
(*     or when its sender is dropped with the session's entry, so that     *)
(*     Relay's variable told follows the tracker's watch;                  *)
(*   - the tracker's lock: the read branch and the reader task record what  *)
(*     passes them, a call at a time, and other tasks run between calls;   *)
(*   - the places of the handler: the relay runs between Activate and the   *)
(*     last touch.                                                         *)
(* Each component on its own assumes something of the other: the tracker    *)
(* that a relay may call and return as it likes, the relay that it is told *)
(* at most once and for good.  The composition implements both.            *)
(***************************************************************************)
EXTENDS Relay

CONSTANTS
    Conns, IdleTimeout, MaxTime, MaxCount, CopilotIds, CommandLists   \* of SessionManager

ASSUME OneConnection == \E c \in Conns : Conns = {c}

(* The bounds of the tracker leave room for those of the relay. *)
ASSUME TrackerAssumption ==
    /\ {IdleTimeout, MaxTime, MaxCount} \subseteq Nat
    /\ MaxAsk <= MaxCount /\ MaxSay <= MaxCount

VARIABLES
    counter, sessions, watch, conn, now, scan, request,     \* of SessionManager
    calls       \* calls of the tracker that the read branch, the reader task have to make

tracker == <<counter, sessions, watch, conn, now, scan, request>>
relay == vars
connVars == <<tracker, relay, calls>>
-------------------------------------------------------------------------------
c == CHOOSE connection \in Conns : TRUE

(* Mutant: the end of the channel is not an order to stop. *)
ToldByValue == watch[c].value

(* changed() returns when true was sent, and fails when the sender is gone. *)
Told == watch[c].value \/ ~watch[c].open

(* What the tracker's model tells apart about a reader task. *)
ReaderTask ==
    [connection \in Conns |-> CASE reader.at = "none" -> "none"
                                [] reader.at = "ended" -> "ended"
                                [] OTHER -> "up"]

T == INSTANCE SessionManager WITH reader <- ReaderTask

(* An id or a list of commands is not the absence of one. *)
ASSUME SomeAssumption == T!None \notin CopilotIds \cup CommandLists

NoCalls == [branch |-> <<>>, task |-> <<>>]

ConnInit ==
    /\ watch = [connection \in Conns |-> [value |-> FALSE, open |-> TRUE]]
    /\ Init
    /\ T!Init
    /\ calls = NoCalls
-------------------------------------------------------------------------------
(* The handler around the relay.                                            *)

(* A step beside the relay, and what the relay sees of it. *)
Beside == UNCHANGED <<task, timer, mode, outbound, peer, copilot, reader, counts, calls>>

Notices == told' = Told'

Handler ==
    /\ Beside
    /\ T!FetchSeq(c) \/ T!Register(c) \/ T!Activate(c) \/ T!FinalTouch(c) \/ T!Unregister(c)
    /\ Notices

(* The tasks of the rest of the bridge. *)
IdleChecker == Beside /\ (T!ScanTick \/ T!DisconnectIdle) /\ Notices

Others ==
    \/ IdleChecker
    \/ Beside /\ ((\E i \in 1..counter : T!delete_session(i)) \/ T!Tick) /\ Notices
-------------------------------------------------------------------------------
(* The relay, and the calls it makes.                                       *)

Running == T!At(c, "relay")

id == conn[c].id

Call(name) ==
    /\ CASE name = "touch" -> T!touch(id)
         [] name = "prompt" -> T!increment_prompts(id)
         [] name = "message" -> T!increment_messages(id)
         [] name = "id" -> \E cid \in CopilotIds : T!set_copilot_session_id(id, cid)
         [] name = "commands" -> \E cmds \in CommandLists : T!set_available_commands(id, cmds)
    /\ UNCHANGED <<counter, conn, now, scan, request>>

CallsOfText(text) == IF text.kind = "prompt" THEN <<"touch", "prompt">> ELSE <<"touch">>

(* A reply may carry the CLI's session id, an update the commands. *)
CallsOfLine(line) ==
    IF line.kind = "update" THEN <<"touch", "message", "commands">> ELSE <<"touch", "id">>

(* Mutant: the line is sent on before its calls are made. *)
SendsFirst == TRUE

(* The reader task sends a line on once its calls are made. *)
CallsMade == calls.task = <<>>

(* The select! drops the read branch with the calls it has not made. *)
BranchCalls(text) ==
    calls' = [calls EXCEPT !.branch = IF rd'.at = "count" THEN CallsOfText(text) ELSE <<>>]

KeepBranchCalls == calls' = [calls EXCEPT !.branch = IF rd'.at = "count" THEN @ ELSE <<>>]

Reads ==
    /\ Running /\ UNCHANGED tracker
    /\ \/ RecvText /\ BranchCalls(rd'.frame)
       \/ calls.branch = <<>> /\ CountText /\ UNCHANGED calls
       \/ /\ \/ RecvPing \/ RecvPong \/ RecvClose \/ RecvEnd
             \/ OpenCli \/ OpenFails \/ SendError \/ SendPong
             \/ WriteInvalid \/ WriteLine \/ WriteFails
          /\ UNCHANGED calls

(* Mutant: recording activity marks the session Active. *)
BranchCallActivates ==
    /\ Running /\ calls.branch # <<>>
    /\ IF Head(calls.branch) = "touch"
       THEN T!update_status(id, "Active") /\ UNCHANGED <<counter, conn, now, scan, request>>
       ELSE Call(Head(calls.branch))
    /\ calls' = [calls EXCEPT !.branch = Tail(@)]
    /\ UNCHANGED relay

BranchCall ==
    /\ Running /\ calls.branch # <<>>
    /\ Call(Head(calls.branch))
    /\ calls' = [calls EXCEPT !.branch = Tail(@)]
    /\ UNCHANGED relay

OtherBranches ==
    /\ Running /\ UNCHANGED tracker
    /\ PingBranch \/ ShutdownSeen \/ SendIdleClose \/ IdleSleepEnds
    /\ KeepBranchCalls

(* Mutant: the handler does not wait for the relay once it has been told. *)
ReturnsWhenTold ==
    /\ Running /\ Told
    /\ T!GoTo(c, "returned")
    /\ main' = "returned"
    /\ UNCHANGED <<counter, sessions, watch, now, scan, request, why, rd, ping, due, age, ticks,
                   late, chan, sink, wsClosed, sock, wsIn, client, cli, writer, stdin, stdout,
                   reader, prompts, messages, asked, toCli, said, toClient, mode, told, calls>>

(* The relay returns to the handler. *)
Returns ==
    /\ Running
    /\ T!GoTo(c, "returned")
    /\ UNCHANGED <<counter, sessions, watch, now, scan, request>>
    /\ Return
    /\ UNCHANGED calls

Sends ==
    /\ T!Inserted(c) /\ ~T!At(c, "registered")
    /\ UNCHANGED <<tracker, calls>>
    /\ Sink

ReaderCall ==
    /\ calls.task # <<>>
    /\ Call(Head(calls.task))
    /\ calls' = [calls EXCEPT !.task = Tail(@)]
    /\ UNCHANGED relay

ReaderMoves ==
    /\ UNCHANGED tracker
    /\ \/ /\ ReadLine
          /\ calls' = [calls EXCEPT !.task = IF reader'.at = "send" THEN CallsOfLine(reader'.line)
                                             ELSE <<>>]
       \/ ReadEof /\ UNCHANGED calls
       \/ CallsMade /\ SendLine /\ UNCHANGED calls

(* The client is connected before its session is registered. *)
World ==
    /\ UNCHANGED <<tracker, calls>>
    /\ \/ \E kind \in ClientFrames : Asks(kind)
       \/ \E kind \in CliLines : Says(kind)
       \/ ClientReads \/ ClientLeaves \/ CliReads \/ CliExits
       \/ Running /\ Tick      \* of ping_interval; the tracker's clock is T!Tick
-------------------------------------------------------------------------------
ConnNext ==
    \/ Handler \/ Others \/ Reads \/ BranchCall \/ OtherBranches \/ Returns
    \/ Sends \/ ReaderCall \/ ReaderMoves \/ World

ConnSpec == ConnInit /\ [][ConnNext]_connVars

(* The runtime polls the connection's tasks and the checker's.  Whatever a   *)
(* task does but scanning is done once, so a task that may move moves on.   *)
ConnRuns ==
    /\ WF_connVars(Handler \/ Reads \/ BranchCall \/ OtherBranches \/ Returns)
    /\ WF_connVars(Sends)
    /\ WF_connVars(ReaderCall \/ ReaderMoves)
    /\ WF_connVars(IdleChecker)

(* The client reads, and the CLI reads and ends some day. *)
PeersCooperate ==
    WF_connVars(UNCHANGED <<tracker, calls>> /\ (ClientReads \/ CliReads \/ CliExits))

FairConnSpec == ConnSpec /\ ConnRuns /\ PeersCooperate
-------------------------------------------------------------------------------
(* Properties.                                                             *)

ConnTypeOK ==
    /\ T!TypeOK
    /\ TypeOK
    /\ calls.branch \in {<<>>, <<"touch">>, <<"prompt">>, <<"touch", "prompt">>}
    /\ calls.task \in {<<>>, <<"touch", "message", "commands">>, <<"message", "commands">>,
                       <<"commands">>, <<"touch", "id">>, <<"id">>}

(* Whatever the relay does is among the things the tracker's model lets a    *)
(* relay do: what is proved of the tracker holds with the real relay.       *)
TrackerSpec == T!Spec

(* Whatever the tracker does to the shutdown channel is what the relay's     *)
(* model lets it do: told once, for being idle, by DELETE or by the relay's  *)
(* own end, and never untold.                                               *)
RelaySpec == Spec

(* What the session list says of a session's traffic lies between what was   *)
(* delivered and what was sent, though the counters are kept by other tasks, *)
(* under another lock, than the traffic.                                    *)
CountsMatchTraffic ==
    T!Holds(id) =>
        /\ Len(Kinds(toCli, {"prompt"})) <= sessions[id].prompt_count
        /\ sessions[id].prompt_count <= Len(Kinds(asked, {"prompt"}))
        /\ Len(Kinds(toClient, {"update"})) <= sessions[id].message_count
        /\ sessions[id].message_count <= Len(Kinds(said, {"update"}))

(* A client that has seen its session's id or commands go by finds them in   *)
(* the REST API as long as the session is listed.                           *)
SeenIsListed ==
    T!Holds(id) =>
        /\ Kinds(toClient, {"reply"}) # <<>> => sessions[id].copilot_session_id # T!None
        /\ Kinds(toClient, {"update"}) # <<>> => sessions[id].available_commands # T!None

Over ==
    /\ T!At(c, "closed") /\ ~T!Holds(id)
    /\ reader.at \in {"none", "ended"} /\ ChannelClosed
    /\ mode = "stdio" => cli # "up"

(* A session that is told to stop or deleted ends altogether: its handler is *)
(* done, its entry gone, its child dead and its tasks over; and so does one  *)
(* that stays idle past the timeout, though activity and scans race         *)
(* (docs/architecture.md, Session lifecycle).                               *)
MustEnd == T!PhaseOf(c) \in {"told", "removed"} \/ T!Overdue(c)

SessionEnds == MustEnd ~> Over \/ ~MustEnd
===============================================================================
