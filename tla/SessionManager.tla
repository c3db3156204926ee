----------------------------- MODULE SessionManager -----------------------------
(***************************************************************************)
(* The shared session tracker of the bridge (src/session.rs) with every    *)
(* task that uses it: the connection handlers (src/bridge.rs), the reader  *)
(* task each relay spawns (src/ws.rs), the REST handlers (src/api.rs) and  *)
(* the background idle checker.                                            *)
(*                                                                         *)
(* The map is behind one tokio Mutex, so each method is one action; what   *)
(* the code does before it takes the lock (the fetch_add of register, the  *)
(* Instant::now() of register and of disconnect_idle) is an action of its  *)
(* own, because other tasks run in between.                                *)
(***************************************************************************)
EXTENDS Integers, FiniteSets

CONSTANTS
    Conns,          \* WebSocket connections accepted over the bridge's life
    IdleTimeout,    \* --idle-timeout-secs, in clock units
    MaxTime,        \* bound on the clock
    MaxCount,       \* bound on prompt_count and on message_count
    CopilotIds,     \* values of copilot_session_id
    CommandLists    \* values of available_commands

ASSUME IdleTimeoutAssumption == IdleTimeout \in Nat
ASSUME BoundsAssumption == MaxTime \in Nat /\ MaxCount \in Nat

VARIABLES
    counter,        \* the AtomicU64 session ids are drawn from
    sessions,       \* the HashMap: a function from the ids it holds to entries
    watch,          \* watch[c]: the shutdown channel register made for c
    conn,           \* conn[c]: where c's handler is, its id and its Instant
    reader,         \* reader[c]: the reader task spawned by c's relay
    now,            \* Instant::now()
    scan,           \* the idle checker: waiting for a tick or for the lock
    request         \* one GET /api/sessions/:id/commands, between its two reads

vars == <<counter, sessions, watch, conn, reader, now, scan, request>>
-------------------------------------------------------------------------------
Status == {"Connecting", "Active", "Idle", "Disconnected", "Error"}

None == "None"              \* Option::None

Ids == Nat \ {0}            \* "remo_sess_{:03}" of a sequence number

Entry == [status : Status, last_activity : Nat,
          prompt_count : Nat, message_count : Nat,
          copilot_session_id : CopilotIds \cup {None},
          available_commands : CommandLists \cup {None},
          shutdown_tx : Conns]      \* whose watch channel the sender belongs to

Watch == [value : BOOLEAN, open : BOOLEAN]  \* open: the sender is not dropped

(* The steps of handle_ws_connection: about to register, between fetch_add  *)
(* and the insertion, registered, inside the relay, after it, after the     *)
(* last touch, finished.                                                    *)
Steps == {"accepted", "numbered", "registered", "relay", "returned", "touched", "closed"}

NoRequest == [at |-> "none", id |-> 0, owner |-> None]

Init ==
    /\ counter = 0
    /\ sessions = [id \in {} |-> None]
    /\ watch = [c \in Conns |-> [value |-> FALSE, open |-> TRUE]]
    /\ conn = [c \in Conns |-> [at |-> "accepted", id |-> 0, instant |-> 0]]
    /\ reader = [c \in Conns |-> "none"]
    /\ now = 0
    /\ scan = [at |-> "tick", now |-> 0]
    /\ request = NoRequest
-------------------------------------------------------------------------------
(* Operations under the lock.                                              *)

Holds(id) == id \in DOMAIN sessions

(* if let Some(entry) = sessions.get_mut(id) { *entry = e } *)
GetMut(id, e) ==
    /\ sessions' = IF Holds(id) THEN [sessions EXCEPT ![id] = e] ELSE sessions
    /\ UNCHANGED watch

(* Mutant: activity makes a session Active again, whatever it was. *)
touchActivates(id) ==
    GetMut(id, [sessions[id] EXCEPT !.status = "Active", !.last_activity = now])

(* Mutant: activity takes the order to shut down back. *)
touchRevives(id) ==
    /\ sessions' = IF Holds(id) THEN [sessions EXCEPT ![id].last_activity = now] ELSE sessions
    /\ watch' = IF Holds(id) THEN [watch EXCEPT ![sessions[id].shutdown_tx].value = FALSE]
                ELSE watch

touch(id) == GetMut(id, [sessions[id] EXCEPT !.last_activity = now])

update_status(id, status) ==
    GetMut(id, [sessions[id] EXCEPT !.status = status, !.last_activity = now])

increment_prompts(id) == GetMut(id, [sessions[id] EXCEPT !.prompt_count = @ + 1])

increment_messages(id) == GetMut(id, [sessions[id] EXCEPT !.message_count = @ + 1])

set_copilot_session_id(id, cid) ==
    GetMut(id, [sessions[id] EXCEPT !.copilot_session_id = cid])

set_available_commands(id, cmds) ==
    GetMut(id, [sessions[id] EXCEPT !.available_commands = cmds])

(* HashMap::insert: an entry already under that id is dropped, and with it *)
(* its shutdown sender.                                                    *)
insert(id, e) ==
    /\ sessions' = [i \in DOMAIN sessions \cup {id} |-> IF i = id THEN e ELSE sessions[i]]
    /\ watch' = IF Holds(id)
                THEN [watch EXCEPT ![sessions[id].shutdown_tx].open = FALSE]
                ELSE watch

(* HashMap::remove: the entry is dropped, and with it its shutdown sender. *)
remove(id) ==
    /\ sessions' = [i \in DOMAIN sessions \ {id} |-> sessions[i]]
    /\ watch' = IF Holds(id)
                THEN [watch EXCEPT ![sessions[id].shutdown_tx].open = FALSE]
                ELSE watch
-------------------------------------------------------------------------------
(* The handler of connection c.                                            *)

At(c, step) == conn[c].at = step

GoTo(c, step) == conn' = [conn EXCEPT ![c].at = step]

(* Mutant: the id is the number of sessions plus one. *)
FetchSeqByLen(c) ==
    /\ At(c, "accepted")
    /\ counter' = counter + 1
    /\ conn' = [conn EXCEPT ![c] = [at |-> "numbered", id |-> Cardinality(DOMAIN sessions) + 1,
                                    instant |-> now]]
    /\ UNCHANGED <<sessions, watch, reader, now, scan, request>>

(* register, before it takes the lock: the id and the Instant. *)
FetchSeq(c) ==
    /\ At(c, "accepted")
    /\ counter' = counter + 1
    /\ conn' = [conn EXCEPT ![c] = [at |-> "numbered", id |-> counter + 1, instant |-> now]]
    /\ UNCHANGED <<sessions, watch, reader, now, scan, request>>

(* register, under the lock. *)
Register(c) ==
    /\ At(c, "numbered")
    /\ insert(conn[c].id,
              [status |-> "Connecting", last_activity |-> conn[c].instant,
               prompt_count |-> 0, message_count |-> 0,
               copilot_session_id |-> None, available_commands |-> None,
               shutdown_tx |-> c])
    /\ GoTo(c, "registered")
    /\ UNCHANGED <<counter, reader, now, scan, request>>

Activate(c) ==
    /\ At(c, "registered")
    /\ update_status(conn[c].id, "Active")
    /\ GoTo(c, "relay")
    /\ UNCHANGED <<counter, reader, now, scan, request>>

(* The relay and its reader task call the tracker while the relay runs.  The *)
(* relay may return for any of the reasons ws.rs has; a reader that is up    *)
(* may outlive it.                                                          *)
RelayCalls(c) ==
    /\ At(c, "relay")
    /\ \/ touch(conn[c].id)
       \/ /\ Holds(conn[c].id) => sessions[conn[c].id].prompt_count < MaxCount
          /\ increment_prompts(conn[c].id)
    /\ UNCHANGED <<counter, conn, reader, now, scan, request>>

SpawnReader(c) ==
    /\ At(c, "relay") /\ reader[c] = "none"
    /\ reader' = [reader EXCEPT ![c] = "up"]
    /\ UNCHANGED <<counter, sessions, watch, conn, now, scan, request>>

ReaderCalls(c) ==
    /\ reader[c] = "up"
    /\ \/ touch(conn[c].id)
       \/ /\ Holds(conn[c].id) => sessions[conn[c].id].message_count < MaxCount
          /\ increment_messages(conn[c].id)
       \/ \E cid \in CopilotIds : set_copilot_session_id(conn[c].id, cid)
       \/ \E cmds \in CommandLists : set_available_commands(conn[c].id, cmds)
    /\ UNCHANGED <<counter, conn, reader, now, scan, request>>

ReaderEnds(c) ==
    /\ reader[c] = "up"
    /\ reader' = [reader EXCEPT ![c] = "ended"]
    /\ UNCHANGED <<counter, sessions, watch, conn, now, scan, request>>

RelayReturns(c) ==
    /\ At(c, "relay")
    /\ GoTo(c, "returned")
    /\ UNCHANGED <<counter, sessions, watch, reader, now, scan, request>>

FinalTouch(c) ==
    /\ At(c, "returned")
    /\ touch(conn[c].id)
    /\ GoTo(c, "touched")
    /\ UNCHANGED <<counter, reader, now, scan, request>>

(* Mutant: a session the idle checker disconnected is left to the checker. *)
UnregisterUnlessTold(c) ==
    /\ At(c, "touched")
    /\ IF watch[c].value THEN UNCHANGED <<sessions, watch>> ELSE remove(conn[c].id)
    /\ GoTo(c, "closed")
    /\ UNCHANGED <<counter, reader, now, scan, request>>

Unregister(c) ==
    /\ At(c, "touched")
    /\ remove(conn[c].id)
    /\ GoTo(c, "closed")
    /\ UNCHANGED <<counter, reader, now, scan, request>>

Handler(c) ==
    \/ FetchSeq(c) \/ Register(c) \/ Activate(c) \/ RelayCalls(c) \/ SpawnReader(c)
    \/ ReaderCalls(c) \/ ReaderEnds(c) \/ RelayReturns(c) \/ FinalTouch(c) \/ Unregister(c)
-------------------------------------------------------------------------------
(* The REST API.  A client may name any id handed out so far.              *)

delete_session(id) ==
    /\ Holds(id)
    /\ remove(id)
    /\ UNCHANGED <<counter, conn, reader, now, scan, request>>

(* get_session_commands looks the id up twice, releasing the lock between; *)
(* owner (not in the code) remembers whose session was verified.            *)
VerifySession(id) ==
    /\ request.at = "none"
    /\ Holds(id)
    /\ request' = [at |-> "verified", id |-> id, owner |-> sessions[id].shutdown_tx]
    /\ UNCHANGED <<counter, sessions, watch, conn, reader, now, scan>>

(* The second look-up: the commands, or none if the session is gone; the     *)
(* answer is 200 either way, and no state changes.                          *)
AnswerCommands ==
    /\ request.at = "verified"
    /\ request' = NoRequest
    /\ UNCHANGED <<counter, sessions, watch, conn, reader, now, scan>>

Rest == (\E id \in 1..counter : delete_session(id) \/ VerifySession(id)) \/ AnswerCommands
-------------------------------------------------------------------------------
(* The idle checker: every tick of its interval, disconnect_idle.          *)

(* Mutant: the deadline is computed from the clock, below zero early on. *)
ScanTickDeadline ==
    /\ scan.at = "tick"
    /\ scan' = [at |-> "lock", now |-> now - IdleTimeout]
    /\ UNCHANGED <<counter, sessions, watch, conn, reader, now, request>>

(* Instant::now() is read before the lock is awaited. *)
ScanTick ==
    /\ scan.at = "tick"
    /\ scan' = [at |-> "lock", now |-> now]
    /\ UNCHANGED <<counter, sessions, watch, conn, reader, now, request>>

(* Mutant: the distance of two Instants, whichever is later. *)
DurationBetween(later, earlier) ==
    IF later >= earlier THEN later - earlier ELSE earlier - later

(* Instant::duration_since saturates. *)
DurationSince(later, earlier) == IF later >= earlier THEN later - earlier ELSE 0

IdleIds ==
    {id \in DOMAIN sessions :
        /\ sessions[id].status = "Active"
        /\ DurationSince(scan.now, sessions[id].last_activity) > IdleTimeout}

DisconnectIdle ==
    /\ scan.at = "lock"
    /\ sessions' = [id \in DOMAIN sessions |->
                       IF id \in IdleIds THEN [sessions[id] EXCEPT !.status = "Disconnected"]
                       ELSE sessions[id]]
    /\ watch' = [c \in Conns |->
                    IF \E id \in IdleIds : sessions[id].shutdown_tx = c
                    THEN [watch[c] EXCEPT !.value = TRUE] ELSE watch[c]]
    /\ scan' = [scan EXCEPT !.at = "tick"]
    /\ UNCHANGED <<counter, conn, reader, now, request>>

Tick ==
    /\ now < MaxTime
    /\ now' = now + 1
    /\ UNCHANGED <<counter, sessions, watch, conn, reader, scan, request>>
-------------------------------------------------------------------------------
Next == (\E c \in Conns : Handler(c)) \/ Rest \/ ScanTick \/ DisconnectIdle \/ Tick

Spec == Init /\ [][Next]_vars
-------------------------------------------------------------------------------
(* Properties.                                                             *)

TypeOK ==
    /\ counter \in Nat
    /\ DOMAIN sessions \subseteq Ids
    /\ \A id \in DOMAIN sessions : sessions[id] \in Entry
    /\ watch \in [Conns -> Watch]
    /\ conn \in [Conns -> [at : Steps, id : Nat, instant : Nat]]
    /\ reader \in [Conns -> {"none", "up", "ended"}]
    /\ now \in Nat
    /\ scan \in [at : {"tick", "lock"}, now : Nat]
    /\ request \in [at : {"none", "verified"}, id : Nat, owner : Conns \cup {None}]

Inserted(c) == conn[c].at \notin {"accepted", "numbered"}

InMap(c) == Inserted(c) /\ Holds(conn[c].id)

(* Every entry of the map is the one its own connection registered and has  *)
(* not unregistered yet: no two connections share an id although ids are    *)
(* drawn outside the lock, no entry outlives its connection although the    *)
(* REST API removes entries and readers outlive relays (register,           *)
(* unregister, delete_session, get_mut).                                    *)
EntriesHaveOwners ==
    \A id \in DOMAIN sessions :
        LET c == sessions[id].shutdown_tx
        IN conn[c].id = id /\ Inserted(c) /\ ~At(c, "closed")

(* A relay watches the right sender for as long as its session exists, and  *)
(* its channel is closed as soon as the session is gone, whoever removed    *)
(* it: this is what lets DELETE end a connection.                           *)
WatchFollowsEntry ==
    \A c \in Conns : Inserted(c) => (watch[c].open <=> Holds(conn[c].id))

(* A session says "Disconnected" exactly when its relay has been told to    *)
(* shut down: disconnect_idle changes both under one lock, and nothing      *)
(* (late activity, the Active of a new connection) takes one of them back.  *)
StatusMatchesSignal ==
    \A c \in Conns : InMap(c) =>
        (sessions[conn[c].id].status = "Disconnected" <=> watch[c].value)

(* No connection in use is cut off: at the moment a session is              *)
(* disconnected its last activity really is older than the timeout, though  *)
(* the checker compares with a clock it read before it got the lock.        *)
DisconnectOnlyIdle ==
    [][\A c \in Conns :
          ~watch[c].value /\ watch'[c].value =>
              /\ At(c, "relay") \/ At(c, "returned") \/ At(c, "touched")
              /\ now - sessions[conn[c].id].last_activity > IdleTimeout]_vars

(* The activity of a session is older than the timeout. *)
Overdue(c) ==
    /\ InMap(c)
    /\ sessions[conn[c].id].status = "Active"
    /\ now - sessions[conn[c].id].last_activity > IdleTimeout

(* The commands endpoint looks the session up twice; whatever ends or opens  *)
(* between the two, it never answers with the commands of another session    *)
(* than the one it verified (get_session_commands).                         *)
AnswersForVerified ==
    request.at = "verified" /\ Holds(request.id)
        => sessions[request.id].shutdown_tx = request.owner

(* The tracker implements the life cycle of SessionLifecycle. *)
PhaseOf(c) ==
    IF ~Inserted(c) THEN "absent"
    ELSE IF ~Holds(conn[c].id) THEN "removed"
    ELSE IF watch[c].value THEN "told" ELSE "live"

Lifecycle == INSTANCE SessionLifecycle WITH phase <- [c \in Conns |-> PhaseOf(c)]

LifecycleSpec == Lifecycle!Spec
===============================================================================
