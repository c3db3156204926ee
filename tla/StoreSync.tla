-------------------------------- MODULE StoreSync --------------------------------
(***************************************************************************)
(* What the REST API reports of the CLI's session-store.db, by two ways:    *)
(*   - GET /api/copilot/usage reads the stats cache, into which every       *)
(*     refresh copies four aggregates of the store (sync_session_store and  *)
(*     get_stats of src/stats_cache.rs), each by DELETE and INSERTs that     *)
(*     SQLite commits one by one.  Several bridges may share the cache;     *)
(*   - GET /api/history/stats queries the store itself                      *)
(*     (get_history_stats_from of src/history.rs).                          *)
(* Both send one query after the other, outside any transaction, while the *)
(* CLI, the refresh tasks and the date go on.  The ingestion of events,     *)
(* which only adds to the event tables, is reduced to that here; its        *)
(* counting is EventIngest.                                                 *)
(*                                                                         *)
(* The store is its sessions, each with a turn, a file, a repository and,   *)
(* if it has a date, a month of its own; of a session the model keeps how   *)
(* long ago it was.  The store exists, and the directory of session states  *)
(* with it: a refresh without them returns at once.                         *)
(***************************************************************************)
EXTENDS Naturals, Sequences, SequencesExt, TLC

CONSTANTS
    Bridges,        \* bridge processes that share the data directory
    Deployments,    \* which of them there are, and which endpoints are asked
    MaxStore,       \* bound on the sessions in session-store.db
    MaxDays,        \* bound on the midnights
    MaxTools,       \* bound on the tool executions ingested
    MaxFaults       \* bound on crashes and on statements that fail

ASSUME BoundsAssumption ==
    MaxStore \in Nat \ {0} /\ {MaxDays, MaxTools, MaxFaults} \subseteq Nat
ASSUME BridgesAssumption == IsFiniteSet(Bridges)
ASSUME DeploymentsAssumption ==
    Deployments \subseteq [bridges : SUBSET Bridges, endpoints : SUBSET {"usage", "history"}]

VARIABLES
    there,      \* the bridges and the endpoints there are
    store,      \* store[i]: the age of session i (the CLI's)
    days,
    kept,       \* kept[t]: the sessions with a row in table t of the cache
    totals,     \* the rows of session_files_count, which has no key
    events,     \* events[t]: the total of table t
    sync,       \* sync[b]: where sync_session_store of bridge b is
    answer,     \* the endpoint that is being asked, and what its queries returned;
                \* day: that of the request (not in the code)
    faults,
    alone,      \* alone[b]: nothing disturbed b's sync so far (not in the code)
    fresh,      \* the store at the start of the last sync, if undisturbed (not in the code)
    lost        \* tool executions whose INSERT failed (not in the code)

ghosts == <<alone, fresh, lost>>
tables == <<kept, totals, events>>
vars == <<there, store, days, tables, sync, answer, faults, ghosts>>
-------------------------------------------------------------------------------
Rows == 1..MaxStore

(* created_at: today, up to 7 days ago, up to 30 days ago, before, NULL. *)
Today == 0
ThisWeek == 1
ThisMonth == 2
LongAgo == 3
Undated == 4
Ages == Today..LongAgo

(* In the order sync_session_store replaces them. *)
SyncedTables == <<"sessions", "session_files_count", "repositories", "monthly_stats">>

Keyed == ToSet(SyncedTables) \ {"session_files_count"}

EventTables == {"model_usage", "tool_executions"}

(* Mutant: the totals are read from the largest to the smallest. *)
QueriesWideFirst == [usage |-> <<"tool_executions", "model_usage">>,
                     history |-> <<"sessions", "month", "week", "today", "months">>]

(* In the order get_stats and get_history_stats_from send them; the queries   *)
(* of get_stats for the synced tables come behind.                          *)
Queries == [usage |-> <<"model_usage", "tool_executions">>,
            history |-> <<"sessions", "today", "week", "month", "months">>]

(* Who is asked decides what the model has to tell apart. *)
AgesMatter == "history" \in there.endpoints
EventsMatter == "usage" \in there.endpoints

NotSyncing == [at |-> "none", table |-> 1, rows |-> {}, began |-> 0]

NoAnswer == [endpoint |-> "none", day |-> 0, got |-> <<>>, failed |-> {}]

Init ==
    /\ there \in Deployments
    /\ store \in {<<age>> : age \in (IF AgesMatter THEN Ages ELSE {Today}) \cup {Undated}}
    /\ days = 0
    /\ kept = [t \in Keyed |-> {}] /\ totals = <<>>
    /\ events = [t \in EventTables |-> 0]
    /\ sync = [b \in Bridges |-> NotSyncing]
    /\ answer = NoAnswer
    /\ faults = 0
    /\ alone = [b \in Bridges |-> FALSE] /\ fresh = 0 /\ lost = 0

Syncing(b) == sync[b].at # "none"

(* Mutant: the totals are summed up. *)
ReportedSum(t) ==
    CASE t \in Keyed -> Cardinality(kept[t])
      [] t \in EventTables -> events[t]
      [] OTHER -> SumFunction(totals)

(* What get_stats reports of a table, if it can read it: LIMIT 1 takes the    *)
(* oldest row.                                                              *)
Reported(t) ==
    CASE t \in Keyed -> Cardinality(kept[t])
      [] t \in EventTables -> events[t]
      [] OTHER -> IF totals = <<>> THEN 0 ELSE Head(totals)
-------------------------------------------------------------------------------
(* The sync of a refresh task.  A statement that changes the cache fails if   *)
(* other bridges hold it for longer than the busy timeout, or for want of    *)
(* space; its error is dropped by .ok().                                     *)

Fault == faults < MaxFaults /\ faults' = faults + 1

StatementFails(b) ==
    /\ Fault
    /\ alone' = [alone EXCEPT ![b] = FALSE]
    /\ UNCHANGED <<tables, fresh, lost>>

Table(b) == SyncedTables[sync[b].table]

(* session_files_count is counted in the store before it is cleared; the     *)
(* others are cleared first.                                                *)
FirstStep(t) == IF t = "session_files_count" THEN "read" ELSE "clear"

(* The rows that the query of the store for a table returns. *)
Copied(t) == {i \in DOMAIN store : t = "monthly_stats" => store[i] # Undated}

(* Mutant: the sessions are not copied again once there are some. *)
StartSyncOnce(b) ==
    /\ ~Syncing(b)
    /\ sync' = [sync EXCEPT ![b] = IF kept["sessions"] # {}
                                   THEN [at |-> "read", table |-> 2, rows |-> {}, began |-> Len(store)]
                                   ELSE [at |-> "clear", table |-> 1, rows |-> {}, began |-> Len(store)]]
    /\ alone' = [o \in Bridges |-> o = b /\ \A other \in Bridges : ~Syncing(other)]
    /\ fresh' = 0
    /\ UNCHANGED <<there, store, days, tables, answer, faults, lost>>

(* A database that cannot be opened ends the refresh or the sync early. *)
StartSync(b) ==
    /\ ~Syncing(b)
    /\ \/ /\ sync' = [sync EXCEPT ![b] = [at |-> FirstStep(SyncedTables[1]), table |-> 1, rows |-> {},
                                          began |-> Len(store)]]
          /\ alone' = [o \in Bridges |-> o = b /\ \A other \in Bridges : ~Syncing(other)]
          /\ fresh' = 0
          /\ UNCHANGED faults
       \/ Fault /\ UNCHANGED <<sync, alone, fresh>>
    /\ UNCHANGED <<there, store, days, tables, answer, lost>>

(* Mutant: session_files_count is not cleared. *)
ClearTableWithKey(b) ==
    /\ sync[b].at = "clear"
    /\ kept' = IF Table(b) \in Keyed THEN [kept EXCEPT ![Table(b)] = {}] ELSE kept
    /\ sync' = [sync EXCEPT ![b].at = IF FirstStep(Table(b)) = "read" THEN "fill" ELSE "read"]
    /\ UNCHANGED <<there, store, days, totals, events, answer, faults, ghosts>>

(* DELETE FROM table, committed at once. *)
ClearTable(b) ==
    /\ sync[b].at = "clear"
    /\ sync' = [sync EXCEPT ![b].at = IF FirstStep(Table(b)) = "read" THEN "fill" ELSE "read"]
    /\ \/ /\ IF Table(b) \in Keyed
             THEN kept' = [kept EXCEPT ![Table(b)] = {}] /\ UNCHANGED totals
             ELSE totals' = <<>> /\ UNCHANGED kept
          /\ UNCHANGED <<events, faults, ghosts>>
       \/ StatementFails(b)
    /\ UNCHANGED <<there, store, days, answer>>

(* The query of the store, which sees the store of that moment.  One that    *)
(* fails is passed over, after some rows or none; a failing count reads 0.  *)
ReadStore(b) ==
    /\ sync[b].at = "read"
    /\ \E rows \in SUBSET Copied(Table(b)) :
       /\ sync' = [sync EXCEPT ![b].at = IF FirstStep(Table(b)) = "read" THEN "clear" ELSE "fill",
                               ![b].rows = rows]
       /\ \/ rows = Copied(Table(b)) /\ UNCHANGED <<faults, alone>>
          \/ /\ Table(b) \in Keyed \/ rows = {}
             /\ Fault /\ alone' = [alone EXCEPT ![b] = FALSE]
    /\ UNCHANGED <<there, store, days, tables, answer, fresh, lost>>

(* One INSERT, committed at once; the rows come in no order.  A row that is   *)
(* there is replaced, or the INSERT fails on the key.                       *)
InsertRow(b) ==
    /\ sync[b].at = "fill" /\ Table(b) \in Keyed
    /\ \E row \in sync[b].rows :
       /\ sync' = [sync EXCEPT ![b].rows = @ \ {row}]
       /\ \/ /\ kept' = [kept EXCEPT ![Table(b)] = @ \cup {row}]
             /\ UNCHANGED <<totals, events, faults, ghosts>>
          \/ StatementFails(b)
    /\ UNCHANGED <<there, store, days, answer>>

(* On to the next table. *)
Onward(b) ==
    sync' = [sync EXCEPT ![b].at = FirstStep(SyncedTables[sync[b].table + 1]),
                         ![b].table = @ + 1, ![b].rows = {}]

(* session_files_count holds its totals in a single row. *)
InsertTotal(b) ==
    /\ sync[b].at = "fill" /\ Table(b) \notin Keyed
    /\ Onward(b)
    /\ \/ /\ totals' = Append(totals, Cardinality(sync[b].rows))
          /\ UNCHANGED <<kept, events, faults, ghosts>>
       \/ StatementFails(b)
    /\ UNCHANGED <<there, store, days, answer>>

TableDone(b) ==
    /\ sync[b].at = "fill" /\ Table(b) \in Keyed /\ sync[b].rows = {}
    /\ IF sync[b].table < Len(SyncedTables)
       THEN Onward(b) /\ UNCHANGED <<alone, fresh>>
       ELSE /\ sync' = [sync EXCEPT ![b] = NotSyncing]
            /\ fresh' = IF alone[b] THEN sync[b].began ELSE 0
            /\ alone' = [alone EXCEPT ![b] = FALSE]
    /\ UNCHANGED <<there, store, days, tables, answer, faults, lost>>

SyncStep(b) == ClearTable(b) \/ ReadStore(b) \/ InsertRow(b) \/ InsertTotal(b) \/ TableDone(b)

(* A transaction of refresh: one tool execution, with its model or without.  *)
(* The INSERT into either table may fail and the other get through.         *)
IngestEvents(b, rows, failing) ==
    /\ ~Syncing(b) /\ EventsMatter
    /\ \A t \in EventTables : events[t] < MaxTools
    /\ IF failing = {} THEN UNCHANGED faults ELSE Fault
    /\ lost' = IF "tool_executions" \in failing THEN lost + 1 ELSE lost
    /\ events' = [t \in EventTables |-> IF t \in rows \ failing THEN events[t] + 1 ELSE events[t]]
    /\ UNCHANGED <<there, store, days, kept, totals, sync, answer, alone, fresh>>

(* The bridge dies and is started again: what was committed stays. *)
Crash(b) ==
    /\ Syncing(b) /\ Fault
    /\ sync' = [sync EXCEPT ![b] = NotSyncing]
    /\ alone' = [alone EXCEPT ![b] = FALSE]
    /\ UNCHANGED <<there, store, days, tables, answer, fresh, lost>>

RefreshTask(b) ==
    \/ StartSync(b) \/ SyncStep(b) \/ Crash(b)
    \/ \E rows \in {EventTables, {"tool_executions"}} :
          \E failing \in SUBSET rows : IngestEvents(b, rows, failing)
-------------------------------------------------------------------------------
(* The endpoints: one query after the other, none of them in a transaction. *)

Ask(endpoint) ==
    /\ answer = NoAnswer
    /\ answer' = [NoAnswer EXCEPT !.endpoint = endpoint, !.day = days]
    /\ UNCHANGED <<there, store, days, tables, sync, faults, ghosts>>

Answered(endpoint) ==
    answer.endpoint = endpoint /\ Len(answer.got) = Len(Queries[endpoint])

Asking(endpoint) == answer.endpoint = endpoint /\ ~Answered(endpoint)

NextQuery == Queries[answer.endpoint][Len(answer.got) + 1]

(* get_stats: the total is 0 if it cannot be read, the list of models is cut  *)
(* short, and all is 0 if the cache cannot be opened.                       *)
QueryCache ==
    /\ Asking("usage")
    /\ \/ /\ answer' = [answer EXCEPT !.got = Append(@, Reported(NextQuery))]
          /\ UNCHANGED faults
       \/ /\ Fault
          /\ \E part \in IF NextQuery = "model_usage" THEN 0..Reported(NextQuery) ELSE {0} :
                answer' = [answer EXCEPT !.got = Append(@, part), !.failed = @ \cup {NextQuery}]
       \/ /\ Fault /\ answer.got = <<>>
          /\ answer' = [answer EXCEPT !.got = [query \in DOMAIN Queries["usage"] |-> 0],
                                      !.failed = ToSet(Queries["usage"])]
    /\ UNCHANGED <<there, store, days, tables, sync, ghosts>>

NotOlder(age) == Cardinality({i \in DOMAIN store : store[i] <= age})

(* get_history_stats_from, with the date of each query: counts in all and of   *)
(* today, 7 days, 30 days, and by month.                                    *)
Stored(query) ==
    CASE query = "sessions" -> Len(store)
      [] query = "today" -> NotOlder(Today)
      [] query = "week" -> NotOlder(ThisWeek)
      [] query = "month" -> NotOlder(ThisMonth)
      [] query = "months" -> NotOlder(LongAgo)

(* If the total fails the request does; what fails behind it counts as 0. *)
QueryStore ==
    /\ Asking("history")
    /\ \/ /\ answer' = [answer EXCEPT !.got = Append(@, Stored(NextQuery))]
          /\ UNCHANGED faults
       \/ /\ Fault
          /\ answer' = IF NextQuery = "sessions" THEN NoAnswer
                       ELSE [answer EXCEPT !.got = Append(@, 0), !.failed = @ \cup {NextQuery}]
    /\ UNCHANGED <<there, store, days, tables, sync, ghosts>>

Reply ==
    /\ \E endpoint \in there.endpoints : Answered(endpoint)
    /\ answer' = NoAnswer
    /\ UNCHANGED <<there, store, days, tables, sync, faults, ghosts>>

Rest == (\E endpoint \in there.endpoints : Ask(endpoint)) \/ QueryCache \/ QueryStore \/ Reply
-------------------------------------------------------------------------------
(* The CLI and the date.                                                    *)

StoreGrows ==
    /\ Len(store) < MaxStore
    /\ \E age \in {Today, Undated} : store' = Append(store, age)
    /\ UNCHANGED <<there, days, tables, sync, answer, faults, ghosts>>

(* At midnight today's sessions become the week's, and some of the others    *)
(* leave their window, older ones first.                                    *)
DayPasses ==
    /\ AgesMatter /\ days < MaxDays /\ days' = days + 1
    /\ \E aged \in [DOMAIN store -> Ages \cup {Undated}] :
          /\ \A i \in DOMAIN store :
                IF store[i] = Undated THEN aged[i] = Undated
                ELSE /\ aged[i] \in Ages
                     /\ aged[i] = store[i] + 1 \/ (aged[i] = store[i] /\ store[i] # Today)
          /\ \A i, j \in DOMAIN store : i < j /\ store[i] # Undated /\ store[j] # Undated =>
                aged[i] >= aged[j]
          /\ store' = aged
    /\ UNCHANGED <<there, tables, sync, answer, faults, ghosts>>

Next ==
    \/ \E b \in there.bridges : RefreshTask(b)
    \/ Rest \/ StoreGrows \/ DayPasses

Spec == Init /\ [][Next]_vars

(* Every bridge refreshes for ever, at once and then every five minutes. *)
FairSpec ==
    Spec /\ \A b \in Bridges :
        WF_vars(b \in there.bridges /\ StartSync(b)) /\ WF_vars(b \in there.bridges /\ SyncStep(b))
-------------------------------------------------------------------------------
(* Properties.                                                             *)

TypeOK ==
    /\ there \in Deployments
    /\ store \in UNION {[1..n -> Ages \cup {Undated}] : n \in 1..MaxStore}
    /\ days \in 0..MaxDays
    /\ kept \in [Keyed -> SUBSET Rows]
    /\ totals \in Seq(0..MaxStore) /\ Len(totals) <= Cardinality(Bridges) + MaxFaults
    /\ events \in [EventTables -> 0..MaxTools]
    /\ sync \in [Bridges -> [at : {"none", "clear", "read", "fill"}, table : DOMAIN SyncedTables,
                             rows : SUBSET Rows, began : 0..MaxStore]]
    /\ answer.endpoint \in {"none", "usage", "history"} /\ answer.day \in 0..days
    /\ answer.got \in Seq(0..(MaxStore + MaxTools))
    /\ faults \in 0..MaxFaults
    /\ alone \in [Bridges -> BOOLEAN] /\ fresh \in 0..MaxStore /\ lost \in 0..MaxFaults

Got(query) == answer.got[CHOOSE i \in DOMAIN answer.got : Queries[answer.endpoint][i] = query]

(* An answer on usage is never absurd on tools: the executions by model add  *)
(* up to no more than all executions, though the two are read by two queries *)
(* while refreshes commit in between (get_stats reads the models first);     *)
(* but for executions whose INSERT failed, and unless the query of all of    *)
(* them failed.                                                             *)
ExecutionsCoverModelUsage ==
    Answered("usage") =>
        \/ "tool_executions" \in answer.failed
        \/ Got("model_usage") <= Got("tool_executions") + lost

(* The windows of an answer on history are nested: no more sessions today    *)
(* than this week, this week than this month, this month than by months,     *)
(* though sessions and a midnight come in between, which is all a request of *)
(* less than a day can meet; but for a query that failed, which counts as 0  *)
(* (get_history_stats_from reads them in that order).                       *)
HistoryWindowsNested ==
    Answered("history") /\ days <= answer.day + 1 =>
        \A pair \in {<<"today", "week">>, <<"week", "month">>, <<"month", "months">>} :
            pair[2] \in answer.failed \/ Got(pair[1]) <= Got(pair[2])

(* No answer on usage reports more sessions, files, repositories or months   *)
(* than the store has, although two bridges may insert the same rows, a      *)
(* table with no key may keep old ones, and a sync may be cut off anywhere.  *)
NeverMoreThanStore == \A t \in ToSet(SyncedTables) : Reported(t) <= Len(store)

(* A sync that ran undisturbed by another bridge's, a failing statement or a *)
(* crash leaves everything reported that was in the store when it began,      *)
(* whatever earlier ones left behind.                                       *)
SyncReplacesAll ==
    \A t \in ToSet(SyncedTables) : Cardinality(Copied(t) \cap 1..fresh) <= Reported(t)

Overlap == \E b, other \in there.bridges : b # other /\ Syncing(b) /\ Syncing(other)

(* The cache follows the store: while the store stays as it is and bridges    *)
(* do not sync at the same time for ever, all that is reported comes to      *)
(* agree with it.                                                           *)
CatchesUp ==
    <>[]~Overlap =>
        (there.bridges # {} /\ Len(store) = MaxStore
            ~> \A t \in ToSet(SyncedTables) : Reported(t) = Cardinality(Copied(t)))
===============================================================================
