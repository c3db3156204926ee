------------------------------ MODULE EventIngest ------------------------------
(***************************************************************************)
(* StatsCache::refresh of src/stats_cache.rs, from the directory listing   *)
(* on: the incremental ingestion of the events.jsonl files that running    *)
(* Copilot CLIs append to, into a SQLite database that keeps the counts    *)
(* and, per file, the byte offset already ingested, and that several       *)
(* bridges may share.  sync_session_store, which refresh calls first,      *)
(* touches other tables and is StoreSync.                                  *)
(*                                                                         *)
(* A file is a sequence of lines, one event each, and a number of bytes.   *)
(* A line is two bytes here, so that an append, a size or an offset can    *)
(* fall inside it: line i is bytes 2i-1 and 2i.  For an event of kind      *)
(* "wide" the two bytes belong to one character.                           *)
(***************************************************************************)
EXTENDS Naturals, Sequences, FiniteSets, FiniteSetsExt

CONSTANTS
    Bridges,        \* bridge processes that share the data directory
    Files,          \* events.jsonl files
    Kinds,          \* kinds of events: "plain", "wide"
    Deployments,    \* which of them there are: records of sets of bridges, files and kinds
    MaxEvents,      \* bound on the events in all files
    MaxFaults,      \* bound on crashes and on statements that fail
    Bursts          \* the CLI appends: whole lines, or any number of bytes

ASSUME FilesAssumption == IsFiniteSet(Files)
ASSUME DeploymentsAssumption ==
    Deployments \subseteq [bridges : SUBSET Bridges, files : SUBSET Files, kinds : SUBSET Kinds]
ASSUME KindsAssumption == Kinds \subseteq {"plain", "wide"}
ASSUME BoundsAssumption == MaxEvents \in Nat /\ MaxFaults \in Nat
ASSUME BurstsAssumption == Bursts \in {"lines", "bytes"}

VARIABLES
    there,      \* the bridges, the files and the kinds of events there are
    file,       \* file[f]: its events, the last one perhaps half written, and its size
    offsets,    \* table file_offsets
    counted,    \* tables event_counts, model_usage: how often line i of f was counted
    refresh,    \* refresh[b]: where bridge b's refresh is, with its local variables
    tx,         \* tx[b]: what b's connection has executed and not committed
    faults,
    cut,        \* cut[f]: lines an offset was committed in the middle of (not in the code)
    lost,       \* lost[f]: lines whose INSERT failed (not in the code)
    grew,       \* grew[f]: lines completed between a stat and its read (not in the code)
    raced,      \* raced[f]: two bridges had f's offset in hand at once (not in the code)
    forgot      \* forgot[f]: a SELECT or an INSERT of f's offset failed (not in the code)

ghosts == <<cut, lost, grew, raced, forgot>>
vars == <<there, file, offsets, counted, refresh, tx, faults, ghosts>>
-------------------------------------------------------------------------------
(* refresh: before it starts, about to stat a file, to look its offset up,   *)
(* to read it, to count its lines one statement each and commit, ended by a  *)
(* panic.                                                                   *)
Places == {"sleep", "stat", "lookup", "read", "count", "panicked"}

Lines == 1..MaxEvents

Sleeping == [at |-> "sleep", todo |-> {}, f |-> "none", size |-> 0, from |-> 0, rest |-> {}]

NoChanges == [lines |-> {}, moves |-> {}]

Init ==
    /\ there \in Deployments
    /\ file = [f \in Files |-> [events |-> <<>>, size |-> 0]]
    /\ offsets = [f \in Files |-> 0]
    /\ counted = [f \in Files |-> [i \in Lines |-> 0]]
    /\ refresh = [b \in Bridges |-> Sleeping]
    /\ tx = [b \in Bridges |-> NoChanges]
    /\ faults = 0
    /\ cut = [f \in Files |-> {}] /\ lost = [f \in Files |-> {}]
    /\ grew = [f \in Files |-> {}] /\ raced = [f \in Files |-> FALSE]
    /\ forgot = [f \in Files |-> FALSE]

At(b, place) == refresh[b].at = place

Fault == faults < MaxFaults /\ faults' = faults + 1

LineAt(offset) == (offset + 1) \div 2

CutsLine(offset) == offset % 2 = 1

(* The offset cuts a character in two (not str::is_char_boundary). *)
SplitsChar(f, offset) == CutsLine(offset) /\ file[f].events[LineAt(offset)] = "wide"

(* content[from..].lines() that parse: the lines wholly inside the slice; the *)
(* halves of a line that was cut are not JSON and are passed over.           *)
ParsedLines(f, from) ==
    {i \in DOMAIN file[f].events : from <= 2 * i - 2 /\ 2 * i <= file[f].size}
-------------------------------------------------------------------------------
(* read_dir lists the files there are. *)
ListFiles(b) ==
    /\ At(b, "sleep")
    /\ refresh' = [refresh EXCEPT ![b].at = "stat",
                                  ![b].todo = {f \in Files : file[f].events # <<>>}]
    /\ UNCHANGED <<there, file, offsets, counted, tx, faults, ghosts>>

Stat(b, f) ==
    /\ At(b, "stat") /\ f \in refresh[b].todo
    /\ refresh' = [refresh EXCEPT ![b].at = "lookup", ![b].f = f, ![b].size = file[f].size,
                                  ![b].todo = @ \ {f}]
    /\ UNCHANGED <<there, file, offsets, counted, tx, faults, ghosts>>

(* On to the next file, forgetting this one. *)
NextFile(b) ==
    refresh' = [refresh EXCEPT ![b] = [Sleeping EXCEPT !.at = "stat", !.todo = refresh[b].todo]]

(* Mutant: a file that was ingested once is never read again. *)
LookUpOffsetOnce(b) ==
    /\ At(b, "lookup")
    /\ LET from == offsets[refresh[b].f] IN
       IF from > 0 THEN NextFile(b)
       ELSE refresh' = [refresh EXCEPT ![b].at = "read", ![b].from = from]
    /\ UNCHANGED <<there, file, offsets, counted, tx, faults, ghosts>>

(* b has looked up the offset of f and not stored another for good. *)
InHand(b, f) ==
    \/ refresh[b].f = f /\ refresh[b].at \in {"read", "count"}
    \/ \E line \in tx[b].lines : line[1] = f

ResumeFrom(b, from) ==
    IF from >= refresh[b].size THEN NextFile(b) /\ UNCHANGED raced
    ELSE /\ refresh' = [refresh EXCEPT ![b].at = "read", ![b].from = from]
         /\ raced' = [raced EXCEPT ![refresh[b].f] =
                         @ \/ \E other \in Bridges \ {b} : InHand(other, refresh[b].f)]

(* The offset is read outside the transaction that will move it; a SELECT    *)
(* that fails reads as 0.                                                   *)
LookUpOffset(b) ==
    /\ At(b, "lookup")
    /\ \/ ResumeFrom(b, offsets[refresh[b].f]) /\ UNCHANGED <<faults, forgot>>
       \/ /\ Fault /\ ResumeFrom(b, 0)
          /\ forgot' = [forgot EXCEPT ![refresh[b].f] = TRUE]
    /\ UNCHANGED <<there, file, offsets, counted, tx, cut, lost, grew>>

(* Mutant: the file is read lossily, whatever it ends in. *)
ReadFileLossy(b) ==
    /\ At(b, "read")
    /\ LET f == refresh[b].f
           from == refresh[b].from
       IN IF from >= file[f].size THEN NextFile(b)
          ELSE refresh' = IF SplitsChar(f, from) THEN [refresh EXCEPT ![b].at = "panicked"]
                          ELSE [refresh EXCEPT ![b].at = "count", ![b].rest = ParsedLines(f, from)]
    /\ UNCHANGED <<there, file, offsets, counted, tx, faults, ghosts>>

(* Mutant: the offset is stored before the transaction begins. *)
ReadFileMovesOffset(b) ==
    /\ At(b, "read")
    /\ refresh' = [refresh EXCEPT ![b].at = "count",
                                  ![b].rest = ParsedLines(refresh[b].f, refresh[b].from)]
    /\ offsets' = [offsets EXCEPT ![refresh[b].f] = refresh[b].size]
    /\ UNCHANGED <<there, file, counted, tx, faults, ghosts>>

(* read_to_string reads what the file is by now, and fails if it ends inside *)
(* a character or cannot be read; slicing it inside a character panics.     *)
(* BEGIN fails if an earlier COMMIT did, and is ignored: the transaction    *)
(* goes on.                                                                 *)
ReadFile(b) ==
    /\ At(b, "read")
    /\ LET f == refresh[b].f
           from == refresh[b].from
       IN \/ /\ IF SplitsChar(f, file[f].size) \/ from >= file[f].size THEN NextFile(b)
                ELSE refresh' = IF SplitsChar(f, from) THEN [refresh EXCEPT ![b].at = "panicked"]
                                ELSE [refresh EXCEPT ![b].at = "count",
                                                     ![b].rest = ParsedLines(f, from)]
             /\ UNCHANGED faults
          \/ Fault /\ NextFile(b)
    /\ UNCHANGED <<there, file, offsets, counted, tx, ghosts>>
-------------------------------------------------------------------------------
(* The transaction.  SQLite has one writer: a connection holds the write     *)
(* lock from its first statement that changes something.  A statement waits  *)
(* for the lock, and fails when the busy timeout is over; it may also fail   *)
(* by itself.  Either way the transaction stays open.                       *)

Locked(b) == \E other \in Bridges \ {b} : tx[other] # NoChanges

(* The error of an INSERT is dropped by .ok(); the loop goes on. *)
CountLine(b) ==
    /\ At(b, "count") /\ refresh[b].rest # {}
    /\ LET i == Min(refresh[b].rest)
           f == refresh[b].f
       IN /\ refresh' = [refresh EXCEPT ![b].rest = @ \ {i}]
          /\ \/ /\ ~Locked(b)
                /\ tx' = [tx EXCEPT ![b].lines = @ \cup {<<f, i>>}]
                /\ UNCHANGED <<faults, lost>>
             \/ /\ Fault
                /\ lost' = [lost EXCEPT ![f] = @ \cup {i}]
                /\ UNCHANGED tx
    /\ UNCHANGED <<there, file, offsets, counted, cut, grew, raced, forgot>>

Moved(moves, f) == {move[2] : move \in {m \in moves : m[1] = f}}

(* COMMIT: the lines and the offsets of the transaction at once. *)
CommitSucceeds(b, moves) ==
    /\ counted' = [f \in Files |-> [i \in Lines |->
                      IF <<f, i>> \in tx[b].lines THEN counted[f][i] + 1 ELSE counted[f][i]]]
    /\ offsets' = [f \in Files |-> IF Moved(moves, f) = {} THEN offsets[f] ELSE Max(Moved(moves, f))]
    /\ cut' = [f \in Files |-> cut[f] \cup {LineAt(o) : o \in {m \in Moved(moves, f) : CutsLine(m)}}]
    /\ tx' = [tx EXCEPT ![b] = NoChanges]

(* The error is logged, whether SQLite rolled back or left the transaction   *)
(* open.                                                                    *)
CommitFails(b, moves) ==
    /\ tx' = [tx EXCEPT ![b] = NoChanges] \/ tx' = [tx EXCEPT ![b].moves = moves]
    /\ UNCHANGED <<offsets, counted, cut>>

(* Mutant: the size is added to the offset. *)
CommitAddsSize(b) ==
    /\ At(b, "count") /\ refresh[b].rest = {} /\ ~Locked(b)
    /\ CommitSucceeds(b, {<<refresh[b].f, refresh[b].from + refresh[b].size>>})
    /\ NextFile(b)
    /\ UNCHANGED <<there, file, faults, lost, grew, raced, forgot>>

(* Mutant: the offset is not stored. *)
CommitForgetsOffset(b) ==
    /\ At(b, "count") /\ refresh[b].rest = {} /\ ~Locked(b)
    /\ CommitSucceeds(b, {})
    /\ NextFile(b)
    /\ UNCHANGED <<there, file, faults, lost, grew, raced, forgot>>

(* The last INSERT makes the offset the size of the stat; COMMIT follows. *)
StoreOffset(b) ==
    LET moves == tx[b].moves \cup {<<refresh[b].f, refresh[b].size>>} IN
    /\ ~Locked(b)
    /\ (CommitSucceeds(b, moves) /\ UNCHANGED faults) \/ (Fault /\ CommitFails(b, moves))
    /\ UNCHANGED forgot

(* The INSERT fails like the others, and COMMIT keeps what else was executed. *)
LoseOffset(b) ==
    /\ Fault
    /\ \/ ~Locked(b) /\ (CommitSucceeds(b, tx[b].moves) \/ CommitFails(b, tx[b].moves))
       \/ Locked(b) /\ UNCHANGED <<tx, offsets, counted, cut>>
    /\ forgot' = [forgot EXCEPT ![refresh[b].f] = TRUE]

Commit(b) ==
    /\ At(b, "count") /\ refresh[b].rest = {}
    /\ StoreOffset(b) \/ LoseOffset(b)
    /\ NextFile(b)
    /\ UNCHANGED <<there, file, lost, grew, raced>>

(* The connection is dropped, and what it has not committed with it; the     *)
(* task sleeps for five minutes.  A panic only ends the blocking task.      *)
EndRefresh(b) ==
    /\ (At(b, "stat") /\ refresh[b].todo = {}) \/ At(b, "panicked")
    /\ refresh' = [refresh EXCEPT ![b] = Sleeping]
    /\ tx' = [tx EXCEPT ![b] = NoChanges]
    /\ UNCHANGED <<there, file, offsets, counted, faults, ghosts>>

Refresh(b) ==
    /\ b \in there.bridges
    /\ \/ ListFiles(b) \/ LookUpOffset(b) \/ ReadFile(b) \/ CountLine(b) \/ Commit(b)
       \/ EndRefresh(b)
       \/ \E f \in Files : Stat(b, f)

(* The process dies and is started again; SQLite rolls back what was open. *)
Crash(b) ==
    /\ ~At(b, "sleep")
    /\ Fault
    /\ refresh' = [refresh EXCEPT ![b] = Sleeping]
    /\ tx' = [tx EXCEPT ![b] = NoChanges]
    /\ UNCHANGED <<there, file, offsets, counted, ghosts>>
-------------------------------------------------------------------------------
(* The CLIs append.  A write ends inside a line or not.                     *)

Whole(f) == file[f].size = 2 * Len(file[f].events)

Events == UNION {{f} \X DOMAIN file[f].events : f \in Files}

RoomForEvent == Cardinality(Events) < MaxEvents

(* Some bridge holds an older size of f than it will read. *)
SizeInHand(f) == \E b \in Bridges : refresh[b].f = f /\ refresh[b].at \in {"lookup", "read"}

LineCompleted(f, i) ==
    grew' = IF SizeInHand(f) THEN [grew EXCEPT ![f] = @ \cup {i}] ELSE grew

AppendLine(f, kind) ==
    /\ Whole(f) /\ RoomForEvent
    /\ file' = [file EXCEPT ![f].events = Append(@, kind), ![f].size = @ + 2]
    /\ LineCompleted(f, Len(file[f].events) + 1)
    /\ UNCHANGED <<there, offsets, counted, refresh, tx, faults, cut, lost, raced, forgot>>

AppendHalf(f, kind) ==
    /\ Bursts = "bytes" /\ Whole(f) /\ RoomForEvent
    /\ file' = [file EXCEPT ![f].events = Append(@, kind), ![f].size = @ + 1]
    /\ UNCHANGED <<there, offsets, counted, refresh, tx, faults, ghosts>>

CompleteLine(f) ==
    /\ ~Whole(f)
    /\ file' = [file EXCEPT ![f].size = @ + 1]
    /\ LineCompleted(f, Len(file[f].events))
    /\ UNCHANGED <<there, offsets, counted, refresh, tx, faults, cut, lost, raced, forgot>>

Copilot ==
    \E f \in there.files :
        CompleteLine(f) \/ \E kind \in there.kinds : AppendLine(f, kind) \/ AppendHalf(f, kind)
-------------------------------------------------------------------------------
Next == Copilot \/ \E b \in Bridges : Refresh(b) \/ Crash(b)

Spec == Init /\ [][Next]_vars

FairSpec == Spec /\ \A b \in Bridges : WF_vars(Refresh(b))
-------------------------------------------------------------------------------
(* Properties.                                                             *)

TypeOK ==
    /\ there \in Deployments
    /\ file \in [Files -> [events : Seq(Kinds), size : 0..(2 * MaxEvents)]]
    /\ \A f \in Files :
          /\ Len(file[f].events) <= MaxEvents
          /\ file[f].size \in {2 * Len(file[f].events), 2 * Len(file[f].events) - 1}
    /\ offsets \in [Files -> 0..(2 * MaxEvents)]
    /\ counted \in [Files -> [Lines -> Nat]]
    /\ refresh \in [Bridges ->
          [at : Places, todo : SUBSET Files, f : Files \cup {"none"},
           size : 0..(2 * MaxEvents), from : 0..(2 * MaxEvents), rest : SUBSET Lines]]
    /\ tx \in [Bridges -> [lines : SUBSET (Files \X Lines),
                           moves : SUBSET (Files \X (0..(2 * MaxEvents)))]]
    /\ faults \in 0..MaxFaults
    /\ {cut, lost, grew} \subseteq [Files -> SUBSET Lines]
    /\ {raced, forgot} \subseteq [Files -> BOOLEAN]

(* "Incrementally ingest new events" (stats_cache.rs): an event before the   *)
(* offset of its file is counted.                                           *)
NoneMissed ==
    \A f \in Files : \A i \in DOMAIN file[f].events :
        2 * i <= offsets[f] => counted[f][i] > 0

(* What the ingestion does miss: an event that the offset passed is counted  *)
(* unless it was half written when its file's size was taken, or its INSERT  *)
(* failed.  No crash, no COMMIT or statement about an offset that fails and  *)
(* no other interleaving of bridges and appends loses one.                  *)
MissedOnlyIfCutOrLost ==
    \A f \in Files : \A i \in DOMAIN file[f].events :
        2 * i <= offsets[f] /\ counted[f][i] = 0 => i \in cut[f] \cup lost[f]

(* "Only reads bytes AFTER the last known offset" (stats_cache.rs): an event *)
(* is counted twice only if it was completed between the stat and the read  *)
(* of its file, two bridges had looked up one offset, or a statement that    *)
(* reads or stores the offset failed; not because of a crash between counts  *)
(* and offset, a failed COMMIT or a moved-back offset.                      *)
RepeatedOnlyIfExplained ==
    \A f \in Files, i \in Lines : counted[f][i] > 1 => i \in grew[f] \/ raced[f] \/ forgot[f]

(* The slice that resumes a file starts inside a character only if the       *)
(* character was completed between the stat and the read of an earlier       *)
(* refresh: a file that ends inside one is refused as a whole.              *)
PanicsOnlyIfGrew ==
    \A b \in Bridges : At(b, "panicked") => LineAt(refresh[b].from) \in grew[refresh[b].f]

(* Every event that is whole is counted some day, unless it was cut or lost, *)
(* its file stays half a character, or some file makes every refresh panic. *)
EventuallyCounted ==
    \A f \in Files, i \in Lines :
        2 * i <= file[f].size ~>
            \/ counted[f][i] > 0
            \/ i \in cut[f] \cup lost[f]
            \/ SplitsChar(f, file[f].size)
            \/ \E g \in Files : SplitsChar(g, offsets[g])
===============================================================================
