----------------------------- MODULE StoreSyncProofs -----------------------------
(***************************************************************************)
(* Proofs about StoreSync: what the usage endpoint reports of the store is  *)
(* bounded by it from above always, and from below after an undisturbed     *)
(* sync; the answers of both endpoints are ordered and nested although their *)
(* queries are sent one by one; everything keeps its type and its bound, the *)
(* table with no key among it.  For any number of bridges, any store, and    *)
(* any number of midnights and faults.                                      *)
(***************************************************************************)
EXTENDS StoreSync, FiniteSetTheorems, TLAPS

Syncs == [at : {"none", "clear", "read", "fill"}, table : 1..4, rows : SUBSET Nat, began : Nat]

Types ==
    /\ there \in Deployments
    /\ store \in Seq(Ages \cup {Undated})
    /\ kept \in [Keyed -> SUBSET Nat]
    /\ totals \in Seq(Nat)
    /\ sync \in [Bridges -> Syncs]
    /\ alone \in [Bridges -> BOOLEAN] /\ fresh \in Nat

(* The copies, those under way included, are of sessions that are there. *)
OfTheStore ==
    /\ \A t \in Keyed : kept[t] \subseteq 1..Len(store)
    /\ \A i \in 1..Len(totals) : totals[i] <= Len(store)
    /\ \A b \in Bridges : sync[b].rows \subseteq 1..Len(store) /\ sync[b].began <= Len(store)
    /\ fresh <= Len(store)

(* Of the first n sessions of the store, all that are due are in table t, if  *)
(* it is keyed, or they are counted in the row that is reported.             *)
Complete(t, n, due, rows, counts) ==
    IF t \in Keyed THEN due \cap 1..n \subseteq rows[t]
                   ELSE n <= (IF counts = <<>> THEN 0 ELSE Head(counts))

(* Of the table that is being replaced, what is not in it yet is in hand. *)
InHand(b) ==
    LET n == 1..sync[b].began
    IN  /\ \A t \in Keyed :
              sync[b].at = "fill" /\ Table(b) = t => Copied(t) \cap n \subseteq kept[t] \cup sync[b].rows
        /\ Table(b) \notin Keyed =>
              /\ sync[b].at = "clear" => n \subseteq sync[b].rows
              /\ sync[b].at = "fill" => totals = <<>> /\ n \subseteq sync[b].rows

(* An undisturbed sync has all tables behind it complete. *)
Progress(b) ==
    alone[b] =>
        /\ Syncing(b) /\ \A other \in Bridges : Syncing(other) => other = b
        /\ \A i \in 1..4 : i < sync[b].table =>
              Complete(SyncedTables[i], sync[b].began, Copied(SyncedTables[i]), kept, totals)
        /\ InHand(b)

FreshComplete ==
    fresh # 0 =>
        /\ \A b \in Bridges : ~Syncing(b)
        /\ \A i \in 1..4 : Complete(SyncedTables[i], fresh, Copied(SyncedTables[i]), kept, totals)

IInv == Types /\ OfTheStore /\ (\A b \in Bridges : Progress(b)) /\ FreshComplete
-------------------------------------------------------------------------------
LEMMA TablesAre ==
    /\ Len(SyncedTables) = 4 /\ DOMAIN SyncedTables = 1..4
    /\ SyncedTables[1] = "sessions" /\ SyncedTables[2] = "session_files_count"
    /\ SyncedTables[3] = "repositories" /\ SyncedTables[4] = "monthly_stats"
    /\ ToSet(SyncedTables) = {"sessions", "session_files_count", "repositories", "monthly_stats"}
    /\ Keyed = {"sessions", "repositories", "monthly_stats"}
<1>1. /\ Len(SyncedTables) = 4 /\ DOMAIN SyncedTables = 1..4
      /\ SyncedTables[1] = "sessions" /\ SyncedTables[2] = "session_files_count"
      /\ SyncedTables[3] = "repositories" /\ SyncedTables[4] = "monthly_stats"
  BY DEF SyncedTables
<1>2. ToSet(SyncedTables) = {SyncedTables[1], SyncedTables[2], SyncedTables[3], SyncedTables[4]}
  BY <1>1 DEF ToSet
<1> QED
  BY <1>1, <1>2 DEF Keyed

LEMMA FirstRows ==
    ASSUME NEW n \in Nat
    PROVE  IsFiniteSet(1..n) /\ Cardinality(1..n) = n
<1>1. /\ IsFiniteSet(1..n)
      /\ Cardinality(1..n) = IF 1 > n THEN 0 ELSE n - 1 + 1
  BY FS_Interval
<1> QED
  BY <1>1

LEMMA InitIsInvariant == Init => IInv
<1> SUFFICES ASSUME Init PROVE IInv
  OBVIOUS
<1>1. PICK age \in Ages \cup {Undated} : store = <<age>>
  BY DEF Init, Ages, Today, LongAgo
<1>2. Types
  BY <1>1 DEF Init, Types, Syncs, NotSyncing
<1>3. OfTheStore
  BY <1>1 DEF Init, OfTheStore, NotSyncing
<1>4. FreshComplete /\ \A b \in Bridges : Progress(b)
  BY DEF Init, FreshComplete, Progress
<1> QED
  BY <1>2, <1>3, <1>4 DEF IInv

(* Whoever takes a step is one of the bridges. *)
LEMMA BridgesThere == Types => there.bridges \subseteq Bridges
BY DeploymentsAssumption DEF Types

(* While a session keeps its date or has none, the same ones are due. *)
LEMMA DueStays ==
    ASSUME NEW t, NEW n \in Nat, n <= Len(store), Len(store) \in Nat,
           DOMAIN store = 1..Len(store), DOMAIN store' = 1..Len(store'),
           Len(store') \in Nat, Len(store) <= Len(store'),
           \A i \in 1..Len(store) : store'[i] = Undated <=> store[i] = Undated
    PROVE  Copied(t)' \cap 1..n = Copied(t) \cap 1..n
<1>1. 1..n \subseteq DOMAIN store /\ 1..n \subseteq DOMAIN store'
  OBVIOUS
<1>2. ASSUME NEW i \in 1..n PROVE i \in Copied(t)' <=> i \in Copied(t)
  BY <1>1 DEF Copied
<1> QED
  BY <1>2

LEMMA StoreStays ==
    ASSUME UNCHANGED store, NEW t
    PROVE  Copied(t)' = Copied(t)
BY DEF Copied

(* Steps that leave the cache and the syncs alone; the store only grows. *)
LEMMA OthersPreserve ==
    ASSUME IInv, UNCHANGED <<there, kept, totals, sync, alone, fresh>>,
           store' \in Seq(Ages \cup {Undated}), Len(store) <= Len(store'),
           \A i \in 1..Len(store) : store'[i] = Undated <=> store[i] = Undated
    PROVE  IInv'
<1>1. /\ Len(store) \in Nat /\ Len(store') \in Nat
      /\ DOMAIN store = 1..Len(store) /\ DOMAIN store' = 1..Len(store')
  BY DEF IInv, Types
<1>2. 1..Len(store) \subseteq 1..Len(store')
  BY <1>1
<1>3. Types'
  BY DEF IInv, Types
<1>4. OfTheStore'
  <2>1. \A t \in Keyed : kept'[t] \subseteq 1..Len(store')
    BY <1>2 DEF IInv, OfTheStore
  <2>2. \A i \in 1..Len(totals') : totals'[i] <= Len(store')
    BY <1>1 DEF IInv, OfTheStore, Types
  <2>3. \A b \in Bridges : sync'[b].rows \subseteq 1..Len(store') /\ sync'[b].began <= Len(store')
    BY <1>1, <1>2 DEF IInv, OfTheStore, Types, Syncs
  <2>4. fresh' <= Len(store')
    BY <1>1 DEF IInv, OfTheStore, Types
  <2> QED
    BY <2>1, <2>2, <2>3, <2>4 DEF OfTheStore
<1>5. ASSUME NEW t, NEW n \in Nat, n <= Len(store)
      PROVE  Copied(t)' \cap 1..n = Copied(t) \cap 1..n
  BY <1>1, <1>5, DueStays
<1>6. ASSUME NEW b \in Bridges PROVE Progress(b)'
  <2> SUFFICES ASSUME alone[b] PROVE Progress(b)'
    BY DEF Progress
  <2>1. PICK n \in Nat : n = sync[b].began /\ n <= Len(store)
    BY DEF IInv, Types, OfTheStore, Syncs
  <2>2. InHand(b)'
    BY <1>5, <2>1 DEF IInv, Progress, InHand, Table
  <2>3. ASSUME NEW i \in 1..4, i < sync[b].table
        PROVE  Complete(SyncedTables[i], n, Copied(SyncedTables[i])', kept, totals)
    <3>1. Complete(SyncedTables[i], n, Copied(SyncedTables[i]), kept, totals)
      BY <2>1, <2>3 DEF IInv, Progress
    <3> QED
      BY <1>5, <2>1, <3>1 DEF Complete
  <2> QED
    BY <2>1, <2>2, <2>3 DEF IInv, Progress, Syncing
<1>7. FreshComplete'
  <2>1. ASSUME fresh # 0, NEW i \in 1..4
        PROVE  Complete(SyncedTables[i], fresh, Copied(SyncedTables[i])', kept, totals)
    <3>1. Complete(SyncedTables[i], fresh, Copied(SyncedTables[i]), kept, totals)
      BY <2>1 DEF IInv, FreshComplete
    <3>2. fresh \in Nat /\ fresh <= Len(store)
      BY DEF IInv, Types, OfTheStore
    <3> QED
      BY <1>5, <3>1, <3>2 DEF Complete
  <2> QED
    BY <2>1 DEF IInv, FreshComplete, Syncing
<1> QED
  BY <1>3, <1>4, <1>6, <1>7 DEF IInv
-------------------------------------------------------------------------------
(* The steps of a sync. What one of them does to the table at hand cannot    *)
(* touch the tables behind it, since no table comes twice.                  *)

LEMMA StartSyncPreserves ==
    ASSUME IInv, NEW b \in Bridges, StartSync(b)
    PROVE  IInv'
<1>0. CASE UNCHANGED <<there, store, kept, totals, sync, alone, fresh>>
  <2>1. store \in Seq(Ages \cup {Undated}) /\ Len(store) \in Nat
    BY DEF IInv, Types
  <2> QED
    BY <1>0, <2>1, OthersPreserve
<1>1. CASE /\ sync' = [sync EXCEPT ![b] = [at |-> FirstStep(SyncedTables[1]), table |-> 1,
                                           rows |-> {}, began |-> Len(store)]]
           /\ alone' = [o \in Bridges |-> o = b /\ \A other \in Bridges : ~Syncing(other)]
           /\ fresh' = 0
  <2>1. /\ Len(store) \in Nat /\ FirstStep(SyncedTables[1]) = "clear"
        /\ UNCHANGED <<there, store, kept, totals>>
    BY TablesAre DEF IInv, Types, FirstStep, StartSync, tables
  <2>2. /\ sync'[b] = [at |-> "clear", table |-> 1, rows |-> {}, began |-> Len(store)]
        /\ \A other \in Bridges : other # b => sync'[other] = sync[other]
    BY <1>1, <2>1 DEF IInv, Types
  <2>3. Types'
    BY <1>1, <2>1 DEF IInv, Types, Syncs
  <2>4. OfTheStore'
    BY <1>1, <2>1, <2>2 DEF IInv, OfTheStore
  <2>5. ASSUME NEW c \in Bridges PROVE Progress(c)'
    <3> SUFFICES ASSUME alone'[c] PROVE Progress(c)'
      BY DEF Progress
    <3>1. c = b /\ \A other \in Bridges : ~Syncing(other)
      BY <1>1
    <3>2. InHand(b)'
      BY <2>2, TablesAre DEF InHand, Table
    <3> QED
      BY <2>2, <3>1, <3>2 DEF Progress, Syncing
  <2>6. FreshComplete'
    BY <1>1 DEF FreshComplete
  <2> QED
    BY <2>3, <2>4, <2>5, <2>6 DEF IInv
<1> QED
  BY <1>0, <1>1 DEF StartSync, tables

(* A statement or a query that fails costs the sync its claim. *)
LEMMA FailingPreserves ==
    ASSUME IInv, NEW b \in Bridges, alone' = [alone EXCEPT ![b] = FALSE],
           UNCHANGED <<there, store, kept, totals, fresh>>,
           Types', OfTheStore', Syncing(b),
           \A c \in Bridges : c # b => sync'[c] = sync[c]
    PROVE  IInv'
<1>0. \A t : Copied(t)' = Copied(t)
  BY StoreStays
<1>1. ASSUME NEW c \in Bridges PROVE Progress(c)'
  <2>1. alone'[c] => alone[c] /\ c # b
    BY DEF IInv, Types
  <2> QED
    BY <2>1 DEF IInv, Progress
<1>2. FreshComplete'
  BY DEF IInv, FreshComplete
<1> QED
  BY <1>1, <1>2 DEF IInv

(* What a step of a sync that takes no fault has to show: what is due stays   *)
(* in the tables behind it, and in hand or in the table it has come to.      *)
LEMMA SyncStepPreserves ==
    ASSUME IInv, NEW b \in Bridges, Syncing(b), Syncing(b)',
           UNCHANGED <<there, store, alone, fresh>>,
           Types', OfTheStore',
           \A c \in Bridges : c # b => sync'[c] = sync[c],
           sync'[b].began = sync[b].began,
           ASSUME alone[b]
           PROVE  /\ \A i \in 1..4 : i < sync'[b].table =>
                        Complete(SyncedTables[i], sync[b].began, Copied(SyncedTables[i]), kept', totals')
                  /\ InHand(b)'
    PROVE  IInv'
<1>0. \A t : Copied(t)' = Copied(t)
  BY StoreStays
<1>1. ASSUME NEW c \in Bridges PROVE Progress(c)'
  <2> SUFFICES ASSUME alone[c] PROVE Progress(c)'
    BY DEF Progress
  <2>1. CASE c = b
    <3>1. \A other \in Bridges : Syncing(other)' => other = b
      BY <2>1 DEF IInv, Progress, Syncing
    <3>2. \A i \in 1..4 : i < sync'[b].table =>
            Complete(SyncedTables[i], sync'[b].began, Copied(SyncedTables[i])', kept', totals')
      BY <1>0, <2>1
    <3> QED
      BY <2>1, <3>1, <3>2 DEF Progress
  <2>2. CASE c # b
    BY <2>2 DEF IInv, Progress
  <2> QED
    BY <2>1, <2>2
<1>2. FreshComplete'
  BY DEF IInv, FreshComplete
<1> QED
  BY <1>1, <1>2 DEF IInv

(* The tables behind do not change with the table at hand, of which only the   *)
(* second has no key.                                                       *)
LEMMA BehindStays ==
    ASSUME IInv, NEW b \in Bridges, alone[b],
           Table(b) \in Keyed => /\ totals' = totals
                                 /\ \A t \in Keyed : t # Table(b) => kept'[t] = kept[t],
           Table(b) \notin Keyed => kept' = kept,
           NEW i \in 1..4, i < sync[b].table
    PROVE  Complete(SyncedTables[i], sync[b].began, Copied(SyncedTables[i]), kept', totals')
<1>1. Complete(SyncedTables[i], sync[b].began, Copied(SyncedTables[i]), kept, totals)
  BY DEF IInv, Progress
<1>2. sync[b].table \in 1..4
  BY DEF IInv, Types, Syncs
<1>3. SyncedTables[i] # Table(b) /\ (Table(b) \in Keyed \/ SyncedTables[i] \in Keyed)
  BY <1>2, TablesAre DEF Table
<1>4. CASE SyncedTables[i] \in Keyed
  BY <1>1, <1>3, <1>4 DEF Complete
<1>5. CASE SyncedTables[i] \notin Keyed
  BY <1>1, <1>3, <1>5 DEF Complete
<1> QED
  BY <1>4, <1>5

LEMMA ReadStorePreserves ==
    ASSUME IInv, NEW b \in Bridges, ReadStore(b)
    PROVE  IInv'
<1>1. /\ Syncing(b) /\ Len(store) \in Nat /\ sync[b].began \in Nat
      /\ sync[b].began <= Len(store) /\ DOMAIN store = 1..Len(store)
  BY DEF IInv, Types, Syncs, OfTheStore, ReadStore, Syncing
<1>0. PICK rows \in SUBSET Copied(Table(b)) :
        /\ sync' = [sync EXCEPT ![b].at = IF FirstStep(Table(b)) = "read" THEN "clear" ELSE "fill",
                                ![b].rows = rows]
        /\ \/ rows = Copied(Table(b)) /\ UNCHANGED <<faults, alone>>
           \/ /\ Table(b) \in Keyed \/ rows = {}
              /\ Fault /\ alone' = [alone EXCEPT ![b] = FALSE]
  BY DEF ReadStore
<1> DEFINE next == IF FirstStep(Table(b)) = "read" THEN "clear" ELSE "fill"
           reading == [sync[b] EXCEPT !.at = next, !.rows = rows]
<1>2. sync[b] \in Syncs /\ reading \in Syncs /\ rows \subseteq 1..Len(store)
  <2>1. rows \in SUBSET Nat /\ next \in {"clear", "fill"} /\ rows \subseteq 1..Len(store)
    BY <1>1 DEF Copied
  <2>2. sync[b] \in Syncs
    BY DEF IInv, Types
  <2> HIDE DEF next
  <2> QED
    BY <2>1, <2>2 DEF Syncs
<1>3. /\ sync' = [sync EXCEPT ![b] = reading]
      /\ sync'[b] = reading /\ \A c \in Bridges : c # b => sync'[c] = sync[c]
  BY <1>0, <1>1 DEF IInv, Types
<1>4. /\ reading.at = next /\ reading.rows = rows
      /\ reading.table = sync[b].table /\ reading.began = sync[b].began
  BY <1>2 DEF Syncs
<1> HIDE DEF reading
<1>5. UNCHANGED <<there, store, kept, totals, fresh>>
  BY DEF ReadStore, tables
<1>6. alone' \in [Bridges -> BOOLEAN]
  BY <1>0 DEF IInv, Types
<1>7. Types'
  BY <1>2, <1>3, <1>5, <1>6 DEF IInv, Types
<1>8. OfTheStore'
  BY <1>1, <1>2, <1>3, <1>4, <1>5 DEF IInv, OfTheStore
<1>9. CASE alone' = [alone EXCEPT ![b] = FALSE]
  BY <1>1, <1>3, <1>5, <1>7, <1>8, <1>9, FailingPreserves
<1>10. CASE rows = Copied(Table(b)) /\ UNCHANGED alone
  <2>1. Syncing(b)' /\ Table(b)' = Table(b)
    BY <1>3, <1>4 DEF Syncing, Table
  <2>2. ASSUME alone[b] PROVE InHand(b)'
    <3>1. \A t : Copied(t)' = Copied(t)
      BY <1>5, StoreStays
    <3>2. Table(b) \notin Keyed => next = "clear" /\ rows = 1..Len(store)
      BY <1>1, <1>2, <1>10, TablesAre DEF FirstStep, Table, Syncs, Copied
    <3>3. 1..sync[b].began \subseteq 1..Len(store)
      BY <1>1
    <3> HIDE DEF next
    <3>4. ASSUME NEW t \in Keyed, sync'[b].at = "fill", Table(b)' = t
          PROVE  Copied(t)' \cap 1..sync'[b].began \subseteq kept'[t] \cup sync'[b].rows
      BY <1>3, <1>4, <1>10, <2>1, <3>1, <3>4
    <3>5. Table(b)' \notin Keyed => /\ sync'[b].at = "clear"
                                    /\ 1..sync'[b].began \subseteq sync'[b].rows
      BY <1>3, <1>4, <2>1, <3>2, <3>3
    <3> QED
      BY <3>4, <3>5 DEF InHand
  <2>3. ASSUME alone[b], NEW i \in 1..4, i < sync'[b].table
        PROVE  Complete(SyncedTables[i], sync[b].began, Copied(SyncedTables[i]), kept', totals')
    BY <1>3, <1>4, <1>5, <2>3, BehindStays
  <2> QED
    BY <1>1, <1>3, <1>4, <1>5, <1>7, <1>8, <1>10, <2>1, <2>2, <2>3, SyncStepPreserves
<1> QED
  BY <1>0, <1>9, <1>10

LEMMA ClearTablePreserves ==
    ASSUME IInv, NEW b \in Bridges, ClearTable(b)
    PROVE  IInv'
<1> DEFINE next == IF FirstStep(Table(b)) = "read" THEN "fill" ELSE "read"
           clearing == [sync[b] EXCEPT !.at = next]
<1>1. Syncing(b) /\ sync[b].at = "clear" /\ UNCHANGED <<there, store>>
  BY DEF ClearTable, Syncing
<1>2. sync[b] \in Syncs /\ clearing \in Syncs
  <2>1. sync[b] \in Syncs /\ next \in {"fill", "read"}
    BY DEF IInv, Types
  <2> HIDE DEF next
  <2> QED
    BY <2>1 DEF Syncs
<1>3. /\ sync' = [sync EXCEPT ![b] = clearing]
      /\ sync'[b] = clearing /\ \A c \in Bridges : c # b => sync'[c] = sync[c]
  BY DEF IInv, Types, ClearTable
<1>4. /\ clearing.at = next /\ clearing.rows = sync[b].rows
      /\ clearing.table = sync[b].table /\ clearing.began = sync[b].began
  BY <1>2 DEF Syncs
<1> HIDE DEF clearing
<1>5. CASE StatementFails(b)
  <2>1. /\ UNCHANGED <<kept, totals, fresh>> /\ alone' = [alone EXCEPT ![b] = FALSE]
        /\ alone' \in [Bridges -> BOOLEAN]
    BY <1>5 DEF StatementFails, tables, IInv, Types
  <2>2. Types'
    BY <1>1, <1>2, <1>3, <2>1 DEF IInv, Types
  <2>3. OfTheStore'
    BY <1>1, <1>3, <1>4, <2>1 DEF IInv, OfTheStore
  <2> QED
    BY <1>1, <1>3, <2>1, <2>2, <2>3, FailingPreserves
<1>6. CASE ~StatementFails(b)
  <2>1. /\ UNCHANGED <<alone, fresh>>
        /\ Table(b) \in Keyed => kept' = [kept EXCEPT ![Table(b)] = {}] /\ totals' = totals
        /\ Table(b) \notin Keyed => totals' = <<>> /\ kept' = kept
    BY <1>6 DEF ClearTable, ghosts
  <2>2. kept' \in [Keyed -> SUBSET Nat] /\ totals' \in Seq(Nat)
    <3>1. CASE Table(b) \in Keyed
      BY <2>1, <3>1 DEF IInv, Types
    <3>2. CASE Table(b) \notin Keyed
      BY <2>1, <3>2 DEF IInv, Types
    <3> QED
      BY <3>1, <3>2
  <2>3. Types'
    BY <1>1, <1>2, <1>3, <2>1, <2>2 DEF IInv, Types
  <2>4. OfTheStore'
    <3>1. \A t \in Keyed : kept'[t] \subseteq 1..Len(store')
      BY <1>1, <2>1 DEF IInv, OfTheStore, Types
    <3>2. \A i \in 1..Len(totals') : totals'[i] <= Len(store')
      BY <1>1, <2>1 DEF IInv, OfTheStore, Types
    <3>3. \A c \in Bridges : sync'[c].rows \subseteq 1..Len(store') /\ sync'[c].began <= Len(store')
      BY <1>1, <1>3, <1>4 DEF IInv, OfTheStore
    <3>4. fresh' <= Len(store')
      BY <1>1, <2>1 DEF IInv, OfTheStore
    <3> QED
      BY <3>1, <3>2, <3>3, <3>4 DEF OfTheStore
  <2>5. Syncing(b)' /\ Table(b)' = Table(b)
    BY <1>3, <1>4 DEF Syncing, Table
  <2>6. ASSUME alone[b] PROVE InHand(b)'
    <3>1. CASE Table(b) \in Keyed
      BY <1>3, <1>4, <2>5, <3>1, TablesAre DEF InHand, FirstStep
    <3>2. CASE Table(b) \notin Keyed
      <4>1. 1..sync[b].began \subseteq sync[b].rows
        BY <1>1, <2>6, <3>2 DEF IInv, Progress, InHand
      <4> QED
        BY <1>3, <1>4, <2>1, <2>5, <3>2, <4>1 DEF InHand
    <3> QED
      BY <3>1, <3>2
  <2>7. ASSUME alone[b], NEW i \in 1..4, i < sync'[b].table
        PROVE  Complete(SyncedTables[i], sync[b].began, Copied(SyncedTables[i]), kept', totals')
    <3>1. \A t \in Keyed : Table(b) \in Keyed /\ t # Table(b) => kept'[t] = kept[t]
      BY <2>1 DEF IInv, Types
    <3> QED
      BY <1>3, <1>4, <2>1, <2>7, <3>1, BehindStays
  <2> QED
    BY <1>1, <1>3, <1>4, <2>1, <2>3, <2>4, <2>5, <2>6, <2>7, SyncStepPreserves
<1> QED
  BY <1>5, <1>6

LEMMA InsertRowPreserves ==
    ASSUME IInv, NEW b \in Bridges, InsertRow(b)
    PROVE  IInv'
<1>1. /\ Syncing(b) /\ sync[b].at = "fill" /\ Table(b) \in Keyed
      /\ UNCHANGED <<there, store>>
  BY DEF InsertRow, Syncing
<1>2. PICK row \in sync[b].rows :
        /\ sync' = [sync EXCEPT ![b].rows = @ \ {row}]
        /\ \/ /\ kept' = [kept EXCEPT ![Table(b)] = @ \cup {row}]
              /\ UNCHANGED <<totals, alone, fresh>>
           \/ StatementFails(b)
  BY DEF InsertRow, ghosts
<1> DEFINE left == [sync[b] EXCEPT !.rows = @ \ {row}]
<1>3. sync[b] \in Syncs /\ left \in Syncs
  BY DEF IInv, Types, Syncs
<1>4. /\ sync' = [sync EXCEPT ![b] = left]
      /\ sync'[b] = left /\ \A c \in Bridges : c # b => sync'[c] = sync[c]
  BY <1>2 DEF IInv, Types
<1>5. /\ left.at = "fill" /\ left.rows = sync[b].rows \ {row}
      /\ left.table = sync[b].table /\ left.began = sync[b].began
  BY <1>1, <1>3 DEF Syncs
<1> HIDE DEF left
<1>6. Len(store) \in Nat /\ row \in 1..Len(store) /\ row \in Nat
  BY DEF IInv, Types, OfTheStore
<1>7. ASSUME NEW c \in Bridges
      PROVE  sync'[c].rows \subseteq 1..Len(store') /\ sync'[c].began <= Len(store')
  BY <1>1, <1>4, <1>5 DEF IInv, OfTheStore
<1>8. CASE StatementFails(b)
  <2>1. /\ UNCHANGED <<kept, totals, fresh>> /\ alone' = [alone EXCEPT ![b] = FALSE]
        /\ alone' \in [Bridges -> BOOLEAN]
    BY <1>8 DEF StatementFails, tables, IInv, Types
  <2>2. Types'
    BY <1>1, <1>3, <1>4, <2>1 DEF IInv, Types
  <2>3. OfTheStore'
    BY <1>1, <1>7, <2>1 DEF IInv, OfTheStore
  <2> QED
    BY <1>1, <1>4, <2>1, <2>2, <2>3, FailingPreserves
<1>9. CASE kept' = [kept EXCEPT ![Table(b)] = @ \cup {row}] /\ UNCHANGED <<totals, alone, fresh>>
  <2>1. /\ kept' \in [Keyed -> SUBSET Nat] /\ kept'[Table(b)] = kept[Table(b)] \cup {row}
        /\ \A t \in Keyed : t # Table(b) => kept'[t] = kept[t]
    BY <1>1, <1>6, <1>9 DEF IInv, Types
  <2>2. Types'
    BY <1>1, <1>3, <1>4, <1>9, <2>1 DEF IInv, Types
  <2>3. OfTheStore'
    <3>1. ASSUME NEW t \in Keyed PROVE kept'[t] \subseteq 1..Len(store')
      BY <1>1, <1>6, <2>1 DEF IInv, OfTheStore
    <3> QED
      BY <1>1, <1>7, <1>9, <3>1 DEF IInv, OfTheStore
  <2>4. Syncing(b)' /\ Table(b)' = Table(b)
    BY <1>4, <1>5 DEF Syncing, Table
  <2>5. ASSUME alone[b] PROVE InHand(b)'
    <3>1. \A t : Copied(t)' = Copied(t)
      BY <1>1, StoreStays
    <3>2. Copied(Table(b)) \cap 1..sync[b].began \subseteq kept[Table(b)] \cup sync[b].rows
      BY <1>1, <2>5 DEF IInv, Progress, InHand
    <3> QED
      BY <1>1, <1>4, <1>5, <2>1, <2>4, <3>1, <3>2 DEF InHand
  <2>6. ASSUME alone[b], NEW i \in 1..4, i < sync'[b].table
        PROVE  Complete(SyncedTables[i], sync[b].began, Copied(SyncedTables[i]), kept', totals')
    BY <1>1, <1>4, <1>5, <1>9, <2>1, <2>6, BehindStays
  <2> QED
    BY <1>1, <1>4, <1>5, <1>9, <2>2, <2>3, <2>4, <2>5, <2>6, SyncStepPreserves
<1> QED
  BY <1>2, <1>8, <1>9

LEMMA MovedOn ==
    ASSUME NEW s \in Syncs, NEW step \in {"clear", "read"}, NEW table \in 1..4
    PROVE  [s EXCEPT !.at = step, !.table = table, !.rows = {}] \in Syncs
BY DEF Syncs

(* A sync that moves on to the next table has nothing in hand yet. *)
LEMMA OnwardFacts ==
    ASSUME IInv, NEW b \in Bridges, Onward(b), sync[b].table \in 1..3, UNCHANGED store
    PROVE  /\ sync' \in [Bridges -> Syncs] /\ Syncing(b)'
           /\ \A c \in Bridges : c # b => sync'[c] = sync[c]
           /\ sync'[b].table = sync[b].table + 1 /\ sync'[b].began = sync[b].began
           /\ \A c \in Bridges : /\ sync'[c].rows \subseteq 1..Len(store')
                                 /\ sync'[c].began <= Len(store')
           /\ InHand(b)'
<1> DEFINE step == FirstStep(SyncedTables[sync[b].table + 1])
           next == [sync[b] EXCEPT !.at = step, !.table = sync[b].table + 1, !.rows = {}]
<1>1. sync[b] \in Syncs /\ next \in Syncs /\ step \in {"clear", "read"}
  <2>1. sync[b] \in Syncs
    BY DEF IInv, Types
  <2>2. step \in {"clear", "read"} /\ sync[b].table + 1 \in 1..4
    BY DEF FirstStep
  <2> HIDE DEF step
  <2> QED
    BY <2>1, <2>2, MovedOn
<1>2. /\ sync' = [sync EXCEPT ![b] = next]
      /\ sync'[b] = next /\ \A c \in Bridges : c # b => sync'[c] = sync[c]
  BY DEF IInv, Types, Onward
<1>3. /\ next.at = step /\ next.rows = {}
      /\ next.table = sync[b].table + 1 /\ next.began = sync[b].began
  BY <1>1 DEF Syncs
<1>4. SyncedTables[next.table] \notin Keyed => step = "read"
  BY <1>3, TablesAre DEF FirstStep
<1> HIDE DEF next
<1>5. sync' \in [Bridges -> Syncs]
  BY <1>1, <1>2 DEF IInv, Types
<1> HIDE DEF step
<1>6. Syncing(b)' /\ Table(b)' = SyncedTables[next.table]
  BY <1>1, <1>2, <1>3 DEF Syncing, Table
<1>7. InHand(b)'
  BY <1>1, <1>2, <1>3, <1>4, <1>6 DEF InHand
<1>8. \A c \in Bridges : sync'[c].rows \subseteq 1..Len(store') /\ sync'[c].began <= Len(store')
  BY <1>2, <1>3 DEF IInv, OfTheStore
<1> QED
  BY <1>2, <1>3, <1>5, <1>6, <1>7, <1>8

LEMMA InsertTotalPreserves ==
    ASSUME IInv, NEW b \in Bridges, InsertTotal(b)
    PROVE  IInv'
<1>1. /\ Syncing(b) /\ sync[b].at = "fill" /\ Table(b) \notin Keyed /\ Onward(b)
      /\ UNCHANGED <<there, store>>
  BY DEF InsertTotal, Syncing
<1>2. sync[b].table = 2
  BY <1>1, TablesAre DEF IInv, Types, Syncs, Table
<1>3. /\ sync' \in [Bridges -> Syncs] /\ Syncing(b)'
      /\ \A c \in Bridges : c # b => sync'[c] = sync[c]
      /\ sync'[b].table = 3 /\ sync'[b].began = sync[b].began
      /\ \A c \in Bridges : sync'[c].rows \subseteq 1..Len(store') /\ sync'[c].began <= Len(store')
      /\ InHand(b)'
  BY <1>1, <1>2, OnwardFacts
<1>4. PICK n : n = Cardinality(sync[b].rows)
  OBVIOUS
<1>5. n \in Nat /\ n <= Len(store) /\ IsFiniteSet(sync[b].rows) /\ Len(store) \in Nat
  <2>1. Len(store) \in Nat /\ sync[b].rows \subseteq 1..Len(store)
    BY DEF IInv, Types, OfTheStore
  <2>2. IsFiniteSet(1..Len(store)) /\ Cardinality(1..Len(store)) = Len(store)
    BY <2>1, FirstRows
  <2>3. IsFiniteSet(sync[b].rows) /\ Cardinality(sync[b].rows) <= Len(store)
    BY <2>1, <2>2, FS_Subset
  <2> QED
    BY <1>4, <2>1, <2>3, FS_CardinalityType
<1>6. CASE StatementFails(b)
  <2>1. /\ UNCHANGED <<kept, totals, fresh>> /\ alone' = [alone EXCEPT ![b] = FALSE]
        /\ alone' \in [Bridges -> BOOLEAN]
    BY <1>6 DEF StatementFails, tables, IInv, Types
  <2>2. Types'
    BY <1>1, <1>3, <2>1 DEF IInv, Types
  <2>3. OfTheStore'
    BY <1>1, <1>3, <2>1 DEF IInv, OfTheStore
  <2> QED
    BY <1>1, <1>3, <2>1, <2>2, <2>3, FailingPreserves
<1>7. CASE totals' = Append(totals, n) /\ UNCHANGED <<kept, alone, fresh>>
  <2>0. totals \in Seq(Nat)
    BY DEF IInv, Types
  <2>1. totals' \in Seq(Nat) /\ Len(totals') = Len(totals) + 1
    BY <1>5, <1>7, <2>0
  <2>2. Types'
    BY <1>1, <1>3, <1>7, <2>1 DEF IInv, Types
  <2>3. OfTheStore'
    <3>1. ASSUME NEW i \in 1..Len(totals') PROVE totals'[i] <= Len(store')
      <4>1. CASE i = Len(totals) + 1
        BY <1>1, <1>5, <1>7, <2>0, <4>1
      <4>2. CASE i \in 1..Len(totals)
        BY <1>1, <1>5, <1>7, <2>0, <4>2 DEF IInv, OfTheStore
      <4> QED
        BY <2>0, <2>1, <4>1, <4>2
    <3> QED
      BY <1>1, <1>3, <1>7, <3>1 DEF IInv, OfTheStore
  <2>4. ASSUME alone[b], NEW i \in 1..4, i < 3
        PROVE  Complete(SyncedTables[i], sync[b].began, Copied(SyncedTables[i]), kept', totals')
    <3>1. CASE i < 2
      BY <1>1, <1>2, <1>7, <2>4, <3>1, BehindStays
    <3>2. CASE i = 2
      <4>1. totals = <<>> /\ 1..sync[b].began \subseteq sync[b].rows
        BY <1>1, <2>4 DEF IInv, Progress, InHand
      <4>2. totals' = <<n>> /\ totals' # <<>> /\ Head(totals') = n
        BY <1>7, <4>1
      <4>3. sync[b].began \in Nat /\ sync[b].began <= n
        <5>1. sync[b].began \in Nat
          BY DEF IInv, Types, Syncs
        <5>2. Cardinality(1..sync[b].began) <= n
          BY <1>4, <1>5, <4>1, FS_Subset
        <5> QED
          BY <5>1, <5>2, FirstRows
      <4> QED
        BY <3>2, <4>2, <4>3, TablesAre DEF Complete
    <3> QED
      BY <2>4, <3>1, <3>2
  <2> QED
    BY <1>1, <1>3, <1>7, <2>2, <2>3, <2>4, SyncStepPreserves
<1> QED
  BY <1>4, <1>6, <1>7 DEF InsertTotal, ghosts

LEMMA TableDonePreserves ==
    ASSUME IInv, NEW b \in Bridges, TableDone(b)
    PROVE  IInv'
<1>1. /\ Syncing(b) /\ sync[b].at = "fill" /\ sync[b].rows = {} /\ Table(b) \in Keyed
      /\ UNCHANGED <<there, store, kept, totals>>
  BY DEF TableDone, Syncing, tables
<1>2. sync[b] \in Syncs /\ sync[b].began \in Nat /\ sync[b].table \in 1..4
  BY DEF IInv, Types, Syncs
<1>3. ASSUME alone[b], NEW i \in 1..4, i <= sync[b].table
      PROVE  Complete(SyncedTables[i], sync[b].began, Copied(SyncedTables[i]), kept, totals)
  <2>1. CASE i < sync[b].table
    BY <1>3, <2>1 DEF IInv, Progress
  <2>2. CASE i = sync[b].table
    BY <1>1, <1>3, <2>2 DEF IInv, Progress, InHand, Complete, Table
  <2> QED
    BY <1>2, <1>3, <2>1, <2>2
<1>4. CASE sync[b].table < 4
  <2>1. Onward(b) /\ UNCHANGED <<alone, fresh>> /\ sync[b].table \in 1..3
    BY <1>2, <1>4, TablesAre DEF TableDone
  <2>2. /\ sync' \in [Bridges -> Syncs] /\ Syncing(b)'
        /\ \A c \in Bridges : c # b => sync'[c] = sync[c]
        /\ sync'[b].table = sync[b].table + 1 /\ sync'[b].began = sync[b].began
        /\ \A c \in Bridges : sync'[c].rows \subseteq 1..Len(store') /\ sync'[c].began <= Len(store')
        /\ InHand(b)'
    BY <1>1, <2>1, OnwardFacts
  <2>3. Types'
    BY <1>1, <2>1, <2>2 DEF IInv, Types
  <2>4. OfTheStore'
    BY <1>1, <2>1, <2>2 DEF IInv, OfTheStore
  <2>5. ASSUME alone[b], NEW i \in 1..4, i < sync'[b].table
        PROVE  Complete(SyncedTables[i], sync[b].began, Copied(SyncedTables[i]), kept', totals')
    <3>1. i <= sync[b].table
      BY <1>2, <2>2, <2>5
    <3> QED
      BY <1>1, <1>3, <2>5, <3>1
  <2> QED
    BY <1>1, <2>1, <2>2, <2>3, <2>4, <2>5, SyncStepPreserves
<1>5. CASE sync[b].table = 4
  <2>1. /\ sync' = [sync EXCEPT ![b] = NotSyncing]
        /\ fresh' = IF alone[b] THEN sync[b].began ELSE 0
        /\ alone' = [alone EXCEPT ![b] = FALSE]
    BY <1>5, TablesAre DEF TableDone
  <2>2. /\ sync'[b] = NotSyncing /\ NotSyncing \in Syncs
        /\ \A c \in Bridges : c # b => sync'[c] = sync[c]
    BY <2>1 DEF IInv, Types, NotSyncing, Syncs
  <2>3. Types'
    BY <1>1, <1>2, <2>1, <2>2 DEF IInv, Types
  <2>4. OfTheStore'
    <3>1. Len(store) \in Nat /\ fresh' <= Len(store)
      BY <1>2, <2>1 DEF IInv, Types, OfTheStore
    <3> QED
      BY <1>1, <2>2, <3>1 DEF IInv, OfTheStore, NotSyncing
  <2>5. ASSUME NEW c \in Bridges PROVE Progress(c)'
    <3>1. alone'[c] => alone[c] /\ c # b
      BY <2>1 DEF IInv, Types
    <3> QED
      BY <1>1, <3>1 DEF IInv, Progress
  <2>6. FreshComplete'
    <3> SUFFICES ASSUME fresh' # 0 PROVE FreshComplete'
      BY DEF FreshComplete
    <3>1. alone[b] /\ fresh' = sync[b].began
      BY <2>1
    <3>2. \A i \in 1..4 : Complete(SyncedTables[i], fresh', Copied(SyncedTables[i])', kept', totals')
      BY <1>1, <1>3, <1>5, <3>1, StoreStays
    <3>3. \A c \in Bridges : ~Syncing(c)'
      BY <2>2, <3>1 DEF IInv, Progress, Syncing, NotSyncing
    <3> QED
      BY <3>2, <3>3 DEF FreshComplete
  <2> QED
    BY <2>3, <2>4, <2>5, <2>6 DEF IInv
<1> QED
  BY <1>2, <1>4, <1>5

LEMMA CrashPreserves ==
    ASSUME IInv, NEW b \in Bridges, Crash(b)
    PROVE  IInv'
<1>1. /\ sync' = [sync EXCEPT ![b] = NotSyncing] /\ Syncing(b)
      /\ alone' = [alone EXCEPT ![b] = FALSE]
      /\ UNCHANGED <<there, store, kept, totals, fresh>>
  BY DEF Crash, tables
<1>2. /\ sync'[b] = NotSyncing /\ NotSyncing \in Syncs
      /\ \A c \in Bridges : c # b => sync'[c] = sync[c]
  BY <1>1 DEF IInv, Types, NotSyncing, Syncs
<1>3. Types'
  BY <1>1, <1>2 DEF IInv, Types
<1>4. OfTheStore'
  <2>1. Len(store) \in Nat
    BY DEF IInv, Types
  <2> QED
    BY <1>1, <1>2, <2>1 DEF IInv, OfTheStore, NotSyncing
<1> QED
  BY <1>1, <1>2, <1>3, <1>4, FailingPreserves

(* The date may change what the sessions are counted as, not their number.  *)
LEMMA DayPassesPreserves ==
    ASSUME IInv, DayPasses
    PROVE  IInv'
<1>1. DOMAIN store = 1..Len(store) /\ Len(store) \in Nat
  BY DEF IInv, Types
<1>2. /\ store' \in [1..Len(store) -> Ages \cup {Undated}]
      /\ \A i \in 1..Len(store) : store'[i] = Undated <=> store[i] = Undated
  BY <1>1 DEF DayPasses, Ages, Today, LongAgo, Undated
<1>3. store' \in Seq(Ages \cup {Undated}) /\ Len(store') = Len(store)
  BY <1>1, <1>2
<1> QED
  BY <1>1, <1>2, <1>3, OthersPreserve DEF DayPasses, tables, ghosts

LEMMA NextPreserves == IInv /\ [Next]_vars => IInv'
<1> SUFFICES ASSUME IInv, [Next]_vars PROVE IInv'
  OBVIOUS
<1>0. store \in Seq(Ages \cup {Undated}) /\ Len(store) \in Nat
  BY DEF IInv, Types
<1>1. ASSUME NEW b \in there.bridges, RefreshTask(b) PROVE IInv'
  <2>1. b \in Bridges
    BY <1>1, BridgesThere DEF IInv
  <2>2. CASE StartSync(b)
    BY <2>1, <2>2, StartSyncPreserves
  <2>3. CASE ClearTable(b)
    BY <2>1, <2>3, ClearTablePreserves
  <2>4. CASE ReadStore(b)
    BY <2>1, <2>4, ReadStorePreserves
  <2>5. CASE InsertRow(b)
    BY <2>1, <2>5, InsertRowPreserves
  <2>6. CASE InsertTotal(b)
    BY <2>1, <2>6, InsertTotalPreserves
  <2>7. CASE TableDone(b)
    BY <2>1, <2>7, TableDonePreserves
  <2>8. CASE Crash(b)
    BY <2>1, <2>8, CrashPreserves
  <2>9. ASSUME NEW rows, NEW failing, IngestEvents(b, rows, failing)
        PROVE  IInv'
    BY <1>0, <2>9, OthersPreserve DEF IngestEvents
  <2> QED
    BY <1>1, <2>2, <2>3, <2>4, <2>5, <2>6, <2>7, <2>8, <2>9 DEF RefreshTask, SyncStep
<1>2. CASE Rest
  <2>1. UNCHANGED <<there, store, kept, totals, sync, alone, fresh>>
    BY <1>2 DEF Rest, Ask, QueryCache, QueryStore, Reply, tables, ghosts
  <2> QED
    BY <1>0, <2>1, OthersPreserve
<1>3. CASE StoreGrows
  <2>1. PICK age \in Ages \cup {Undated} : store' = Append(store, age)
    BY <1>3 DEF StoreGrows, Ages, Today, LongAgo
  <2>2. /\ store' \in Seq(Ages \cup {Undated}) /\ Len(store') = Len(store) + 1
        /\ \A i \in 1..Len(store) : store'[i] = store[i]
    BY <1>0, <2>1
  <2> QED
    BY <1>0, <1>3, <2>2, OthersPreserve DEF StoreGrows, tables, ghosts
<1>4. CASE DayPasses
  BY <1>4, DayPassesPreserves
<1>5. CASE UNCHANGED vars
  BY <1>0, <1>5, OthersPreserve DEF vars, tables, ghosts
<1> QED
  BY <1>1, <1>2, <1>3, <1>4, <1>5 DEF Next

(* The invariant of the copies holds in every reachable state of Spec. *)
THEOREM Invariant == Spec => []IInv
<1> QED
  BY InitIsInvariant, NextPreserves, PTL DEF Spec
-------------------------------------------------------------------------------
(* What the usage endpoint reports of a table that sync_session_store        *)
(* replaces: the number of its rows, or the first of its totals.            *)
LEMMA ReportedIs ==
    ASSUME NEW t \in ToSet(SyncedTables)
    PROVE  Reported(t) = IF t \in Keyed THEN Cardinality(kept[t])
                         ELSE IF totals = <<>> THEN 0 ELSE Head(totals)
BY TablesAre DEF Reported, EventTables

LEMMA ReportedWithin == IInv => NeverMoreThanStore
<1> SUFFICES ASSUME IInv, NEW t \in ToSet(SyncedTables) PROVE Reported(t) <= Len(store)
  BY DEF NeverMoreThanStore
<1>1. Len(store) \in Nat
  BY DEF IInv, Types
<1>2. CASE t \in Keyed
  <2>1. Cardinality(kept[t]) <= Len(store)
    BY <1>1, <1>2, FirstRows, FS_Subset DEF IInv, OfTheStore
  <2> QED
    BY <1>2, <2>1, ReportedIs
<1>3. CASE t \notin Keyed
  <2>1. CASE totals = <<>>
    BY <1>1, <1>3, <2>1, ReportedIs
  <2>2. CASE totals # <<>>
    <3>1. Head(totals) = totals[1] /\ 1 \in 1..Len(totals)
      BY <2>2 DEF IInv, Types
    <3> QED
      BY <1>3, <2>2, <3>1, ReportedIs DEF IInv, OfTheStore
  <2> QED
    BY <2>1, <2>2
<1> QED
  BY <1>2, <1>3

(* The usage endpoint never reports more sessions, files, repositories or     *)
(* months than session-store.db has, whatever two syncs that overlap,         *)
(* statements that fail and crashes leave in the cache.                      *)
THEOREM NeverMoreThanStoreCorrect == Spec => []NeverMoreThanStore
<1> QED
  BY ReportedWithin, Invariant, PTL

LEMMA FreshReported == IInv => SyncReplacesAll
<1> SUFFICES ASSUME IInv, NEW t \in ToSet(SyncedTables)
             PROVE  Cardinality(Copied(t) \cap 1..fresh) <= Reported(t)
  BY DEF SyncReplacesAll
<1>1. /\ Len(store) \in Nat /\ fresh \in Nat
      /\ fresh # 0 => Complete(t, fresh, Copied(t), kept, totals)
  BY TablesAre DEF IInv, Types, FreshComplete
<1>2. PICK due : due = Copied(t) \cap 1..fresh
  OBVIOUS
<1>3. IsFiniteSet(due) /\ Cardinality(due) \in Nat /\ Cardinality(due) <= fresh
  BY <1>1, <1>2, FirstRows, FS_Subset, FS_CardinalityType
<1>4. CASE t \in Keyed
  <2>1. IsFiniteSet(kept[t]) /\ Cardinality(kept[t]) \in Nat
    BY <1>1, <1>4, FirstRows, FS_Subset, FS_CardinalityType DEF IInv, OfTheStore
  <2>2. fresh # 0 => Cardinality(due) <= Cardinality(kept[t])
    BY <1>1, <1>2, <1>4, <2>1, FS_Subset DEF Complete
  <2>3. fresh = 0 => Cardinality(due) <= Cardinality(kept[t])
    BY <1>3, <2>1
  <2> QED
    BY <1>2, <1>4, <2>2, <2>3, ReportedIs
<1>5. CASE t \notin Keyed
  <2>1. PICK read : read = IF totals = <<>> THEN 0 ELSE Head(totals)
    OBVIOUS
  <2>2. read \in Nat
    BY <2>1 DEF IInv, Types
  <2>3. fresh # 0 => fresh <= read
    BY <1>1, <1>5, <2>1 DEF Complete
  <2>4. Cardinality(due) <= read
    BY <1>1, <1>3, <2>2, <2>3
  <2> QED
    BY <1>2, <1>5, <2>1, <2>4, ReportedIs
<1> QED
  BY <1>4, <1>5

(* A sync that ran undisturbed leaves everything reported that the store had  *)
(* when it began, whatever it found in the cache.                            *)
THEOREM SyncReplacesAllCorrect == Spec => []SyncReplacesAll
<1> QED
  BY FreshReported, Invariant, PTL
-------------------------------------------------------------------------------
(* The answers on usage.                                                   *)

Answers ==
    [endpoint : {"none", "usage", "history"}, day : Nat, got : Seq(Nat),
     failed : SUBSET (ToSet(Queries["usage"]) \cup ToSet(Queries["history"]))]

EventTypes ==
    /\ events \in [EventTables -> Nat] /\ lost \in Nat
    /\ answer \in Answers /\ days \in Nat
    /\ answer.endpoint = "usage" => Len(answer.got) <= 2
    /\ answer.endpoint = "history" => Len(answer.got) <= 5

(* The totals themselves are ordered; every refresh adds to them together.   *)
TotalsOrdered == events["model_usage"] <= events["tool_executions"] + lost

(* What has been read by model is covered by the executions there are by now,  *)
(* and by those that were read, if they were.                                *)
SoFarOrdered ==
    answer.endpoint = "usage" =>
        /\ Len(answer.got) >= 1 => answer.got[1] <= events["tool_executions"] + lost
        /\ Len(answer.got) >= 2 => \/ "tool_executions" \in answer.failed
                                   \/ answer.got[1] <= answer.got[2] + lost

EventInv == EventTypes /\ TotalsOrdered /\ SoFarOrdered

LEMMA QueriesAre ==
    /\ Len(Queries["usage"]) = 2 /\ DOMAIN Queries["usage"] = 1..2
    /\ Queries["usage"][1] = "model_usage" /\ Queries["usage"][2] = "tool_executions"
    /\ ToSet(Queries["usage"]) = EventTables
    /\ Len(Queries["history"]) = 5
    /\ ToSet(Queries["history"]) = {"sessions", "today", "week", "month", "months"}
    /\ \A i \in 1..5 : Queries["history"][i] \in ToSet(Queries["history"])
<1>1. /\ Len(Queries["usage"]) = 2 /\ DOMAIN Queries["usage"] = 1..2
      /\ Queries["usage"][1] = "model_usage" /\ Queries["usage"][2] = "tool_executions"
  BY DEF Queries
<1>2. ToSet(Queries["usage"]) = {Queries["usage"][i] : i \in 1..2}
  BY <1>1 DEF ToSet
<1>3. /\ Len(Queries["history"]) = 5 /\ DOMAIN Queries["history"] = 1..5
      /\ Queries["history"][1] = "sessions" /\ Queries["history"][2] = "today"
      /\ Queries["history"][3] = "week" /\ Queries["history"][4] = "month"
      /\ Queries["history"][5] = "months"
  BY DEF Queries
<1>4. ToSet(Queries["history"]) = {Queries["history"][i] : i \in 1..5}
  BY <1>3 DEF ToSet
<1>5. ToSet(Queries["usage"]) = EventTables
  BY <1>1, <1>2 DEF EventTables
<1> QED
  BY <1>1, <1>3, <1>4, <1>5

LEMMA EventsReported == \A t \in EventTables : Reported(t) = events[t]
BY TablesAre DEF Reported, EventTables

(* An answer takes one more number. *)
LEMMA OneMore ==
    ASSUME NEW asked \in Answers, NEW n \in Nat, NEW longer,
           longer = [asked EXCEPT !.got = Append(@, n)]
    PROVE  /\ longer \in Answers
           /\ longer.endpoint = asked.endpoint /\ longer.day = asked.day
           /\ longer.failed = asked.failed
           /\ Len(asked.got) \in Nat /\ Len(longer.got) = Len(asked.got) + 1
           /\ longer.got[Len(asked.got) + 1] = n
           /\ \A i \in 1..Len(asked.got) : longer.got[i] = asked.got[i] /\ asked.got[i] \in Nat
<1> DEFINE got == Append(asked.got, n)
<1>1. asked.got \in Seq(Nat) /\ got \in Seq(Nat)
  BY DEF Answers
<1>2. /\ longer \in Answers /\ longer.got = got
      /\ longer.endpoint = asked.endpoint /\ longer.day = asked.day /\ longer.failed = asked.failed
  <2> HIDE DEF got
  <2>1. longer = [asked EXCEPT !.got = got]
    BY DEF got
  <2> QED
    BY <1>1, <2>1 DEF Answers
<1> QED
  BY <1>1, <1>2

(* Whatever is read of the cache or of the store is a number. *)
LEMMA ReadsAreNumbers ==
    ASSUME IInv
    PROVE  Len(store) \in Nat /\ \A age : NotOlder(age) \in Nat
<1>1. Len(store) \in Nat /\ DOMAIN store = 1..Len(store)
  BY DEF IInv, Types
<1>2. \A S \in SUBSET (1..Len(store)) : Cardinality(S) \in Nat
  BY <1>1, FirstRows, FS_Subset, FS_CardinalityType
<1>3. ASSUME NEW age PROVE NotOlder(age) \in Nat
  BY <1>1, <1>2 DEF NotOlder
<1> QED
  BY <1>1, <1>3

OneRead(got, longer, n, v) ==
    /\ Len(got) = n /\ Len(longer) = n + 1 /\ longer[n + 1] = v
    /\ \A i \in 1..n : longer[i] = got[i] /\ got[i] \in Nat

(* A query of the cache adds what is reported of the next table, or less if it *)
(* fails; if the cache cannot be opened, all is 0.                           *)
LEMMA QueryCacheFacts ==
    ASSUME EventInv, QueryCache
    PROVE  /\ answer.endpoint = "usage" /\ UNCHANGED <<store, events, lost, days>>
           /\ answer' \in Answers /\ answer'.endpoint = "usage" /\ answer'.day = answer.day
           /\ \/ /\ Len(answer'.got) = 2 /\ answer'.got[1] = 0 /\ answer'.got[2] = 0
                 /\ "tool_executions" \in answer'.failed
              \/ \E n \in 0..1, read \in Nat :
                    /\ OneRead(answer.got, answer'.got, n, read)
                    /\ answer.failed \subseteq answer'.failed
                    /\ n = 0 => read <= events["model_usage"]
                    /\ n = 1 => /\ read <= events["tool_executions"]
                                /\ \/ read = events["tool_executions"]
                                   \/ "tool_executions" \in answer'.failed
<1>0. PICK n : n = Len(answer.got)
  OBVIOUS
<1>1. /\ answer.endpoint = "usage" /\ answer \in Answers /\ n \in 0..1
      /\ UNCHANGED <<store, events, lost, days>>
  <2>1. answer.endpoint = "usage" /\ Len(answer.got) # 2 /\ UNCHANGED <<store, events, lost, days>>
    BY QueriesAre DEF QueryCache, Asking, Answered, tables, ghosts
  <2>2. answer \in Answers /\ Len(answer.got) <= 2
    BY <2>1 DEF EventInv, EventTypes
  <2>3. answer.got \in Seq(Nat)
    BY <2>2 DEF Answers
  <2>4. n \in Nat
    BY <1>0, <2>3
  <2>5. n <= 2 /\ n # 2
    BY <1>0, <2>1, <2>2
  <2> QED
    BY <2>1, <2>2, <2>4, <2>5
<1>2. PICK q : /\ q = NextQuery /\ q \in EventTables
               /\ n = 0 => q = "model_usage"
               /\ n = 1 => q = "tool_executions"
  <2>1. NextQuery = Queries["usage"][n + 1]
    BY <1>0, <1>1 DEF NextQuery
  <2> QED
    BY <1>1, <2>1, QueriesAre DEF EventTables
<1>3. PICK total \in Nat : total = events[q] /\ total = Reported(q)
  BY <1>2, EventsReported DEF EventInv, EventTypes
<1>4. CASE answer' = [answer EXCEPT !.got = Append(@, Reported(NextQuery))]
  <2>1. answer' = [answer EXCEPT !.got = Append(@, total)]
    BY <1>2, <1>3, <1>4
  <2>2. /\ answer' \in Answers /\ answer'.endpoint = "usage" /\ answer'.day = answer.day
        /\ answer'.failed = answer.failed
        /\ OneRead(answer.got, answer'.got, n, total)
    BY <1>0, <1>1, <2>1, OneMore DEF OneRead
  <2>3. /\ n = 0 => total <= events["model_usage"]
        /\ n = 1 => total <= events["tool_executions"] /\ total = events["tool_executions"]
    <3>1. total <= total
      OBVIOUS
    <3>2. /\ n = 0 => total = events["model_usage"]
          /\ n = 1 => total = events["tool_executions"]
      BY <1>2, <1>3
    <3> QED
      BY <3>1, <3>2, Zenon
  <2>4. answer.failed \subseteq answer'.failed
    BY <2>2
  <2> QED
    BY <1>1, <2>2, <2>3, <2>4
<1>5. CASE \E part \in IF NextQuery = "model_usage" THEN 0..Reported(NextQuery) ELSE {0} :
             answer' = [answer EXCEPT !.got = Append(@, part), !.failed = @ \cup {NextQuery}]
  <2>1. PICK part \in Nat :
               /\ part <= total
               /\ answer' = [answer EXCEPT !.got = Append(@, part), !.failed = @ \cup {q}]
    <3>1. PICK part \in IF q = "model_usage" THEN 0..total ELSE {0} :
                answer' = [answer EXCEPT !.got = Append(@, part), !.failed = @ \cup {q}]
      BY <1>2, <1>3, <1>5
    <3>2. part \in Nat /\ part <= total
      OBVIOUS
    <3> QED
      BY <3>1, <3>2
  <2>2. q \in ToSet(Queries["usage"])
    BY <1>2, QueriesAre
  <2>3. /\ answer' \in Answers /\ answer'.endpoint = "usage" /\ answer'.day = answer.day
        /\ answer'.failed = answer.failed \cup {q}
        /\ OneRead(answer.got, answer'.got, n, part)
    <3>1. PICK plain : plain = [answer EXCEPT !.got = Append(@, part)]
      OBVIOUS
    <3>2. /\ plain \in Answers /\ plain.endpoint = answer.endpoint
          /\ plain.day = answer.day /\ plain.failed = answer.failed
          /\ Len(plain.got) = n + 1 /\ plain.got[n + 1] = part
          /\ \A i \in 1..n : plain.got[i] = answer.got[i] /\ answer.got[i] \in Nat
      BY <1>0, <1>1, <3>1, OneMore
    <3>3. /\ answer' \in Answers /\ answer'.got = plain.got
          /\ answer'.endpoint = answer.endpoint /\ answer'.day = answer.day
          /\ answer'.failed = answer.failed \cup {q}
      BY <1>1, <2>1, <2>2, <3>1, <3>2 DEF Answers
    <3> QED
      BY <1>0, <1>1, <3>2, <3>3 DEF OneRead
  <2>4. /\ n = 0 => part <= events["model_usage"]
        /\ n = 1 => part <= events["tool_executions"] /\ "tool_executions" \in answer'.failed
    BY <1>2, <1>3, <2>1, <2>3
  <2>5. answer.failed \subseteq answer'.failed
    BY <2>3
  <2> QED
    BY <1>1, <2>1, <2>3, <2>4, <2>5
<1>6. CASE answer' = [answer EXCEPT !.got = [query \in DOMAIN Queries["usage"] |-> 0],
                                    !.failed = ToSet(Queries["usage"])]
  <2>1. PICK zeros : zeros = [query \in 1..2 |-> 0]
    OBVIOUS
  <2>2. zeros \in Seq(Nat) /\ Len(zeros) = 2 /\ zeros[1] = 0 /\ zeros[2] = 0
    BY <2>1
  <2>3. answer' = [answer EXCEPT !.got = zeros, !.failed = EventTables]
    BY <1>6, <2>1, QueriesAre
  <2>4. /\ answer' \in Answers /\ answer'.endpoint = "usage" /\ answer'.day = answer.day
        /\ answer'.got = zeros /\ answer'.failed = EventTables
    BY <1>1, <2>2, <2>3, QueriesAre DEF Answers
  <2> QED
    BY <1>1, <2>2, <2>4 DEF EventTables
<1> QED
  BY <1>4, <1>5, <1>6 DEF QueryCache

LEMMA QueryCachePreserves ==
    ASSUME EventInv, QueryCache
    PROVE  EventInv'
<1>1. /\ UNCHANGED <<events, lost, days>>
      /\ answer' \in Answers /\ answer'.endpoint = "usage"
  BY QueryCacheFacts
<1>2. PICK m, t, l \in Nat : m = events["model_usage"] /\ t = events["tool_executions"] /\ l = lost
  BY DEF EventInv, EventTypes, EventTables
<1>3. m <= t + l
  BY <1>2 DEF EventInv, TotalsOrdered
<1>4. /\ Len(answer'.got) <= 2
      /\ Len(answer'.got) >= 1 => answer'.got[1] <= t + l
      /\ Len(answer'.got) >= 2 => \/ "tool_executions" \in answer'.failed
                                  \/ answer'.got[1] <= answer'.got[2] + l
  <2>1. CASE /\ Len(answer'.got) = 2 /\ answer'.got[1] = 0 /\ answer'.got[2] = 0
             /\ "tool_executions" \in answer'.failed
    BY <1>2, <2>1
  <2>2. ASSUME NEW n \in 0..1, NEW read \in Nat,
               OneRead(answer.got, answer'.got, n, read),
               n = 0 => read <= m,
               n = 1 => read <= t /\ (read = t \/ "tool_executions" \in answer'.failed)
        PROVE  <1>4!1 /\ <1>4!2 /\ <1>4!3
    <3>1. CASE n = 0
      BY <1>2, <1>3, <2>2, <3>1 DEF OneRead
    <3>2. CASE n = 1
      <4>1. /\ Len(answer.got) = 1 /\ Len(answer'.got) = 2 /\ answer'.got[2] = read
            /\ answer'.got[1] = answer.got[1] /\ answer.got[1] \in Nat
        BY <2>2, <3>2 DEF OneRead
      <4>2. answer.got[1] <= t + l
        BY <1>2, <4>1, QueryCacheFacts DEF EventInv, SoFarOrdered
      <4> QED
        BY <2>2, <3>2, <4>1, <4>2
    <3> QED
      BY <3>1, <3>2
  <2> QED
    BY <1>2, <2>1, <2>2, QueryCacheFacts
<1>5. EventTypes'
  BY <1>1, <1>4 DEF EventInv, EventTypes
<1>6. SoFarOrdered'
  BY <1>1, <1>2, <1>4 DEF SoFarOrdered
<1> QED
  BY <1>1, <1>5, <1>6 DEF EventInv, TotalsOrdered

(* A query of the history adds its count, or a 0 if it fails behind the first. *)
LEMMA QueryStoreFacts ==
    ASSUME IInv, EventInv, QueryStore
    PROVE  /\ answer.endpoint = "history" /\ UNCHANGED <<store, days>>
           /\ \/ answer' = NoAnswer
              \/ \E n \in 0..4, v \in Nat :
                    /\ n = Len(answer.got) /\ Len(answer'.got) = n + 1
                    /\ answer' \in Answers /\ answer'.endpoint = "history"
                    /\ answer'.day = answer.day
                    /\ answer'.got[n + 1] = v
                    /\ \A i \in 1..n : answer'.got[i] = answer.got[i] /\ answer.got[i] \in Nat
                    /\ \/ answer'.failed = answer.failed /\ v = Stored(Queries["history"][n + 1])
                       \/ /\ answer'.failed = answer.failed \cup {Queries["history"][n + 1]}
                          /\ n # 0 /\ v = 0
<1>1. answer.endpoint = "history" /\ answer \in Answers /\ UNCHANGED <<store, days>>
  BY DEF QueryStore, Asking, tables, ghosts, EventInv, EventTypes
<1>2. PICK n \in 0..4 : n = Len(answer.got)
  <2>0. PICK n : n = Len(answer.got)
    OBVIOUS
  <2>1. answer.got \in Seq(Nat) /\ n # 5 /\ n <= 5
    BY <1>1, <2>0, QueriesAre DEF QueryStore, Asking, Answered, Answers, EventInv, EventTypes
  <2>2. n \in Nat
    BY <2>0, <2>1
  <2>3. n \in 0..4
    BY <2>1, <2>2
  <2> QED
    BY <2>0, <2>3
<1>3. PICK q : q = Queries["history"][n + 1] /\ q = NextQuery /\ q \in ToSet(Queries["history"])
  <2>1. n + 1 \in 1..5
    OBVIOUS
  <2> QED
    BY <1>1, <1>2, <2>1, QueriesAre DEF NextQuery
<1>4. Stored(q) \in Nat
  BY <1>3, QueriesAre, ReadsAreNumbers DEF Stored
<1>5. q = "sessions" <=> n = 0
  BY <1>3 DEF Queries
<1>6. CASE answer' = [answer EXCEPT !.got = Append(@, Stored(q))]
  <2>1. /\ answer' \in Answers /\ answer'.endpoint = answer.endpoint
        /\ Len(answer'.got) = n + 1 /\ answer'.got[n + 1] = Stored(q)
        /\ \A i \in 1..n : answer'.got[i] = answer.got[i] /\ answer.got[i] \in Nat
    BY <1>1, <1>2, <1>4, <1>6, OneMore
  <2>2. answer'.day = answer.day /\ answer'.failed = answer.failed
    BY <1>1, <1>6 DEF Answers
  <2> QED
    BY <1>1, <1>2, <1>3, <1>4, <2>1, <2>2
<1>7. CASE /\ n # 0
           /\ answer' = [answer EXCEPT !.got = Append(@, 0), !.failed = @ \cup {q}]
  <2>0. PICK longer : longer = [answer EXCEPT !.got = Append(@, 0)]
    OBVIOUS
  <2>1. /\ longer \in Answers /\ longer.endpoint = answer.endpoint
        /\ Len(longer.got) = n + 1 /\ longer.got[n + 1] = 0
        /\ \A i \in 1..n : longer.got[i] = answer.got[i] /\ answer.got[i] \in Nat
    <3>1. PICK zero \in Nat : zero = 0
      OBVIOUS
    <3>2. longer = [answer EXCEPT !.got = Append(@, zero)]
      BY <2>0, <3>1
    <3>3. /\ longer \in Answers /\ longer.endpoint = answer.endpoint
          /\ Len(longer.got) = Len(answer.got) + 1 /\ longer.got[Len(answer.got) + 1] = zero
          /\ \A i \in 1..Len(answer.got) : longer.got[i] = answer.got[i] /\ answer.got[i] \in Nat
      BY <1>1, <3>2, OneMore
    <3> QED
      BY <1>2, <3>1, <3>3
  <2>2. /\ answer' \in Answers
        /\ answer'.got = longer.got /\ answer'.endpoint = answer.endpoint
        /\ answer'.day = answer.day /\ answer'.failed = answer.failed \cup {q}
    BY <1>1, <1>3, <1>7, <2>0, <2>1 DEF Answers
  <2> QED
    BY <1>1, <1>2, <1>3, <1>7, <2>1, <2>2
<1>8. CASE answer' = NoAnswer
  BY <1>1, <1>8
<1>9. \/ answer' = [answer EXCEPT !.got = Append(@, Stored(q))]
      \/ answer' = IF q = "sessions" THEN NoAnswer
                   ELSE [answer EXCEPT !.got = Append(@, 0), !.failed = @ \cup {q}]
  BY <1>3 DEF QueryStore
<1> QED
  BY <1>5, <1>6, <1>7, <1>8, <1>9

LEMMA QueryStorePreserves ==
    ASSUME IInv, EventInv, QueryStore
    PROVE  EventInv'
<1>1. UNCHANGED <<events, lost, days>>
  BY DEF QueryStore, tables, ghosts
<1>2. /\ answer' \in Answers /\ answer'.endpoint # "usage"
      /\ answer'.endpoint = "history" => Len(answer'.got) <= 5
  <2>1. CASE answer' = NoAnswer
    BY <2>1 DEF NoAnswer, Answers
  <2>2. ASSUME answer' # NoAnswer
        PROVE  answer' \in Answers /\ answer'.endpoint = "history" /\ Len(answer'.got) <= 5
    <3>1. PICK n \in 0..4 : /\ answer' \in Answers /\ answer'.endpoint = "history"
                            /\ Len(answer'.got) = n + 1
      BY <2>2, QueryStoreFacts
    <3>2. n + 1 <= 5
      OBVIOUS
    <3> QED
      BY <3>1, <3>2
  <2> QED
    BY <2>1, <2>2
<1> QED
  BY <1>1, <1>2 DEF EventInv, EventTypes, TotalsOrdered, SoFarOrdered

(* The totals only grow, and stay ordered, but for the events that are lost.  *)
LEMMA IngestPreserves ==
    ASSUME EventInv, NEW b, NEW rows \in {EventTables, {"tool_executions"}},
           NEW failing \in SUBSET rows, IngestEvents(b, rows, failing)
    PROVE  EventInv'
<1>1. /\ answer' = answer /\ days' = days
      /\ lost' = IF "tool_executions" \in failing THEN lost + 1 ELSE lost
      /\ events' = [t \in EventTables |-> IF t \in rows \ failing THEN events[t] + 1 ELSE events[t]]
  BY DEF IngestEvents
<1>2. PICK m, t, l \in Nat : m = events["model_usage"] /\ t = events["tool_executions"] /\ l = lost
  BY DEF EventInv, EventTypes, EventTables
<1>3. PICK m2, t2, l2 \in Nat :
          /\ m2 = events'["model_usage"] /\ t2 = events'["tool_executions"] /\ l2 = lost'
          /\ m2 \in {m, m + 1}
          /\ (t2 = t + 1 /\ l2 = l) \/ (t2 = t /\ l2 = l + 1)
  <2>1. "tool_executions" \in rows
    BY DEF EventTables
  <2>2. events'["model_usage"] \in {m, m + 1}
    BY <1>1, <1>2 DEF EventTables
  <2>3. \/ events'["tool_executions"] = t + 1 /\ lost' = l
        \/ events'["tool_executions"] = t /\ lost' = l + 1
    BY <1>1, <1>2, <2>1 DEF EventTables
  <2> QED
    BY <1>2, <2>2, <2>3
<1>4. EventTypes'
  <2>1. events' \in [EventTables -> Nat]
    BY <1>1 DEF EventInv, EventTypes
  <2> QED
    BY <1>1, <1>3, <2>1 DEF EventInv, EventTypes
<1>5. TotalsOrdered'
  <2>1. m <= t + l
    BY <1>2 DEF EventInv, TotalsOrdered
  <2>2. m2 <= t2 + l2
    BY <1>3, <2>1
  <2> QED
    BY <1>3, <2>2 DEF TotalsOrdered
<1>6. SoFarOrdered'
  <2> SUFFICES ASSUME answer.endpoint = "usage" PROVE SoFarOrdered'
    BY <1>1 DEF SoFarOrdered
  <2>1. PICK got : got = answer.got /\ got \in Seq(Nat)
    BY DEF EventInv, EventTypes, Answers
  <2>2. Len(got) \in Nat /\ \A i \in 1..Len(got) : got[i] \in Nat
    BY <2>1
  <2>3. ASSUME Len(got) >= 1 PROVE got[1] <= t2 + l2
    <3>1. got[1] \in Nat /\ got[1] <= t + l
      BY <1>2, <2>1, <2>2, <2>3 DEF EventInv, SoFarOrdered
    <3> QED
      BY <1>3, <3>1
  <2>4. ASSUME Len(got) >= 2 PROVE "tool_executions" \in answer.failed \/ got[1] <= got[2] + l2
    <3>1. /\ got[1] \in Nat /\ got[2] \in Nat
          /\ "tool_executions" \in answer.failed \/ got[1] <= got[2] + l
      BY <1>2, <2>1, <2>2, <2>4 DEF EventInv, SoFarOrdered
    <3> QED
      BY <1>3, <3>1
  <2> QED
    BY <1>1, <1>3, <2>1, <2>3, <2>4 DEF SoFarOrdered
<1> QED
  BY <1>4, <1>5, <1>6 DEF EventInv

(* All that is left changes neither totals nor what was read. *)
LEMMA RestPreserves ==
    ASSUME EventInv, UNCHANGED <<events, lost>>, days' \in {days, days + 1},
           answer' = answer \/ (answer' \in Answers /\ answer'.got = <<>>)
    PROVE  EventInv'
<1>1. CASE answer' = answer
  BY <1>1 DEF EventInv, EventTypes, TotalsOrdered, SoFarOrdered
<1>2. CASE answer' \in Answers /\ answer'.got = <<>>
  <2>1. Len(answer'.got) = 0
    BY <1>2
  <2> QED
    BY <1>2, <2>1 DEF EventInv, EventTypes, TotalsOrdered, SoFarOrdered
<1> QED
  BY <1>1, <1>2

LEMMA EventStepPreserves == IInv /\ EventInv /\ [Next]_vars => EventInv'
<1> SUFFICES ASSUME IInv, EventInv, [Next]_vars PROVE EventInv'
  OBVIOUS
<1>1. ASSUME NEW b \in there.bridges, RefreshTask(b) PROVE EventInv'
  <2>1. CASE StartSync(b) \/ SyncStep(b) \/ Crash(b)
    <3>1. UNCHANGED <<events, lost, answer, days>>
      BY <2>1 DEF StartSync, SyncStep, ClearTable, ReadStore, InsertRow, InsertTotal, TableDone, Crash,
                  StatementFails, tables, ghosts
    <3> QED
      BY <3>1, RestPreserves
  <2>2. ASSUME NEW rows \in {EventTables, {"tool_executions"}}, NEW failing \in SUBSET rows,
               IngestEvents(b, rows, failing)
        PROVE  EventInv'
    BY <2>2, IngestPreserves
  <2> QED
    BY <1>1, <2>1, <2>2 DEF RefreshTask
<1>2. ASSUME NEW endpoint \in there.endpoints, Ask(endpoint) PROVE EventInv'
  <2>1. endpoint \in {"usage", "history"}
    BY DeploymentsAssumption DEF IInv, Types
  <2>2. answer' = [endpoint |-> endpoint, day |-> days, got |-> <<>>, failed |-> {}]
    BY <1>2 DEF Ask, NoAnswer
  <2>3. answer' \in Answers /\ answer'.got = <<>>
    BY <2>1, <2>2 DEF Answers, EventInv, EventTypes
  <2> QED
    BY <1>2, <2>3, RestPreserves DEF Ask, tables, ghosts
<1>3. CASE QueryCache
  BY <1>3, QueryCachePreserves
<1>4. CASE QueryStore
  BY <1>4, QueryStorePreserves
<1>5. CASE Reply
  <2>1. answer' \in Answers /\ answer'.got = <<>>
    BY <1>5 DEF Reply, NoAnswer, Answers
  <2> QED
    BY <1>5, <2>1, RestPreserves DEF Reply, tables, ghosts
<1>6. CASE StoreGrows \/ DayPasses \/ UNCHANGED vars
  BY <1>6, RestPreserves DEF StoreGrows, DayPasses, vars, tables, ghosts
<1> QED
  BY <1>1, <1>2, <1>3, <1>4, <1>5, <1>6 DEF Next, Rest

LEMMA InitIsOrdered == Init => EventInv
<1> SUFFICES ASSUME Init PROVE EventInv
  OBVIOUS
<1>1. NoAnswer \in Answers /\ NoAnswer.endpoint = "none"
  BY DEF NoAnswer, Answers
<1> QED
  BY <1>1 DEF Init, EventInv, EventTypes, TotalsOrdered, SoFarOrdered, EventTables

(* No answer on usage has more executions by model than executions, but for    *)
(* executions whose INSERT failed and unless the query of all of them failed, *)
(* although the two are read by two queries between which refreshes commit.   *)
THEOREM ExecutionsCoverModelUsageCorrect == Spec => []ExecutionsCoverModelUsage
<1>1. EventInv => ExecutionsCoverModelUsage
  <2> SUFFICES ASSUME EventInv, Answered("usage"), "tool_executions" \notin answer.failed
               PROVE  Got("model_usage") <= Got("tool_executions") + lost
    BY DEF ExecutionsCoverModelUsage
  <2>1. answer.endpoint = "usage" /\ Len(answer.got) = 2 /\ answer.got \in Seq(Nat)
    BY QueriesAre DEF Answered, EventInv, EventTypes, Answers
  <2>2. DOMAIN answer.got = 1..2
    BY <2>1
  <2>3. Got("model_usage") = answer.got[1] /\ Got("tool_executions") = answer.got[2]
    <3>1. ASSUME NEW i \in 1..2
          PROVE  /\ Queries["usage"][i] = "model_usage" <=> i = 1
                 /\ Queries["usage"][i] = "tool_executions" <=> i = 2
      BY QueriesAre
    <3>2. /\ (CHOOSE i \in 1..2 : Queries["usage"][i] = "model_usage") = 1
          /\ (CHOOSE i \in 1..2 : Queries["usage"][i] = "tool_executions") = 2
      BY <3>1
    <3> QED
      BY <2>1, <2>2, <3>2 DEF Got
  <2>4. answer.got[1] <= answer.got[2] + lost
    BY <2>1 DEF EventInv, SoFarOrdered
  <2> QED
    BY <2>3, <2>4
<1> QED
  BY <1>1, InitIsOrdered, Invariant, EventStepPreserves, PTL DEF Spec
-------------------------------------------------------------------------------
(* The answers on history.                                                 *)

(* How many midnights there were since the request came. *)
Midnights == days - answer.day

(* What was counted in a window is still in the next one after a midnight;    *)
(* windows counted later were no smaller, but for a query that failed.       *)
WindowsRead(got, failed, all, window, next) ==
    /\ Len(got) = 2 => got[2] <= window
    /\ Len(got) = 3 => got[3] <= next
    /\ Len(got) = 4 => got[4] <= all
    /\ Len(got) >= 3 => "week" \in failed \/ got[2] <= got[3]
    /\ Len(got) >= 4 => "month" \in failed \/ got[3] <= got[4]
    /\ Len(got) >= 5 => "months" \in failed \/ got[4] <= got[5]

WindowsSoFar ==
    answer.endpoint = "history" /\ Midnights <= 1 =>
        WindowsRead(answer.got, answer.failed,
                    NotOlder(LongAgo), NotOlder(Midnights), NotOlder(Midnights + 1))

DaysInOrder == days \in 0..MaxDays /\ answer.day \in 0..days

WindowInv == DaysInOrder /\ WindowsSoFar

ReadInv == IInv /\ EventInv /\ WindowInv

LEMMA CountsWithin ==
    ASSUME NEW n \in Nat, NEW T \in SUBSET (1..n), NEW S \in SUBSET T
    PROVE  /\ Cardinality(S) \in Nat /\ Cardinality(T) \in Nat
           /\ Cardinality(S) <= Cardinality(T) /\ Cardinality(T) <= n
<1> DEFINE N == 1..n
<1>1. IsFiniteSet(N) /\ Cardinality(N) = n /\ T \in SUBSET N
  BY FirstRows
<1> HIDE DEF N
<1>2. IsFiniteSet(T) /\ Cardinality(T) <= n
  BY <1>1, FS_Subset
<1>3. IsFiniteSet(S) /\ Cardinality(S) <= Cardinality(T)
  BY <1>2, FS_Subset
<1> QED
  BY <1>2, <1>3, FS_CardinalityType

(* A window counts no more than a larger one. *)
LEMMA WindowFacts ==
    ASSUME store \in Seq(Ages \cup {Undated}), NEW a \in Nat, NEW b \in Nat, a <= b
    PROVE  NotOlder(a) \in Nat /\ NotOlder(b) \in Nat /\ NotOlder(a) <= NotOlder(b)
<1>1. DOMAIN store = 1..Len(store) /\ Len(store) \in Nat /\ \A i \in DOMAIN store : store[i] \in Nat
  BY DEF Ages, Today, LongAgo, Undated
<1> DEFINE S == {i \in DOMAIN store : store[i] <= a}
           T == {i \in DOMAIN store : store[i] <= b}
<1>2. T \in SUBSET (1..Len(store)) /\ S \in SUBSET T
  BY <1>1
<1> HIDE DEF S, T
<1>3. Cardinality(S) \in Nat /\ Cardinality(T) \in Nat /\ Cardinality(S) <= Cardinality(T)
  BY <1>1, <1>2, CountsWithin
<1> QED
  BY <1>3 DEF NotOlder, S, T

(* The CLI adds to the windows. *)
LEMMA WindowsGrow ==
    ASSUME IInv, StoreGrows, NEW a \in Nat
    PROVE  NotOlder(a) <= NotOlder(a)' /\ NotOlder(a) \in Nat /\ NotOlder(a)' \in Nat
<1>1. store \in Seq(Ages \cup {Undated}) /\ Len(store) \in Nat /\ DOMAIN store = 1..Len(store)
  BY DEF IInv, Types
<1>2. /\ DOMAIN store' = 1..(Len(store) + 1)
      /\ \A i \in DOMAIN store : store'[i] = store[i]
  <2>1. PICK age \in Ages \cup {Undated} : store' = Append(store, age)
    BY DEF StoreGrows, Ages, Today, LongAgo
  <2> QED
    BY <1>1, <2>1
<1> DEFINE S == {i \in DOMAIN store : store[i] <= a}
           T == {i \in DOMAIN store' : store'[i] <= a}
<1>3. T \in SUBSET (1..(Len(store) + 1)) /\ S \in SUBSET T
  BY <1>1, <1>2
<1>4. Len(store) + 1 \in Nat
  BY <1>1
<1> HIDE DEF S, T
<1>5. Cardinality(S) \in Nat /\ Cardinality(T) \in Nat /\ Cardinality(S) <= Cardinality(T)
  BY <1>3, <1>4, CountsWithin
<1> QED
  BY <1>5 DEF NotOlder, S, T

(* At midnight a session is a day older at most. *)
LEMMA WindowsAge ==
    ASSUME IInv, DayPasses, NEW a \in Nat
    PROVE  NotOlder(a) <= NotOlder(a + 1)' /\ NotOlder(a) \in Nat /\ NotOlder(a + 1)' \in Nat
<1>1. store \in Seq(Ages \cup {Undated}) /\ Len(store) \in Nat /\ DOMAIN store = 1..Len(store)
  BY DEF IInv, Types
<1>2. /\ DOMAIN store' = DOMAIN store
      /\ \A i \in DOMAIN store : store[i] \in Nat /\ store'[i] \in {store[i], store[i] + 1}
  BY <1>1 DEF DayPasses, Ages, Today, LongAgo, Undated
<1> DEFINE S == {i \in DOMAIN store : store[i] <= a}
           T == {i \in DOMAIN store' : store'[i] <= a + 1}
<1>3. T \in SUBSET (1..Len(store))
  BY <1>1, <1>2
<1>4. S \in SUBSET T
  BY <1>2
<1> HIDE DEF S, T
<1>5. Cardinality(S) \in Nat /\ Cardinality(T) \in Nat /\ Cardinality(S) <= Cardinality(T)
  BY <1>1, <1>3, <1>4, CountsWithin
<1> QED
  BY <1>5 DEF NotOlder, S, T

(* A session with a date keeps it. *)
LEMMA DatedStay ==
    ASSUME IInv, DayPasses
    PROVE  /\ NotOlder(LongAgo) <= NotOlder(LongAgo)'
           /\ NotOlder(LongAgo) \in Nat /\ NotOlder(LongAgo)' \in Nat
<1>1. store \in Seq(Ages \cup {Undated}) /\ Len(store) \in Nat /\ DOMAIN store = 1..Len(store)
  BY DEF IInv, Types
<1>2. /\ DOMAIN store' = DOMAIN store
      /\ \A i \in DOMAIN store : store[i] <= LongAgo => store'[i] <= LongAgo
  BY <1>1 DEF DayPasses, Ages, Today, LongAgo, Undated
<1> DEFINE S == {i \in DOMAIN store : store[i] <= LongAgo}
           T == {i \in DOMAIN store' : store'[i] <= LongAgo}
<1>3. T \in SUBSET (1..Len(store)) /\ S \in SUBSET T
  BY <1>1, <1>2
<1> HIDE DEF S, T
<1>4. Cardinality(S) \in Nat /\ Cardinality(T) \in Nat /\ Cardinality(S) <= Cardinality(T)
  BY <1>1, <1>3, CountsWithin
<1> QED
  BY <1>4 DEF NotOlder, S, T

(* What was read stays within windows that grow. *)
LEMMA WindowsReadStays ==
    ASSUME NEW got \in Seq(Nat), NEW failed,
           NEW all \in Nat, NEW window \in Nat, NEW next \in Nat,
           NEW all2 \in Nat, NEW window2 \in Nat, NEW next2 \in Nat,
           WindowsRead(got, failed, all, window, next),
           all <= all2, window <= window2, next <= next2
    PROVE  WindowsRead(got, failed, all2, window2, next2)
<1>1. Len(got) \in Nat /\ \A i \in 1..Len(got) : got[i] \in Nat
  OBVIOUS
<1>2. Len(got) = 2 => got[2] <= window2
  BY <1>1 DEF WindowsRead
<1>3. Len(got) = 3 => got[3] <= next2
  BY <1>1 DEF WindowsRead
<1>4. Len(got) = 4 => got[4] <= all2
  BY <1>1 DEF WindowsRead
<1> QED
  BY <1>2, <1>3, <1>4 DEF WindowsRead

(* The next window read is no smaller than the last, which may have aged. *)
LEMMA NextWindowRead ==
    ASSUME NEW got, NEW failed, NEW longer, NEW failing, NEW n \in 0..4, NEW v \in Nat,
           NEW all \in Nat, NEW window \in Nat, NEW next \in Nat,
           OneRead(got, longer, n, v), WindowsRead(got, failed, all, window, next),
           failed \subseteq failing,
           n = 1 => v <= window,
           n = 2 => v <= next /\ ("week" \in failing \/ window <= v),
           n = 3 => v <= all /\ ("month" \in failing \/ next <= v),
           n = 4 => ("months" \in failing \/ all <= v)
    PROVE  WindowsRead(longer, failing, all, window, next)
<1>1. CASE n = 0
  <2>1. Len(longer) = 1
    BY <1>1 DEF OneRead
  <2> QED
    BY <2>1 DEF WindowsRead
<1>2. CASE n = 1
  <2>1. Len(longer) = 2 /\ longer[2] = v
    BY <1>2 DEF OneRead
  <2> QED
    BY <1>2, <2>1 DEF WindowsRead
<1>3. CASE n = 2
  <2>1. /\ Len(got) = 2 /\ Len(longer) = 3 /\ longer[3] = v
        /\ longer[2] = got[2] /\ got[2] \in Nat
    BY <1>3 DEF OneRead
  <2>2. got[2] <= window
    BY <2>1 DEF WindowsRead
  <2>3. PICK read \in Nat : read = got[2]
    BY <2>1
  <2>4. "week" \in failing \/ read <= v
    BY <1>3, <2>2, <2>3
  <2> QED
    BY <1>3, <2>1, <2>3, <2>4 DEF WindowsRead
<1>4. CASE n = 3
  <2>1. /\ Len(got) = 3 /\ Len(longer) = 4 /\ longer[4] = v
        /\ longer[2] = got[2] /\ longer[3] = got[3] /\ got[3] \in Nat
    BY <1>4 DEF OneRead
  <2>2. got[3] <= next /\ ("week" \in failed \/ got[2] <= got[3])
    BY <2>1 DEF WindowsRead
  <2>3. PICK read \in Nat : read = got[3]
    BY <2>1
  <2>4. "month" \in failing \/ read <= v
    BY <1>4, <2>2, <2>3
  <2> QED
    BY <1>4, <2>1, <2>2, <2>3, <2>4 DEF WindowsRead
<1>5. CASE n = 4
  <2>1. /\ Len(got) = 4 /\ Len(longer) = 5 /\ longer[5] = v
        /\ longer[2] = got[2] /\ longer[3] = got[3] /\ longer[4] = got[4]
        /\ got[4] \in Nat
    BY <1>5 DEF OneRead
  <2>2. /\ got[4] <= all
        /\ "week" \in failed \/ got[2] <= got[3]
        /\ "month" \in failed \/ got[3] <= got[4]
    BY <2>1 DEF WindowsRead
  <2>3. PICK read \in Nat : read = got[4]
    BY <2>1
  <2>4. "months" \in failing \/ read <= v
    BY <1>5, <2>2, <2>3
  <2> QED
    BY <1>5, <2>1, <2>2, <2>3, <2>4 DEF WindowsRead
<1> QED
  BY <1>1, <1>2, <1>3, <1>4, <1>5

LEMMA HistoryQueries ==
    /\ Queries["history"][1] = "sessions" /\ Queries["history"][2] = "today"
    /\ Queries["history"][3] = "week" /\ Queries["history"][4] = "month"
    /\ Queries["history"][5] = "months"
BY DEF Queries

(* What one query of the history counts, set against the windows of a request *)
(* that met m midnights so far.                                             *)
LEMMA StoredIs ==
    ASSUME IInv, NEW m \in 0..1
    PROVE  \E all, window, next \in Nat :
               /\ all = NotOlder(LongAgo) /\ window = NotOlder(m) /\ next = NotOlder(m + 1)
               /\ Stored("today") <= window
               /\ window <= Stored("week") /\ Stored("week") <= next
               /\ next <= Stored("month") /\ Stored("month") <= all
               /\ Stored("months") = all
<1>1. store \in Seq(Ages \cup {Undated})
  BY DEF IInv, Types
<1>2. \A a \in Nat : NotOlder(a) \in Nat
  BY <1>1, WindowFacts
<1>3. \A a, b \in Nat : a <= b => NotOlder(a) <= NotOlder(b)
  BY <1>1, WindowFacts
<1>4. /\ Stored("today") = NotOlder(0) /\ Stored("week") = NotOlder(1)
      /\ Stored("month") = NotOlder(2) /\ Stored("months") = NotOlder(3)
      /\ NotOlder(LongAgo) = NotOlder(3)
  BY DEF Stored, Today, ThisWeek, ThisMonth, LongAgo
<1>5. /\ m \in Nat /\ m + 1 \in Nat /\ 0 <= m /\ m <= 1 /\ 1 <= m + 1 /\ m + 1 <= 2 /\ 2 <= 3
      /\ 0 \in Nat /\ 1 \in Nat /\ 2 \in Nat /\ 3 \in Nat
  OBVIOUS
<1>6. /\ NotOlder(0) <= NotOlder(m) /\ NotOlder(m) <= NotOlder(1)
      /\ NotOlder(1) <= NotOlder(m + 1) /\ NotOlder(m + 1) <= NotOlder(2)
      /\ NotOlder(2) <= NotOlder(3)
  BY <1>3, <1>5
<1> QED
  BY <1>2, <1>4, <1>5, <1>6

LEMMA QueryStoreKeepsWindows ==
    ASSUME IInv, EventInv, WindowInv, QueryStore
    PROVE  WindowInv'
<1>1. CASE answer' = NoAnswer
  <2>1. answer'.endpoint = "none" /\ answer'.day = 0 /\ days' = days
    BY <1>1, QueryStoreFacts DEF NoAnswer
  <2> QED
    BY <2>1 DEF WindowInv, DaysInOrder, WindowsSoFar
<1>2. ASSUME answer' # NoAnswer PROVE WindowInv'
  <2>1. PICK n \in 0..4, v \in Nat :
            /\ n = Len(answer.got) /\ Len(answer'.got) = n + 1
            /\ answer'.endpoint = "history" /\ answer'.day = answer.day
            /\ answer'.got[n + 1] = v
            /\ \A i \in 1..n : answer'.got[i] = answer.got[i] /\ answer.got[i] \in Nat
            /\ \/ answer'.failed = answer.failed /\ v = Stored(Queries["history"][n + 1])
               \/ /\ answer'.failed = answer.failed \cup {Queries["history"][n + 1]}
                  /\ n # 0 /\ v = 0
    BY <1>2, QueryStoreFacts
  <2>2. answer.endpoint = "history" /\ UNCHANGED <<store, days>>
    BY QueryStoreFacts
  <2>3. DaysInOrder' /\ Midnights' = Midnights /\ \A a : NotOlder(a)' = NotOlder(a)
    BY <2>1, <2>2 DEF WindowInv, DaysInOrder, Midnights, NotOlder
  <2>4. ASSUME Midnights <= 1
        PROVE  WindowsRead(answer'.got, answer'.failed, NotOlder(LongAgo),
                           NotOlder(Midnights), NotOlder(Midnights + 1))
    <3>1. PICK m \in 0..1 : m = Midnights
      BY <2>4, BoundsAssumption DEF WindowInv, DaysInOrder, Midnights
    <3>2. PICK all, window, next \in Nat :
               /\ all = NotOlder(LongAgo) /\ window = NotOlder(m) /\ next = NotOlder(m + 1)
               /\ Stored("today") <= window
               /\ window <= Stored("week") /\ Stored("week") <= next
               /\ next <= Stored("month") /\ Stored("month") <= all
               /\ Stored("months") = all
      BY StoredIs
    <3>3. WindowsRead(answer.got, answer.failed, all, window, next)
      BY <2>2, <2>4, <3>1, <3>2 DEF WindowInv, WindowsSoFar
    <3>4. /\ answer.failed \subseteq answer'.failed
          /\ n = 1 => v <= window
          /\ n = 2 => v <= next /\ ("week" \in answer'.failed \/ window <= v)
          /\ n = 3 => v <= all /\ ("month" \in answer'.failed \/ next <= v)
          /\ n = 4 => "months" \in answer'.failed \/ all <= v
      <4>1. CASE answer'.failed = answer.failed /\ v = Stored(Queries["history"][n + 1])
        BY <3>2, <4>1, HistoryQueries
      <4>2. CASE /\ answer'.failed = answer.failed \cup {Queries["history"][n + 1]}
                 /\ n # 0 /\ v = 0
        BY <3>2, <4>2, HistoryQueries
      <4> QED
        BY <2>1, <4>1, <4>2
    <3>5. WindowsRead(answer'.got, answer'.failed, all, window, next)
      <4>1. PICK got, failed, longer, failing :
                /\ got = answer.got /\ failed = answer.failed
                /\ longer = answer'.got /\ failing = answer'.failed
        OBVIOUS
      <4>2. OneRead(got, longer, n, v) /\ WindowsRead(got, failed, all, window, next)
        BY <2>1, <3>3, <4>1 DEF OneRead
      <4>3. /\ failed \subseteq failing
            /\ n = 1 => v <= window
            /\ n = 2 => v <= next /\ ("week" \in failing \/ window <= v)
            /\ n = 3 => v <= all /\ ("month" \in failing \/ next <= v)
            /\ n = 4 => "months" \in failing \/ all <= v
        BY <3>4, <4>1
      <4>4. WindowsRead(longer, failing, all, window, next)
        BY <4>2, <4>3, NextWindowRead
      <4> QED
        BY <4>1, <4>4
    <3> QED
      BY <3>1, <3>2, <3>5
  <2> QED
    BY <2>2, <2>3, <2>4 DEF WindowInv, WindowsSoFar
<1> QED
  BY <1>1, <1>2

(* The store and the date go on while a request is answered. *)
LEMMA StoreGrowsKeepsWindows ==
    ASSUME IInv, EventInv, WindowInv, StoreGrows
    PROVE  WindowInv'
<1>1. UNCHANGED <<answer, days>>
  BY DEF StoreGrows
<1>2. DaysInOrder' /\ Midnights' = Midnights
  BY <1>1 DEF WindowInv, DaysInOrder, Midnights
<1>3. ASSUME answer.endpoint = "history", Midnights <= 1
      PROVE  WindowsRead(answer.got, answer.failed, NotOlder(LongAgo)',
                         NotOlder(Midnights)', NotOlder(Midnights + 1)')
  <2>1. PICK m \in 0..1 : m = Midnights
    BY <1>3, BoundsAssumption DEF WindowInv, DaysInOrder, Midnights
  <2>2. m \in Nat /\ m + 1 \in Nat
    OBVIOUS
  <2>3. /\ NotOlder(m) <= NotOlder(m)' /\ NotOlder(m) \in Nat /\ NotOlder(m)' \in Nat
        /\ NotOlder(m + 1) <= NotOlder(m + 1)' /\ NotOlder(m + 1) \in Nat /\ NotOlder(m + 1)' \in Nat
    BY <2>2, WindowsGrow
  <2>4. /\ NotOlder(LongAgo) <= NotOlder(LongAgo)'
        /\ NotOlder(LongAgo) \in Nat /\ NotOlder(LongAgo)' \in Nat
    <3>1. LongAgo \in Nat
      BY DEF LongAgo
    <3> QED
      BY <3>1, WindowsGrow
  <2>5. WindowsRead(answer.got, answer.failed, NotOlder(LongAgo), NotOlder(m), NotOlder(m + 1))
    BY <1>3, <2>1 DEF WindowInv, WindowsSoFar
  <2>6. answer.got \in Seq(Nat)
    BY DEF EventInv, EventTypes, Answers
  <2>7. WindowsRead(answer.got, answer.failed, NotOlder(LongAgo)', NotOlder(m)', NotOlder(m + 1)')
    BY <2>3, <2>4, <2>5, <2>6, WindowsReadStays
  <2> QED
    BY <1>2, <2>1, <2>7
<1> QED
  BY <1>1, <1>2, <1>3 DEF WindowInv, WindowsSoFar

LEMMA DayPassesKeepsWindows ==
    ASSUME IInv, EventInv, WindowInv, DayPasses
    PROVE  WindowInv'
<1>1. answer' = answer /\ days' = days + 1 /\ days < MaxDays
  BY DEF DayPasses
<1>2. PICK d, day \in Nat : d = days /\ day = answer.day /\ day <= d /\ d < MaxDays /\ MaxDays \in Nat
  BY <1>1, BoundsAssumption DEF WindowInv, DaysInOrder
<1>3. DaysInOrder'
  <2>1. d + 1 \in 0..MaxDays /\ day \in 0..(d + 1)
    BY <1>2
  <2> QED
    BY <1>1, <1>2, <2>1 DEF DaysInOrder
<1>4. ASSUME answer.endpoint = "history", Midnights' <= 1
      PROVE  WindowsRead(answer.got, answer.failed, NotOlder(LongAgo)',
                         NotOlder(Midnights)', NotOlder(Midnights + 1)')
  <2>1. Midnights = 0 /\ Midnights' = 1
    <3>1. Midnights = d - day /\ Midnights' = (d + 1) - day
      BY <1>1, <1>2 DEF Midnights
    <3> QED
      BY <1>2, <1>4, <3>1
  <2>2. /\ NotOlder(0) <= NotOlder(0 + 1)' /\ NotOlder(0) \in Nat /\ NotOlder(0 + 1)' \in Nat
        /\ NotOlder(1) <= NotOlder(1 + 1)' /\ NotOlder(1) \in Nat /\ NotOlder(1 + 1)' \in Nat
    BY WindowsAge
  <2>3. /\ NotOlder(LongAgo) <= NotOlder(LongAgo)'
        /\ NotOlder(LongAgo) \in Nat /\ NotOlder(LongAgo)' \in Nat
    BY DatedStay
  <2>4. WindowsRead(answer.got, answer.failed, NotOlder(LongAgo), NotOlder(0), NotOlder(1))
    <3>1. Midnights <= 1 /\ 0 + 1 = 1
      BY <2>1
    <3> QED
      BY <1>4, <2>1, <3>1 DEF WindowInv, WindowsSoFar
  <2>5. answer.got \in Seq(Nat)
    BY DEF EventInv, EventTypes, Answers
  <2>6. /\ NotOlder(0) <= NotOlder(1)' /\ NotOlder(0) \in Nat /\ NotOlder(1)' \in Nat
        /\ NotOlder(1) <= NotOlder(2)' /\ NotOlder(1) \in Nat /\ NotOlder(2)' \in Nat
    <3>1. 0 + 1 = 1 /\ 1 + 1 = 2
      OBVIOUS
    <3> QED
      BY <2>2, <3>1
  <2>7. WindowsRead(answer.got, answer.failed, NotOlder(LongAgo)', NotOlder(1)', NotOlder(2)')
    BY <2>3, <2>4, <2>5, <2>6, WindowsReadStays
  <2>8. NotOlder(Midnights)' = NotOlder(1)' /\ NotOlder(Midnights + 1)' = NotOlder(2)'
    BY <2>1 DEF NotOlder
  <2> QED
    BY <2>7, <2>8
<1> QED
  BY <1>1, <1>3, <1>4 DEF WindowInv, WindowsSoFar

LEMMA WindowStepPreserves == IInv /\ EventInv /\ WindowInv /\ [Next]_vars => WindowInv'
<1> SUFFICES ASSUME IInv, EventInv, WindowInv, [Next]_vars PROVE WindowInv'
  OBVIOUS
<1>0. days \in Nat /\ answer.day \in Nat
  BY DEF EventInv, EventTypes, Answers
<1>1. ASSUME UNCHANGED <<store, days, answer>> PROVE WindowInv'
  BY <1>1 DEF WindowInv, DaysInOrder, WindowsSoFar, Midnights, NotOlder
<1>2. ASSUME NEW b \in there.bridges, RefreshTask(b) PROVE WindowInv'
  <2>1. CASE StartSync(b) \/ SyncStep(b) \/ Crash(b)
    <3>1. UNCHANGED <<store, days, answer>>
      BY <2>1 DEF StartSync, SyncStep, ClearTable, ReadStore, InsertRow, InsertTotal, TableDone, Crash
    <3> QED
      BY <1>1, <3>1
  <2>2. ASSUME NEW rows, NEW failing, IngestEvents(b, rows, failing)
        PROVE  WindowInv'
    <3>1. UNCHANGED <<store, days, answer>>
      BY <2>2 DEF IngestEvents
    <3> QED
      BY <1>1, <3>1
  <2> QED
    BY <1>2, <2>1, <2>2 DEF RefreshTask
<1>3. ASSUME NEW endpoint, Ask(endpoint) PROVE WindowInv'
  <2>1. answer' = [endpoint |-> endpoint, day |-> days, got |-> <<>>, failed |-> {}] /\ days' = days
    BY <1>3 DEF Ask, NoAnswer
  <2>2. answer'.day = days /\ Len(answer'.got) = 0
    BY <2>1
  <2>3. DaysInOrder'
    BY <1>0, <2>1, <2>2 DEF WindowInv, DaysInOrder
  <2>4. WindowsSoFar'
    BY <2>2 DEF WindowsSoFar, WindowsRead
  <2> QED
    BY <2>3, <2>4 DEF WindowInv
<1>4. CASE QueryCache
  <2>1. answer'.endpoint = "usage" /\ answer'.day = answer.day /\ days' = days
    BY <1>4, QueryCacheFacts
  <2> QED
    BY <2>1 DEF WindowInv, DaysInOrder, WindowsSoFar
<1>5. CASE QueryStore
  BY <1>5, QueryStoreKeepsWindows
<1>6. CASE Reply
  <2>1. answer'.endpoint = "none" /\ answer'.day = 0 /\ days' = days
    BY <1>6 DEF Reply, NoAnswer
  <2> QED
    BY <1>0, <2>1 DEF WindowInv, DaysInOrder, WindowsSoFar
<1>7. CASE StoreGrows
  BY <1>7, StoreGrowsKeepsWindows
<1>8. CASE DayPasses
  BY <1>8, DayPassesKeepsWindows
<1>9. CASE UNCHANGED vars
  BY <1>1, <1>9 DEF vars
<1> QED
  BY <1>2, <1>3, <1>4, <1>5, <1>6, <1>7, <1>8, <1>9 DEF Next, Rest

LEMMA InitIsNested == Init => WindowInv
BY BoundsAssumption DEF Init, NoAnswer, WindowInv, DaysInOrder, WindowsSoFar

(* So do, beside it, the invariants of the two endpoints' answers. *)
THEOREM ReadingInvariant == Spec => []ReadInv
<1> QED
  BY InitIsNested, InitIsOrdered, InitIsInvariant, NextPreserves, EventStepPreserves,
     WindowStepPreserves, PTL DEF Spec, ReadInv

(* The windows of an answer on history are nested, whatever sessions come     *)
(* while its five queries are sent, if it met one midnight at most, but for   *)
(* a query that failed.                                                     *)
THEOREM HistoryWindowsNestedCorrect == Spec => []HistoryWindowsNested
<1>1. ReadInv => HistoryWindowsNested
  <2> SUFFICES ASSUME EventInv, WindowInv, Answered("history"), days <= answer.day + 1
               PROVE  HistoryWindowsNested
    BY DEF ReadInv, HistoryWindowsNested
  <2>1. answer.endpoint = "history" /\ Len(answer.got) = 5 /\ DOMAIN answer.got = 1..5
    BY QueriesAre DEF Answered, EventInv, EventTypes, Answers
  <2>2. Midnights <= 1
    <3>1. PICK d, day \in Nat : d = days /\ day = answer.day /\ d <= day + 1
      BY DEF EventInv, EventTypes, Answers
    <3>2. d - day <= 1
      BY <3>1
    <3> QED
      BY <3>1, <3>2 DEF Midnights
  <2>3. /\ "week" \in answer.failed \/ answer.got[2] <= answer.got[3]
        /\ "month" \in answer.failed \/ answer.got[3] <= answer.got[4]
        /\ "months" \in answer.failed \/ answer.got[4] <= answer.got[5]
    BY <2>1, <2>2 DEF WindowInv, WindowsSoFar, WindowsRead
  <2>4. /\ Got("sessions") = answer.got[1] /\ Got("today") = answer.got[2]
        /\ Got("week") = answer.got[3] /\ Got("month") = answer.got[4]
        /\ Got("months") = answer.got[5]
    <3>1. ASSUME NEW i \in 1..5
          PROVE  /\ Queries["history"][i] = "sessions" <=> i = 1
                 /\ Queries["history"][i] = "today" <=> i = 2
                 /\ Queries["history"][i] = "week" <=> i = 3
                 /\ Queries["history"][i] = "month" <=> i = 4
                 /\ Queries["history"][i] = "months" <=> i = 5
      <4>1. i \in {1, 2, 3, 4, 5}
        OBVIOUS
      <4> QED
        BY <4>1, HistoryQueries
    <3>2. /\ (CHOOSE i \in 1..5 : Queries["history"][i] = "sessions") = 1
          /\ (CHOOSE i \in 1..5 : Queries["history"][i] = "today") = 2
          /\ (CHOOSE i \in 1..5 : Queries["history"][i] = "week") = 3
          /\ (CHOOSE i \in 1..5 : Queries["history"][i] = "month") = 4
          /\ (CHOOSE i \in 1..5 : Queries["history"][i] = "months") = 5
      BY <3>1
    <3> QED
      BY <2>1, <3>2 DEF Got
  <2> QED
    BY <2>3, <2>4 DEF HistoryWindowsNested
<1> QED
  BY <1>1, ReadingInvariant, PTL
-------------------------------------------------------------------------------
(* Types and bounds.                                                       *)

(* The bridges that hold a number of files they have not inserted yet. *)
Filling == {b \in Bridges : sync[b].at = "fill" /\ sync[b].table = 2}

(* Rows of session_files_count: as many as bridges can insert after the last  *)
(* time one of them cleared it, and one for each time that failed.           *)
TotalsBounded == Len(totals) + Cardinality(Filling) <= Cardinality(Bridges) + faults

FaultsBounded == faults \in 0..MaxFaults /\ lost <= faults

EventsBounded == \A t \in EventTables : events[t] <= MaxTools

StoreBounded == Len(store) \in 1..MaxStore

AnswerBounded == \A i \in 1..Len(answer.got) : answer.got[i] <= MaxStore + MaxTools

BoundInv == TotalsBounded /\ FaultsBounded /\ EventsBounded /\ StoreBounded /\ AnswerBounded

LEMMA OneLess ==
    ASSUME NEW F, IsFiniteSet(F), NEW b \in F, NEW G \in SUBSET (F \ {b})
    PROVE  Cardinality(G) \in Nat /\ Cardinality(F) \in Nat /\ Cardinality(G) + 1 <= Cardinality(F)
<1>1. IsFiniteSet(F \ {b}) /\ Cardinality(F \ {b}) = Cardinality(F) - 1
  BY FS_RemoveElement
<1>2. IsFiniteSet(G) /\ Cardinality(G) <= Cardinality(F \ {b})
  BY <1>1, FS_Subset
<1>3. Cardinality(G) \in Nat /\ Cardinality(F) \in Nat
  BY <1>2, FS_CardinalityType
<1> QED
  BY <1>1, <1>2, <1>3

LEMMA OneMoreElement ==
    ASSUME NEW F, IsFiniteSet(F), NEW b, NEW G \in SUBSET (F \cup {b})
    PROVE  Cardinality(G) \in Nat /\ Cardinality(F) \in Nat /\ Cardinality(G) <= Cardinality(F) + 1
<1>1. IsFiniteSet(F \cup {b})
      /\ Cardinality(F \cup {b}) = IF b \in F THEN Cardinality(F) ELSE Cardinality(F) + 1
  BY FS_AddElement
<1>2. IsFiniteSet(G) /\ Cardinality(G) <= Cardinality(F \cup {b})
  BY <1>1, FS_Subset
<1>3. Cardinality(G) \in Nat /\ Cardinality(F) \in Nat
  BY <1>2, FS_CardinalityType
<1> QED
  BY <1>1, <1>2, <1>3

LEMMA FillingFinite ==
    /\ Filling \in SUBSET Bridges /\ IsFiniteSet(Filling)
    /\ Cardinality(Filling) \in Nat /\ Cardinality(Bridges) \in Nat
    /\ Cardinality(Filling) <= Cardinality(Bridges)
<1>1. Filling \in SUBSET Bridges
  BY DEF Filling
<1> QED
  BY <1>1, BridgesAssumption, FS_Subset, FS_CardinalityType

(* The ways in which the rows of session_files_count and the bridges about to *)
(* add one change.                                                          *)
LEMMA TotalsKept ==
    ASSUME Types, TotalsBounded, faults \in Nat,
           totals' = totals, Filling' \subseteq Filling, faults' \in {faults, faults + 1}
    PROVE  TotalsBounded'
<1>1. Cardinality(Filling') \in Nat /\ Cardinality(Filling) \in Nat
      /\ Cardinality(Filling') <= Cardinality(Filling) /\ Cardinality(Bridges) \in Nat
  <2>1. PICK G : G = Filling'
    OBVIOUS
  <2>2. IsFiniteSet(G) /\ Cardinality(G) <= Cardinality(Filling)
    BY <2>1, FillingFinite, FS_Subset
  <2> QED
    BY <2>1, <2>2, FillingFinite, FS_CardinalityType
<1>2. Len(totals) \in Nat
  BY DEF Types
<1>3. Len(totals) + Cardinality(Filling') <= Cardinality(Bridges) + faults'
  <2>1. PICK l, c, d, n, f, g \in Nat :
            /\ l = Len(totals) /\ c = Cardinality(Filling) /\ d = Cardinality(Filling')
            /\ n = Cardinality(Bridges) /\ f = faults /\ g = faults'
    BY <1>1, <1>2
  <2>2. l + c <= n + f /\ d <= c /\ f <= g
    BY <1>1, <2>1 DEF TotalsBounded
  <2> QED
    BY <2>1, <2>2
<1> QED
  BY <1>3 DEF TotalsBounded

LEMMA TotalsCleared ==
    ASSUME totals' = <<>>, Filling' \subseteq Bridges, faults' \in Nat
    PROVE  TotalsBounded'
<1>1. PICK G : G = Filling'
  OBVIOUS
<1>2. IsFiniteSet(G) /\ Cardinality(G) <= Cardinality(Bridges)
  BY <1>1, BridgesAssumption, FS_Subset
<1>3. Cardinality(G) \in Nat /\ Cardinality(Bridges) \in Nat
  BY <1>2, BridgesAssumption, FS_CardinalityType
<1>4. Len(totals') = 0
  OBVIOUS
<1>5. 0 + Cardinality(Filling') <= Cardinality(Bridges) + faults'
  BY <1>1, <1>2, <1>3
<1> QED
  BY <1>4, <1>5 DEF TotalsBounded

LEMMA TotalsNotCleared ==
    ASSUME Types, TotalsBounded, faults \in Nat, NEW b,
           totals' = totals, Filling' \subseteq Filling \cup {b}, faults' = faults + 1
    PROVE  TotalsBounded'
<1>1. /\ Cardinality(Filling') \in Nat /\ Cardinality(Filling) \in Nat
      /\ Cardinality(Filling') <= Cardinality(Filling) + 1
  <2>1. PICK F, G : F = Filling /\ G = Filling'
    OBVIOUS
  <2>2. IsFiniteSet(F) /\ G \in SUBSET (F \cup {b})
    BY <2>1, FillingFinite
  <2> QED
    BY <2>1, <2>2, OneMoreElement
<1>2. Len(totals) \in Nat /\ Cardinality(Bridges) \in Nat
  BY FillingFinite DEF Types
<1>3. Len(totals) + Cardinality(Filling') <= Cardinality(Bridges) + faults'
  <2>1. PICK l, c, d, n, f \in Nat :
            /\ l = Len(totals) /\ c = Cardinality(Filling) /\ d = Cardinality(Filling')
            /\ n = Cardinality(Bridges) /\ f = faults
    BY <1>1, <1>2
  <2>2. l + c <= n + f /\ d <= c + 1
    BY <1>1, <2>1 DEF TotalsBounded
  <2>3. l + d <= n + (f + 1)
    BY <2>2
  <2> QED
    BY <2>1, <2>3
<1> QED
  BY <1>3 DEF TotalsBounded

LEMMA TotalsInserted ==
    ASSUME Types, TotalsBounded, faults \in Nat, NEW b \in Filling, NEW k,
           totals' = Append(totals, k), Filling' \subseteq Filling \ {b}, faults' = faults
    PROVE  TotalsBounded'
<1>1. /\ Cardinality(Filling') \in Nat /\ Cardinality(Filling) \in Nat
      /\ Cardinality(Filling') + 1 <= Cardinality(Filling)
  <2>1. PICK F, G : F = Filling /\ G = Filling'
    OBVIOUS
  <2>2. IsFiniteSet(F) /\ b \in F /\ G \in SUBSET (F \ {b})
    BY <2>1, FillingFinite
  <2> QED
    BY <2>1, <2>2, OneLess
<1>2. totals \in Seq(Nat) /\ Len(totals) \in Nat /\ Cardinality(Bridges) \in Nat
  BY FillingFinite DEF Types
<1>3. Len(totals') = Len(totals) + 1
  BY <1>2
<1>4. Len(totals') + Cardinality(Filling') <= Cardinality(Bridges) + faults'
  <2>1. PICK l, c, d, n, f \in Nat :
            /\ l = Len(totals) /\ c = Cardinality(Filling) /\ d = Cardinality(Filling')
            /\ n = Cardinality(Bridges) /\ f = faults
    BY <1>1, <1>2
  <2>2. l + c <= n + f /\ d + 1 <= c
    BY <1>1, <2>1 DEF TotalsBounded
  <2>3. (l + 1) + d <= n + f
    BY <2>2
  <2> QED
    BY <1>3, <2>1, <2>3
<1> QED
  BY <1>4 DEF TotalsBounded

(* Only the bridge that takes a step can join the others, or leave them.      *)
LEMMA FillingMoves ==
    ASSUME NEW b \in Bridges, \A c \in Bridges : c # b => sync'[c] = sync[c]
    PROVE  /\ Filling' \subseteq Filling \cup {b}
           /\ b \notin Filling' => Filling' \subseteq Filling \ {b}
BY DEF Filling

LEMMA ClearTableBounds ==
    ASSUME IInv, TotalsBounded, faults \in Nat, NEW b \in Bridges, ClearTable(b)
    PROVE  TotalsBounded'
<1>1. /\ sync[b] \in Syncs /\ sync[b].at = "clear"
      /\ sync' = [sync EXCEPT ![b].at = IF FirstStep(Table(b)) = "read" THEN "fill" ELSE "read"]
  BY DEF IInv, Types, ClearTable
<1>2. \A c \in Bridges : c # b => sync'[c] = sync[c]
  BY <1>1 DEF IInv, Types
<1>3. sync'[b].table = sync[b].table
  BY <1>1 DEF IInv, Types, Syncs
<1>4. CASE StatementFails(b)
  <2>1. totals' = totals /\ faults' = faults + 1
    BY <1>4 DEF StatementFails, Fault, tables
  <2> QED
    BY <1>2, <2>1, FillingMoves, TotalsNotCleared DEF IInv
<1>5. CASE Table(b) \notin Keyed /\ ~StatementFails(b)
  <2>1. totals' = <<>> /\ faults' = faults
    BY <1>5 DEF ClearTable
  <2>2. Filling' \subseteq Bridges
    BY DEF Filling
  <2> QED
    BY <2>1, <2>2, TotalsCleared
<1>6. CASE Table(b) \in Keyed /\ ~StatementFails(b)
  <2>1. totals' = totals /\ faults' = faults
    BY <1>6 DEF ClearTable
  <2>2. sync[b].table # 2
    BY <1>6, TablesAre DEF Table
  <2>3. b \notin Filling'
    BY <1>3, <2>2 DEF Filling
  <2> QED
    BY <1>2, <2>1, <2>3, FillingMoves, TotalsKept DEF IInv
<1> QED
  BY <1>4, <1>5, <1>6

LEMMA InsertTotalBounds ==
    ASSUME IInv, TotalsBounded, faults \in Nat, NEW b \in Bridges, InsertTotal(b)
    PROVE  TotalsBounded'
<1>1. sync[b] \in Syncs /\ sync[b].at = "fill" /\ Table(b) \notin Keyed /\ Onward(b)
  BY DEF IInv, Types, InsertTotal
<1>2. sync[b].table = 2
  BY <1>1, TablesAre DEF Table, Syncs
<1>3. sync'[b].table = 3 /\ \A c \in Bridges : c # b => sync'[c] = sync[c]
  BY <1>1, <1>2 DEF IInv, Types, Onward, Syncs
<1>4. b \in Filling /\ Filling' \subseteq Filling \ {b}
  <2>1. b \in Filling /\ b \notin Filling'
    BY <1>1, <1>2, <1>3 DEF Filling
  <2> QED
    BY <1>3, <2>1, FillingMoves
<1>5. CASE StatementFails(b)
  <2>1. totals' = totals /\ faults' = faults + 1
    BY <1>5 DEF StatementFails, Fault, tables
  <2> QED
    BY <1>4, <2>1, TotalsKept DEF IInv
<1>6. CASE totals' = Append(totals, Cardinality(sync[b].rows)) /\ UNCHANGED faults
  BY <1>4, <1>6, TotalsInserted DEF IInv
<1> QED
  BY <1>5, <1>6 DEF InsertTotal

(* What is left of a sync adds no bridge to those about to insert. *)
LEMMA OtherStepsBound ==
    ASSUME IInv, TotalsBounded, faults \in Nat, NEW b \in Bridges,
           StartSync(b) \/ ReadStore(b) \/ InsertRow(b) \/ TableDone(b) \/ Crash(b)
    PROVE  TotalsBounded'
<1>1. sync[b] \in Syncs
  BY DEF IInv, Types
<1>2. /\ \A c \in Bridges : c # b => sync'[c] = sync[c]
      /\ totals' = totals /\ faults' \in {faults, faults + 1}
  <2>1. CASE StartSync(b) \/ ReadStore(b)
    BY <2>1 DEF IInv, Types, StartSync, ReadStore, Fault, tables
  <2>2. CASE InsertRow(b)
    BY <2>2 DEF IInv, Types, InsertRow, StatementFails, Fault, tables
  <2>3. CASE TableDone(b) \/ Crash(b)
    BY <2>3 DEF IInv, Types, TableDone, Onward, Crash, Fault, tables
  <2> QED
    BY <2>1, <2>2, <2>3
<1>3. b \notin Filling'
  <2>1. CASE StartSync(b)
    <3>1. sync'[b].at # "fill"
      BY <2>1 DEF IInv, Types, StartSync, FirstStep, Syncing
    <3> QED
      BY <3>1 DEF Filling
  <2>2. CASE ReadStore(b)
    <3>1. PICK rows : sync' = [sync EXCEPT ![b].at = IF FirstStep(Table(b)) = "read" THEN "clear" ELSE "fill",
                                           ![b].rows = rows]
      BY <2>2 DEF ReadStore
    <3>2. /\ sync'[b].table = sync[b].table
          /\ sync'[b].at = IF FirstStep(Table(b)) = "read" THEN "clear" ELSE "fill"
      BY <1>1, <3>1 DEF IInv, Types, Syncs
    <3>3. sync[b].table = 2 => FirstStep(Table(b)) = "read"
      BY TablesAre DEF FirstStep, Table
    <3> QED
      BY <3>2, <3>3 DEF Filling
  <2>3. CASE InsertRow(b)
    <3>1. PICK row : sync' = [sync EXCEPT ![b].rows = @ \ {row}]
      BY <2>3 DEF InsertRow
    <3>2. sync'[b].table = sync[b].table /\ sync[b].table # 2
      BY <1>1, <2>3, <3>1, TablesAre DEF IInv, Types, Syncs, InsertRow, Table
    <3> QED
      BY <3>2 DEF Filling
  <2>4. CASE TableDone(b)
    <3>1. CASE sync[b].table < Len(SyncedTables)
      <4>1. sync'[b].at = FirstStep(SyncedTables[sync[b].table + 1])
        BY <1>1, <2>4, <3>1 DEF IInv, Types, TableDone, Onward, Syncs
      <4> QED
        BY <4>1 DEF Filling, FirstStep
    <3>2. CASE ~(sync[b].table < Len(SyncedTables))
      <4>1. sync'[b].at = "none"
        BY <2>4, <3>2 DEF IInv, Types, TableDone, NotSyncing
      <4> QED
        BY <4>1 DEF Filling
    <3> QED
      BY <3>1, <3>2
  <2>5. CASE Crash(b)
    <3>1. sync'[b].at = "none"
      BY <2>5 DEF IInv, Types, Crash, NotSyncing
    <3> QED
      BY <3>1 DEF Filling
  <2> QED
    BY <2>1, <2>2, <2>3, <2>4, <2>5
<1>4. Filling' \subseteq Filling
  BY <1>2, <1>3, FillingMoves
<1> QED
  BY <1>2, <1>4, TotalsKept DEF IInv

LEMMA TotalsStep ==
    ASSUME IInv, TotalsBounded, faults \in Nat, [Next]_vars
    PROVE  TotalsBounded'
<1>1. ASSUME UNCHANGED <<totals, sync>>, faults' \in {faults, faults + 1} PROVE TotalsBounded'
  <2>1. Filling' = Filling
    BY <1>1 DEF Filling
  <2> QED
    BY <1>1, <2>1, TotalsKept DEF IInv
<1>2. ASSUME NEW b \in there.bridges, RefreshTask(b) PROVE TotalsBounded'
  <2>1. b \in Bridges
    BY <1>2, BridgesThere DEF IInv
  <2>2. CASE StartSync(b) \/ ReadStore(b) \/ InsertRow(b) \/ TableDone(b) \/ Crash(b)
    BY <2>1, <2>2, OtherStepsBound
  <2>3. CASE ClearTable(b)
    BY <2>1, <2>3, ClearTableBounds
  <2>4. CASE InsertTotal(b)
    BY <2>1, <2>4, InsertTotalBounds
  <2>5. ASSUME NEW rows, NEW failing, IngestEvents(b, rows, failing)
        PROVE  TotalsBounded'
    <3>1. UNCHANGED <<totals, sync>> /\ faults' \in {faults, faults + 1}
      BY <2>5 DEF IngestEvents, Fault
    <3> QED
      BY <1>1, <3>1
  <2> QED
    BY <1>2, <2>2, <2>3, <2>4, <2>5 DEF RefreshTask, SyncStep
<1>3. CASE Rest \/ StoreGrows \/ DayPasses \/ UNCHANGED vars
  <2>1. UNCHANGED <<totals, sync>> /\ faults' \in {faults, faults + 1}
    BY <1>3 DEF Rest, Ask, QueryCache, QueryStore, Reply, StoreGrows, DayPasses, Fault, vars, tables
  <2> QED
    BY <1>1, <2>1
<1> QED
  BY <1>2, <1>3 DEF Next

(* Each execution lost is a fault. *)
LEMMA FaultsStep ==
    ASSUME EventInv, FaultsBounded, [Next]_vars
    PROVE  FaultsBounded'
<1>1. faults \in 0..MaxFaults /\ lost \in Nat /\ lost <= faults /\ MaxFaults \in Nat
  BY BoundsAssumption DEF EventInv, EventTypes, FaultsBounded
<1>2. ASSUME lost' = lost, faults' = faults \/ Fault PROVE FaultsBounded'
  <2>1. faults' \in 0..MaxFaults /\ faults <= faults'
    BY <1>1, <1>2 DEF Fault
  <2> QED
    BY <1>1, <1>2, <2>1 DEF FaultsBounded
<1>3. ASSUME NEW b \in there.bridges, RefreshTask(b) PROVE FaultsBounded'
  <2>1. CASE StartSync(b) \/ ClearTable(b) \/ ReadStore(b)
    <3>1. lost' = lost /\ (faults' = faults \/ Fault)
      BY <2>1 DEF StartSync, ClearTable, ReadStore, StatementFails, ghosts
    <3> QED
      BY <1>2, <3>1
  <2>2. CASE InsertRow(b) \/ InsertTotal(b) \/ TableDone(b) \/ Crash(b)
    <3>1. lost' = lost /\ (faults' = faults \/ Fault)
      BY <2>2 DEF InsertRow, InsertTotal, TableDone, Crash, StatementFails, ghosts
    <3> QED
      BY <1>2, <3>1
  <2>3. ASSUME NEW rows, NEW failing, IngestEvents(b, rows, failing)
        PROVE  FaultsBounded'
    <3>1. CASE "tool_executions" \notin failing
      <4>1. lost' = lost /\ (faults' = faults \/ Fault)
        BY <2>3, <3>1 DEF IngestEvents
      <4> QED
        BY <1>2, <4>1
    <3>2. CASE "tool_executions" \in failing
      <4>1. lost' = lost + 1 /\ faults' = faults + 1 /\ faults < MaxFaults
        BY <2>3, <3>2 DEF IngestEvents, Fault
      <4> QED
        BY <1>1, <4>1 DEF FaultsBounded
    <3> QED
      BY <3>1, <3>2
  <2> QED
    BY <1>3, <2>1, <2>2, <2>3 DEF RefreshTask, SyncStep
<1>4. CASE Rest \/ StoreGrows \/ DayPasses \/ UNCHANGED vars
  <2>1. lost' = lost /\ (faults' = faults \/ Fault)
    BY <1>4 DEF Rest, Ask, QueryCache, QueryStore, Reply, StoreGrows, DayPasses, vars, ghosts
  <2> QED
    BY <1>2, <2>1
<1> QED
  BY <1>3, <1>4 DEF Next

LEMMA EventsStep ==
    ASSUME EventInv, EventsBounded, [Next]_vars
    PROVE  EventsBounded'
<1>1. ASSUME UNCHANGED events PROVE EventsBounded'
  BY <1>1 DEF EventsBounded
<1>2. ASSUME NEW b \in there.bridges, RefreshTask(b) PROVE EventsBounded'
  <2>1. CASE StartSync(b) \/ SyncStep(b) \/ Crash(b)
    <3>1. UNCHANGED events
      BY <2>1 DEF StartSync, SyncStep, ClearTable, ReadStore, InsertRow, InsertTotal, TableDone, Crash,
                  StatementFails, tables
    <3> QED
      BY <1>1, <3>1
  <2>2. ASSUME NEW rows, NEW failing, IngestEvents(b, rows, failing)
        PROVE  EventsBounded'
    <3>1. ASSUME NEW t \in EventTables PROVE events'[t] <= MaxTools
      <4>1. PICK n, m \in Nat : n = events[t] /\ m = MaxTools
        BY BoundsAssumption DEF EventInv, EventTypes
      <4>2. n < m /\ events'[t] \in {n, n + 1}
        BY <2>2, <4>1 DEF IngestEvents
      <4>3. n <= m /\ n + 1 <= m
        BY <4>2
      <4> QED
        BY <4>1, <4>2, <4>3
    <3> QED
      BY <3>1 DEF EventsBounded
  <2> QED
    BY <1>2, <2>1, <2>2 DEF RefreshTask
<1>3. CASE Rest \/ StoreGrows \/ DayPasses \/ UNCHANGED vars
  <2>1. UNCHANGED events
    BY <1>3 DEF Rest, Ask, QueryCache, QueryStore, Reply, StoreGrows, DayPasses, vars, tables
  <2> QED
    BY <1>1, <2>1
<1> QED
  BY <1>2, <1>3 DEF Next

LEMMA StoreStep ==
    ASSUME IInv, StoreBounded, [Next]_vars
    PROVE  StoreBounded'
<1>0. store \in Seq(Ages \cup {Undated}) /\ DOMAIN store = 1..Len(store) /\ Len(store) \in Nat
  BY DEF IInv, Types
<1>1. ASSUME UNCHANGED store PROVE StoreBounded'
  BY <1>1 DEF StoreBounded
<1>2. ASSUME NEW b \in there.bridges, RefreshTask(b) PROVE StoreBounded'
  <2>1. UNCHANGED store
    BY <1>2 DEF RefreshTask, StartSync, SyncStep, ClearTable, ReadStore, InsertRow, InsertTotal,
                TableDone, Crash, IngestEvents
  <2> QED
    BY <1>1, <2>1
<1>3. CASE StoreGrows
  <2>1. Len(store') = Len(store) + 1 /\ Len(store) < MaxStore
    BY <1>0, <1>3 DEF StoreGrows
  <2> QED
    BY <1>0, <2>1, BoundsAssumption DEF StoreBounded
<1>4. CASE DayPasses
  <2>1. store' \in [1..Len(store) -> Ages \cup {Undated}]
    BY <1>0, <1>4 DEF DayPasses
  <2>2. Len(store') = Len(store)
    BY <1>0, <2>1
  <2> QED
    BY <2>2 DEF StoreBounded
<1>5. CASE Rest \/ UNCHANGED vars
  <2>1. UNCHANGED store
    BY <1>5 DEF Rest, Ask, QueryCache, QueryStore, Reply, vars
  <2> QED
    BY <1>1, <2>1
<1> QED
  BY <1>2, <1>3, <1>4, <1>5 DEF Next

(* Whatever is read is in bounds when it is read. *)
LEMMA ReadsBounded ==
    ASSUME ReadInv, BoundInv
    PROVE  /\ \A t \in EventTables : events[t] \in Nat /\ events[t] <= MaxStore + MaxTools
           /\ \A q \in ToSet(Queries["history"]) :
                 Stored(q) \in Nat /\ Stored(q) <= MaxStore + MaxTools
           /\ MaxStore + MaxTools \in Nat
<1>1. PICK s, t, n \in Nat : s = MaxStore /\ t = MaxTools /\ n = Len(store) /\ n <= s
  BY BoundsAssumption DEF BoundInv, StoreBounded
<1>2. ASSUME NEW k \in Nat, k <= n \/ k <= t PROVE k <= s + t
  BY <1>1, <1>2
<1>3. ASSUME NEW table \in EventTables
      PROVE  events[table] \in Nat /\ events[table] <= s + t
  <2>1. PICK k \in Nat : k = events[table]
    BY DEF ReadInv, EventInv, EventTypes
  <2>2. k <= t
    BY <1>1, <2>1 DEF BoundInv, EventsBounded
  <2> QED
    BY <1>2, <2>1, <2>2
<1>4. ASSUME NEW q \in ToSet(Queries["history"])
      PROVE  Stored(q) \in Nat /\ Stored(q) <= s + t
  <2>1. \A a : NotOlder(a) \in Nat /\ NotOlder(a) <= n
    <3>1. DOMAIN store = 1..Len(store) /\ Len(store) \in Nat
      BY DEF ReadInv, IInv, Types
    <3>2. ASSUME NEW a PROVE NotOlder(a) \in Nat /\ NotOlder(a) <= n
      <4>1. PICK S : S = {i \in DOMAIN store : store[i] <= a} /\ S \in SUBSET (1..n)
        BY <1>1, <3>1
      <4>2. 1..n \in SUBSET (1..n)
        OBVIOUS
      <4> QED
        BY <4>1, <4>2, CountsWithin DEF NotOlder
    <3> QED
      BY <3>2
  <2>2. PICK k \in Nat : k = Stored(q) /\ k <= n
    BY <1>1, <2>1, QueriesAre DEF Stored
  <2> QED
    BY <1>2, <2>2
<1>5. s + t \in Nat
  OBVIOUS
<1> QED
  BY <1>1, <1>3, <1>4, <1>5

LEMMA OneMoreBounded ==
    ASSUME NEW got, NEW longer, NEW n \in Nat, NEW v, NEW bound,
           OneRead(got, longer, n, v), v <= bound, \A i \in 1..Len(got) : got[i] <= bound
    PROVE  \A i \in 1..Len(longer) : longer[i] <= bound
<1>1. TAKE i \in 1..Len(longer)
<1>2. i \in 1..n \/ i = n + 1
  BY DEF OneRead
<1> QED
  BY <1>2 DEF OneRead

LEMMA AnswerStep ==
    ASSUME ReadInv, BoundInv, [Next]_vars
    PROVE  AnswerBounded'
<1>1. ASSUME UNCHANGED answer PROVE AnswerBounded'
  BY <1>1 DEF BoundInv, AnswerBounded
<1>2. ASSUME answer'.got = <<>> PROVE AnswerBounded'
  <2>1. Len(answer'.got) = 0
    BY <1>2
  <2> QED
    BY <2>1 DEF AnswerBounded
<1>3. ASSUME NEW n \in Nat, NEW v, v <= MaxStore + MaxTools,
             OneRead(answer.got, answer'.got, n, v)
      PROVE  AnswerBounded'
  <2>1. PICK got, longer, bound : /\ got = answer.got /\ longer = answer'.got
                                 /\ bound = MaxStore + MaxTools
    OBVIOUS
  <2>2. \A i \in 1..Len(got) : got[i] <= bound
    BY <2>1 DEF BoundInv, AnswerBounded
  <2>3. OneRead(got, longer, n, v) /\ v <= bound
    BY <1>3, <2>1
  <2>4. \A i \in 1..Len(longer) : longer[i] <= bound
    BY <2>2, <2>3, OneMoreBounded
  <2> QED
    BY <2>1, <2>4 DEF AnswerBounded
<1>4. ASSUME NEW b \in there.bridges, RefreshTask(b) PROVE AnswerBounded'
  <2>1. UNCHANGED answer
    BY <1>4 DEF RefreshTask, StartSync, SyncStep, ClearTable, ReadStore, InsertRow, InsertTotal,
                TableDone, Crash, IngestEvents
  <2> QED
    BY <1>1, <2>1
<1>5. CASE QueryCache
  <2>1. CASE Len(answer'.got) = 2 /\ answer'.got[1] = 0 /\ answer'.got[2] = 0
    <3>1. 0 <= MaxStore + MaxTools
      BY ReadsBounded
    <3>2. \A i \in 1..Len(answer'.got) : answer'.got[i] = 0
      BY <2>1
    <3> QED
      BY <3>1, <3>2 DEF AnswerBounded
  <2>2. ASSUME NEW n \in 0..1, NEW read \in Nat,
               OneRead(answer.got, answer'.got, n, read),
               n = 0 => read <= events["model_usage"],
               n = 1 => read <= events["tool_executions"]
        PROVE  AnswerBounded'
    <3>1. PICK m, t, bound \in Nat :
              /\ m = events["model_usage"] /\ t = events["tool_executions"]
              /\ bound = MaxStore + MaxTools /\ m <= bound /\ t <= bound
      BY ReadsBounded DEF EventTables
    <3>2. read <= bound
      BY <2>2, <3>1
    <3> QED
      BY <1>3, <2>2, <3>1, <3>2
  <2> QED
    BY <1>5, <2>1, <2>2, QueryCacheFacts DEF ReadInv
<1>6. CASE QueryStore
  <2>1. CASE answer' = NoAnswer
    BY <1>2, <2>1 DEF NoAnswer
  <2>2. ASSUME answer' # NoAnswer PROVE AnswerBounded'
    <3>1. PICK n \in 0..4, v \in Nat :
              /\ n = Len(answer.got) /\ Len(answer'.got) = n + 1
              /\ answer'.got[n + 1] = v
              /\ \A i \in 1..n : answer'.got[i] = answer.got[i] /\ answer.got[i] \in Nat
              /\ v = Stored(Queries["history"][n + 1]) \/ v = 0
      BY <1>6, <2>2, QueryStoreFacts DEF ReadInv
    <3>2. PICK q \in ToSet(Queries["history"]) : q = Queries["history"][n + 1]
      <4>1. n + 1 \in 1..5
        OBVIOUS
      <4> QED
        BY <4>1, QueriesAre
    <3>3. v <= MaxStore + MaxTools
      <4>1. PICK bound \in Nat : bound = MaxStore + MaxTools
        BY ReadsBounded
      <4>2. v = 0 \/ v <= bound
        BY <3>1, <3>2, <4>1, ReadsBounded
      <4>3. v <= bound
        BY <4>2
      <4> QED
        BY <4>1, <4>3
    <3>4. OneRead(answer.got, answer'.got, n, v) /\ n \in Nat
      BY <3>1 DEF OneRead
    <3> QED
      BY <1>3, <3>3, <3>4
  <2> QED
    BY <2>1, <2>2
<1>7. ASSUME (\E endpoint \in there.endpoints : Ask(endpoint)) \/ Reply PROVE AnswerBounded'
  <2>1. ASSUME NEW endpoint, Ask(endpoint) PROVE answer'.got = <<>>
    BY <2>1 DEF Ask, NoAnswer
  <2>2. ASSUME Reply PROVE answer'.got = <<>>
    BY <2>2 DEF Reply, NoAnswer
  <2> QED
    BY <1>2, <1>7, <2>1, <2>2
<1>8. CASE StoreGrows \/ DayPasses \/ UNCHANGED vars
  <2>1. UNCHANGED answer
    BY <1>8 DEF StoreGrows, DayPasses, vars
  <2> QED
    BY <1>1, <2>1
<1> QED
  BY <1>4, <1>5, <1>6, <1>7, <1>8 DEF Next, Rest

LEMMA InitIsBounded == Init => BoundInv
<1> SUFFICES ASSUME Init PROVE BoundInv
  OBVIOUS
<1>1. PICK age \in Ages \cup {Undated} : store = <<age>>
  BY DEF Init, Ages, Today, LongAgo
<1>2. StoreBounded
  BY <1>1, BoundsAssumption DEF StoreBounded
<1>3. Filling = {} /\ totals = <<>> /\ faults = 0
  BY DEF Init, Filling, NotSyncing
<1>4. TotalsBounded
  <2>1. Len(totals) = 0 /\ Cardinality(Filling) = 0 /\ Cardinality(Bridges) \in Nat
    BY <1>3, FillingFinite, FS_EmptySet
  <2> QED
    BY <1>3, <2>1 DEF TotalsBounded
<1>5. FaultsBounded
  BY BoundsAssumption DEF Init, FaultsBounded
<1>6. EventsBounded
  BY BoundsAssumption DEF Init, EventsBounded, EventTables
<1>7. AnswerBounded
  BY DEF Init, NoAnswer, AnswerBounded
<1> QED
  BY <1>2, <1>4, <1>5, <1>6, <1>7 DEF BoundInv

LEMMA BoundStepPreserves == ReadInv /\ BoundInv /\ [Next]_vars => BoundInv'
<1> SUFFICES ASSUME ReadInv, BoundInv, [Next]_vars PROVE BoundInv'
  OBVIOUS
<1>1. faults \in Nat
  BY DEF BoundInv, FaultsBounded
<1>2. TotalsBounded' /\ StoreBounded'
  BY <1>1, TotalsStep, StoreStep DEF ReadInv, BoundInv
<1>3. FaultsBounded' /\ EventsBounded'
  BY FaultsStep, EventsStep DEF ReadInv, BoundInv
<1> QED
  BY <1>2, <1>3, AnswerStep DEF BoundInv

(* Everything has its type and keeps its bound: the cache holds only rows of   *)
(* the store, its table with no key at most one for each bridge and each      *)
(* fault, and no answer a number that no table or window ever had.           *)
THEOREM TypeCorrect == Spec => []TypeOK
<1>1. ReadInv /\ BoundInv => TypeOK
  <2> SUFFICES ASSUME ReadInv, BoundInv PROVE TypeOK
    OBVIOUS
  <2>1. PICK s, n \in Nat : s = MaxStore /\ n = Len(store) /\ n \in 1..s
    <3>1. Len(store) \in 1..MaxStore
      BY DEF BoundInv, StoreBounded
    <3>2. MaxStore \in Nat
      BY BoundsAssumption
    <3> QED
      BY <3>1, <3>2
  <2>2. 1..n \subseteq Rows
    BY <2>1 DEF Rows
  <2>3. there \in Deployments /\ store \in UNION {[1..m -> Ages \cup {Undated}] : m \in 1..MaxStore}
    <3>1. there \in Deployments /\ store \in Seq(Ages \cup {Undated})
      BY DEF ReadInv, IInv, Types
    <3>2. store \in [1..n -> Ages \cup {Undated}] /\ n \in 1..MaxStore
      BY <2>1, <3>1
    <3> QED
      BY <3>1, <3>2
  <2>4. kept \in [Keyed -> SUBSET Rows]
    BY <2>1, <2>2 DEF ReadInv, IInv, Types, OfTheStore
  <2>5. totals \in Seq(0..MaxStore) /\ Len(totals) \in Nat
    <3>1. totals \in Seq(Nat)
      BY DEF ReadInv, IInv, Types
    <3>2. ASSUME NEW i \in 1..Len(totals) PROVE totals[i] \in 0..s
      <4>1. PICK k \in Nat : k = totals[i]
        BY <3>1
      <4>2. k <= n
        BY <2>1, <4>1 DEF ReadInv, IInv, OfTheStore
      <4> QED
        BY <2>1, <4>1, <4>2
    <3> QED
      BY <2>1, <3>1, <3>2
  <2>6. Len(totals) <= Cardinality(Bridges) + MaxFaults
    <3>1. PICK l, c, b, f, m \in Nat :
              /\ l = Len(totals) /\ c = Cardinality(Filling) /\ b = Cardinality(Bridges)
              /\ f = faults /\ m = MaxFaults
      <4>1. Len(totals) \in Nat /\ faults \in Nat /\ MaxFaults \in Nat
        BY <2>5, BoundsAssumption DEF BoundInv, FaultsBounded
      <4> QED
        BY <4>1, FillingFinite
    <3>2. l + c <= b + f /\ f <= m
      BY <3>1 DEF BoundInv, TotalsBounded, FaultsBounded
    <3>3. l <= b + m
      BY <3>2
    <3> QED
      BY <3>1, <3>3
  <2>7. events \in [EventTables -> 0..MaxTools]
    <3>1. events \in [EventTables -> Nat] /\ MaxTools \in Nat
      BY BoundsAssumption DEF ReadInv, EventInv, EventTypes
    <3>2. \A table \in EventTables : events[table] <= MaxTools
      BY DEF BoundInv, EventsBounded
    <3> QED
      BY <3>1, <3>2
  <2>8. sync \in [Bridges -> [at : {"none", "clear", "read", "fill"}, table : DOMAIN SyncedTables,
                             rows : SUBSET Rows, began : 0..MaxStore]]
    <3>1. ASSUME NEW b \in Bridges
          PROVE  sync[b] \in [at : {"none", "clear", "read", "fill"}, table : DOMAIN SyncedTables,
                              rows : SUBSET Rows, began : 0..MaxStore]
      <4>1. sync[b] \in Syncs /\ sync[b].rows \subseteq 1..n /\ sync[b].began <= n
        BY <2>1 DEF ReadInv, IInv, Types, OfTheStore
      <4>2. sync[b].rows \in SUBSET Rows
        BY <2>2, <4>1
      <4>3. sync[b].began \in 0..MaxStore
        BY <2>1, <4>1 DEF Syncs
      <4> QED
        BY <4>1, <4>2, <4>3, TablesAre DEF Syncs
    <3> QED
      BY <3>1 DEF ReadInv, IInv, Types
  <2>9. /\ days \in 0..MaxDays /\ answer.day \in 0..days
        /\ answer.endpoint \in {"none", "usage", "history"}
    BY DEF ReadInv, WindowInv, DaysInOrder, EventInv, EventTypes, Answers
  <2>10. answer.got \in Seq(0..(MaxStore + MaxTools))
    <3>1. PICK bound \in Nat : bound = MaxStore + MaxTools
      BY ReadsBounded
    <3>2. answer.got \in Seq(Nat)
      BY DEF ReadInv, EventInv, EventTypes, Answers
    <3>3. \A i \in 1..Len(answer.got) : answer.got[i] \in 0..bound
      BY <3>1, <3>2 DEF BoundInv, AnswerBounded
    <3> QED
      BY <3>1, <3>2, <3>3
  <2>11. faults \in 0..MaxFaults /\ lost \in 0..MaxFaults
    <3>1. faults \in 0..MaxFaults /\ lost \in Nat /\ lost <= faults
      BY DEF ReadInv, EventInv, EventTypes, BoundInv, FaultsBounded
    <3>2. MaxFaults \in Nat
      BY BoundsAssumption
    <3> QED
      BY <3>1, <3>2
  <2>12. alone \in [Bridges -> BOOLEAN] /\ fresh \in 0..MaxStore
    <3>1. fresh \in Nat /\ fresh <= n /\ alone \in [Bridges -> BOOLEAN]
      BY <2>1 DEF ReadInv, IInv, Types, OfTheStore
    <3>2. fresh <= s
      BY <2>1, <3>1
    <3> QED
      BY <2>1, <3>1, <3>2
  <2> QED
    BY <2>3, <2>4, <2>5, <2>6, <2>7, <2>8, <2>9, <2>10, <2>11, <2>12 DEF TypeOK
<1> QED
  BY <1>1, ReadingInvariant, InitIsBounded, BoundStepPreserves, PTL DEF Spec
===============================================================================
