--------------------------- MODULE EventIngestProofs ---------------------------
(***************************************************************************)
(* What EventIngest loses and repeats, proved for any number of bridges,   *)
(* files, events, crashes and failing statements.                          *)
(*                                                                         *)
(* Each action is first shown to be one of a few abstract steps (Steps,    *)
(* Appends) that say what they change and no more.  The inductive          *)
(* invariant is in three layers, each kept by every abstract step, given   *)
(* the layers before it:                                                   *)
(*   Outgrown   types, one writer; no offset is past its file's end, and   *)
(*              one inside a character is that of a line noted in grew     *)
(*   AllPassed  every line before an offset is counted, cut or lost, or    *)
(*              about to be committed with the offset                      *)
(*   Once       what is counted lies before the offset, what is about to   *)
(*              be counted was not, but for a race or a forgotten offset    *)
(***************************************************************************)
EXTENDS EventIngest, FiniteSetTheorems, WellFoundedInduction, TLAPS

(* The bridge whose refresh moves is the only one whose locals change. *)
OnlyMoves(b) ==
    \A x \in Bridges \ {b} : refresh'[x] = refresh[x] /\ tx'[x] = tx[x]

RefreshType ==
    [at : Places, todo : SUBSET Files, f : Files \cup {"none"},
     size : 0..(2 * MaxEvents), from : 0..(2 * MaxEvents), rest : SUBSET Lines]

TxType == [lines : SUBSET (Files \X Lines), moves : SUBSET (Files \X (0..(2 * MaxEvents)))]

(* A refresh past its stat has a file in hand. *)
Busy(b) == refresh[b].at \in {"lookup", "read", "count", "panicked"}

FilesKnown == \A b \in Bridges : Busy(b) => refresh[b].f \in Files
-------------------------------------------------------------------------------
LEMMA LeastNatural ==
    ASSUME NEW S \in SUBSET Nat, S # {}
    PROVE  \E m \in S : \A n \in S : m <= n
<1>1. PICK m \in S : \A n \in S : <<n, m>> \notin OpToRel(<, Nat)
  BY NatLessThanWellFounded, WFMin
<1>2. \A n \in S : ~(n < m)
  BY <1>1 DEF OpToRel
<1> QED BY <1>2, SMT

(* The least and the largest of some lines or offsets. *)
LEMMA MinFacts ==
    ASSUME NEW S \in SUBSET Nat, S # {}
    PROVE  Min(S) \in S /\ \A x \in S : Min(S) <= x
<1>1. \E m \in S : \A n \in S : m <= n
  BY LeastNatural
<1> QED BY <1>1 DEF Min

LEMMA MaxFacts ==
    ASSUME NEW bound \in Nat, NEW S \in SUBSET (0..bound), S # {}
    PROVE  Max(S) \in S /\ \A x \in S : x <= Max(S)
<1> DEFINE Below == {bound - x : x \in S}
<1>1. Below \in SUBSET Nat /\ Below # {}
  <2>1. \A x \in S : bound - x \in Nat
    OBVIOUS
  <2>2. Below \subseteq Nat
    BY <2>1
  <2>3. PICK x \in S : TRUE
    OBVIOUS
  <2>4. bound - x \in Below
    BY <2>3
  <2> QED BY <2>2, <2>4
<1>2. PICK m \in Below : \A n \in Below : m <= n
  <2> HIDE DEF Below
  <2> QED BY <1>1, LeastNatural
<1>3. PICK y \in S : m = bound - y
  BY <1>2
<1>4. \A x \in S : bound - y <= bound - x
  BY <1>2, <1>3
<1>5. \A x \in S : y >= x
  BY <1>4
<1> QED BY <1>5 DEF Max
-------------------------------------------------------------------------------
(* What each step of a refresh does, variable by variable.                  *)

LEMMA SleepingTyped == Sleeping \in RefreshType /\ NoChanges \in TxType
  BY BoundsAssumption DEF Sleeping, RefreshType, Places, NoChanges, TxType

(* One record of refresh is replaced. *)
LEMMA RefreshMoves ==
    ASSUME TypeOK, NEW b \in Bridges, NEW r \in RefreshType, refresh' = [refresh EXCEPT ![b] = r]
    PROVE  /\ refresh' \in [Bridges -> RefreshType] /\ refresh'[b] = r
           /\ \A x \in Bridges \ {b} : refresh'[x] = refresh[x]
<1>1. refresh \in [Bridges -> RefreshType]
  BY DEF TypeOK, RefreshType
<1> QED BY <1>1

(* The lines of a file. *)
LEMMA DomainFacts ==
    ASSUME TypeOK, NEW f \in Files
    PROVE  /\ DOMAIN file[f].events = 1..Len(file[f].events) /\ DOMAIN file[f].events \subseteq Lines
           /\ Len(file[f].events) \in Nat /\ file[f].size \in Nat
           /\ file[f].size \in {2 * Len(file[f].events), 2 * Len(file[f].events) - 1}
           /\ Len(file[f].events) <= MaxEvents
           /\ file[f].events \in Seq(Kinds)
<1> DEFINE e == file[f].events
<1>1. /\ e \in Seq(Kinds) /\ Len(e) <= MaxEvents /\ file[f].size \in 0..(2 * MaxEvents)
      /\ file[f].size \in {2 * Len(e), 2 * Len(e) - 1}
  BY DEF TypeOK
<1> HIDE DEF e
<1>2. DOMAIN e = 1..Len(e) /\ Len(e) \in Nat
  BY <1>1
<1>3. 1..Len(e) \subseteq Lines
  BY <1>1, <1>2, BoundsAssumption DEF Lines
<1> QED BY <1>1, <1>2, <1>3 DEF e

LEMMA ListFilesFacts ==
    ASSUME TypeOK, NEW b \in Bridges, ListFiles(b)
    PROVE  /\ OnlyMoves(b) /\ tx' = tx /\ refresh' \in [Bridges -> RefreshType]
           /\ refresh'[b].at = "stat"
<1> DEFINE r == [refresh[b] EXCEPT !.at = "stat", !.todo = {f \in Files : file[f].events # <<>>}]
<1>1. refresh \in [Bridges -> RefreshType]
  BY DEF TypeOK, RefreshType
<1>2. r \in RefreshType /\ r.at = "stat"
  BY <1>1 DEF RefreshType, Places
<1>3. refresh' = [refresh EXCEPT ![b] = r]
  BY <1>1 DEF ListFiles
<1> HIDE DEF r
<1> QED BY <1>2, <1>3, RefreshMoves DEF OnlyMoves, ListFiles

LEMMA StatFacts ==
    ASSUME TypeOK, NEW b \in Bridges, NEW f \in Files, Stat(b, f)
    PROVE  /\ OnlyMoves(b) /\ tx' = tx /\ refresh' \in [Bridges -> RefreshType]
           /\ refresh[b].at = "stat" /\ refresh'[b].at = "lookup"
           /\ refresh'[b].f = f /\ refresh'[b].size = file[f].size
<1> DEFINE r == [refresh[b] EXCEPT !.at = "lookup", !.f = f, !.size = file[f].size,
                                   !.todo = @ \ {f}]
<1>1. refresh \in [Bridges -> RefreshType] /\ file[f].size \in 0..(2 * MaxEvents)
  BY DEF TypeOK, RefreshType
<1>2. r \in RefreshType /\ r.at = "lookup" /\ r.f = f /\ r.size = file[f].size
  BY <1>1 DEF RefreshType, Places
<1>3. refresh' = [refresh EXCEPT ![b] = r]
  BY <1>1 DEF Stat
<1> HIDE DEF r
<1> QED BY <1>2, <1>3, RefreshMoves DEF OnlyMoves, Stat, At

LEMMA NextFileFacts ==
    ASSUME TypeOK, NEW b \in Bridges, NextFile(b)
    PROVE  /\ \A x \in Bridges \ {b} : refresh'[x] = refresh[x]
           /\ refresh' \in [Bridges -> RefreshType]
           /\ refresh'[b].at = "stat"
<1>1. [Sleeping EXCEPT !.at = "stat", !.todo = refresh[b].todo] \in RefreshType
  BY SleepingTyped DEF RefreshType, TypeOK, Places, Sleeping
<1> QED BY <1>1 DEF NextFile, TypeOK, RefreshType, Sleeping

LEMMA ResumeFacts ==
    ASSUME TypeOK, NEW b \in Bridges, refresh[b].f \in Files, refresh[b].at = "lookup", tx' = tx,
           NEW from \in 0..(2 * MaxEvents), ResumeFrom(b, from)
    PROVE  /\ OnlyMoves(b) /\ refresh' \in [Bridges -> RefreshType]
           /\ raced' \in [Files -> BOOLEAN]
           /\ \/ refresh'[b].at = "stat" /\ raced' = raced
              \/ /\ refresh'[b].at = "read" /\ refresh'[b].f = refresh[b].f
                 /\ refresh'[b].size = refresh[b].size /\ refresh'[b].from = from
                 /\ from < refresh[b].size
                 /\ \A f \in Files : raced'[f] =
                       (raced[f] \/ (f = refresh[b].f
                                        /\ \E other \in Bridges \ {b} : InHand(other, f)))
<1>1. refresh \in [Bridges -> RefreshType] /\ raced \in [Files -> BOOLEAN]
  BY DEF TypeOK, RefreshType
<1>2. from \in Nat /\ refresh[b].size \in Nat
  BY <1>1, BoundsAssumption DEF RefreshType
<1>3. CASE from >= refresh[b].size
  BY <1>1, <1>3, NextFileFacts DEF ResumeFrom, OnlyMoves
<1>4. CASE ~(from >= refresh[b].size)
  <2> DEFINE r == [refresh[b] EXCEPT !.at = "read", !.from = from]
             held == \E other \in Bridges \ {b} : InHand(other, refresh[b].f)
  <2>1. /\ r \in RefreshType /\ r.at = "read" /\ r.f = refresh[b].f
        /\ r.size = refresh[b].size /\ r.from = from
    BY <1>1 DEF RefreshType, Places
  <2>2. refresh' = [refresh EXCEPT ![b] = r]
    BY <1>1, <1>4 DEF ResumeFrom
  <2>3. raced' = [raced EXCEPT ![refresh[b].f] = @ \/ held]
    BY <1>4 DEF ResumeFrom
  <2> HIDE DEF r
  <2>4. /\ refresh' \in [Bridges -> RefreshType] /\ refresh'[b] = r
        /\ \A x \in Bridges \ {b} : refresh'[x] = refresh[x]
    BY <2>1, <2>2, RefreshMoves
  <2>5. /\ raced' \in [Files -> BOOLEAN]
        /\ \A f \in Files : raced'[f] = (raced[f] \/ (f = refresh[b].f /\ held))
    <3> HIDE DEF held
    <3>1. held \in BOOLEAN
      BY DEF held
    <3>2. (raced[refresh[b].f] \/ held) \in BOOLEAN
      OBVIOUS
    <3> QED BY <1>1, <2>3, <3>2
  <2>6. from < refresh[b].size
    BY <1>2, <1>4
  <2> QED BY <2>1, <2>4, <2>5, <2>6 DEF OnlyMoves
<1> QED BY <1>3, <1>4

LEMMA ReadFileFacts ==
    ASSUME TypeOK, FilesKnown, NEW b \in Bridges, ReadFile(b)
    PROVE  /\ OnlyMoves(b) /\ tx' = tx /\ refresh' \in [Bridges -> RefreshType]
           /\ refresh[b].at = "read"
           /\ \/ refresh'[b].at = "stat"
              \/ /\ refresh'[b].at \in {"panicked", "count"} /\ refresh'[b].f = refresh[b].f
                 /\ refresh'[b].size = refresh[b].size /\ refresh'[b].from = refresh[b].from
                 /\ ~SplitsChar(refresh[b].f, file[refresh[b].f].size)
                 /\ refresh[b].from < file[refresh[b].f].size
                 /\ refresh'[b].at = "panicked" <=> SplitsChar(refresh[b].f, refresh[b].from)
                 /\ refresh'[b].at = "count" =>
                       refresh'[b].rest = ParsedLines(refresh[b].f, refresh[b].from)
<1> DEFINE f == refresh[b].f
           from == refresh[b].from
           bad == SplitsChar(f, file[f].size) \/ from >= file[f].size
           r1 == [refresh[b] EXCEPT !.at = "panicked"]
           r2 == [refresh[b] EXCEPT !.at = "count", !.rest = ParsedLines(f, from)]
<1>1. refresh \in [Bridges -> RefreshType] /\ f \in Files /\ At(b, "read")
  BY DEF TypeOK, RefreshType, ReadFile, FilesKnown, Busy, At
<1>2. ParsedLines(f, from) \subseteq Lines
  BY <1>1, DomainFacts DEF ParsedLines
<1>3. from \in 0..(2 * MaxEvents) /\ file[f].size \in 0..(2 * MaxEvents)
  BY <1>1 DEF TypeOK, RefreshType
<1>4. ~NextFile(b) => /\ ~bad
                      /\ refresh' = IF SplitsChar(f, from) THEN [refresh EXCEPT ![b].at = "panicked"]
                                    ELSE [refresh EXCEPT ![b].at = "count",
                                                         ![b].rest = ParsedLines(f, from)]
  BY DEF ReadFile
<1>5. CASE NextFile(b)
  BY <1>1, <1>5, NextFileFacts DEF ReadFile, OnlyMoves, At
<1>6. CASE ~NextFile(b) /\ SplitsChar(f, from)
  <2>1. r1 \in RefreshType /\ r1.at = "panicked" /\ r1.f = f /\ r1.size = refresh[b].size /\ r1.from = from
    BY <1>1 DEF RefreshType, Places
  <2>2. refresh' = [refresh EXCEPT ![b] = r1]
    BY <1>1, <1>6, <1>4 DEF ReadFile
  <2> HIDE DEF r1
  <2> QED BY <1>1, <1>3, <1>6, <1>4, <2>1, <2>2, RefreshMoves DEF ReadFile, OnlyMoves, At
<1>7. CASE ~NextFile(b) /\ ~SplitsChar(f, from)
  <2>1. /\ r2 \in RefreshType /\ r2.at = "count" /\ r2.f = f /\ r2.size = refresh[b].size
        /\ r2.from = from /\ r2.rest = ParsedLines(f, from)
    BY <1>1, <1>2 DEF RefreshType, Places
  <2>2. refresh' = [refresh EXCEPT ![b] = r2]
    BY <1>1, <1>7, <1>4 DEF ReadFile
  <2> HIDE DEF r2
  <2> QED BY <1>1, <1>3, <1>7, <1>4, <2>1, <2>2, RefreshMoves DEF ReadFile, OnlyMoves, At
<1> QED BY <1>5, <1>6, <1>7

LEMMA CountLineFacts ==
    ASSUME TypeOK, FilesKnown, NEW b \in Bridges, CountLine(b)
    PROVE  \E i \in refresh[b].rest :
           /\ i \in Lines /\ refresh[b].f \in Files
           /\ refresh' \in [Bridges -> RefreshType]
           /\ \A x \in Bridges \ {b} : refresh'[x] = refresh[x]
           /\ At(b, "count") /\ At(b, "count")'
           /\ refresh'[b].f = refresh[b].f /\ refresh'[b].size = refresh[b].size
           /\ refresh'[b].from = refresh[b].from /\ refresh'[b].rest = refresh[b].rest \ {i}
           /\ \/ /\ ~Locked(b) /\ tx' \in [Bridges -> TxType] /\ lost' = lost
                 /\ \A x \in Bridges \ {b} : tx'[x] = tx[x]
                 /\ tx'[b].lines = tx[b].lines \cup {<<refresh[b].f, i>>}
                 /\ tx'[b].moves = tx[b].moves
              \/ /\ tx' = tx /\ lost' = [lost EXCEPT ![refresh[b].f] = @ \cup {i}]
<1> DEFINE f == refresh[b].f
<1>1. refresh \in [Bridges -> RefreshType] /\ tx \in [Bridges -> TxType]
  BY DEF TypeOK, RefreshType, TxType
<1>2. f \in Files /\ At(b, "count") /\ refresh[b].rest # {} /\ refresh[b].rest \subseteq Lines
  BY <1>1 DEF CountLine, FilesKnown, Busy, At, RefreshType
<1>3. PICK i \in refresh[b].rest : i = Min(refresh[b].rest)
  BY <1>2, MinFacts DEF Lines
<1> DEFINE r == [refresh[b] EXCEPT !.rest = @ \ {i}]
           t == [tx[b] EXCEPT !.lines = @ \cup {<<f, i>>}]
<1>4. refresh' = [refresh EXCEPT ![b] = r]
  BY <1>1, <1>3 DEF CountLine
<1>5. \/ ~Locked(b) /\ tx' = [tx EXCEPT ![b] = t] /\ lost' = lost
      \/ tx' = tx /\ lost' = [lost EXCEPT ![f] = @ \cup {i}]
  BY <1>1, <1>3 DEF CountLine
<1> HIDE DEF f
<1>6. /\ r \in RefreshType /\ r.at = refresh[b].at /\ r.f = refresh[b].f /\ r.size = refresh[b].size
      /\ r.from = refresh[b].from /\ r.rest = refresh[b].rest \ {i}
  BY <1>1 DEF RefreshType
<1>7. t \in TxType /\ t.lines = tx[b].lines \cup {<<f, i>>} /\ t.moves = tx[b].moves
  BY <1>1, <1>2, <1>3 DEF TxType
<1> HIDE DEF r, t
<1>8. /\ refresh' \in [Bridges -> RefreshType] /\ refresh'[b] = r
      /\ \A x \in Bridges \ {b} : refresh'[x] = refresh[x]
  BY <1>4, <1>6, RefreshMoves
<1>9. ASSUME tx' = [tx EXCEPT ![b] = t]
      PROVE  /\ tx' \in [Bridges -> TxType] /\ tx'[b] = t
             /\ \A x \in Bridges \ {b} : tx'[x] = tx[x]
  BY <1>1, <1>7, <1>9
<1> WITNESS i \in refresh[b].rest
<1> QED BY <1>2, <1>3, <1>5, <1>6, <1>7, <1>8, <1>9 DEF At, f

(* A commit, with the offsets of its transaction. *)
Moving(b) == tx[b].moves \cup {<<refresh[b].f, refresh[b].size>>}

(* The offsets that a COMMIT finds in the transaction. *)
Transactions(b) ==
    {moves \in {Moving(b), tx[b].moves} : moves = Moving(b) \/ forgot'[refresh[b].f]}

Remembers == \A f \in Files : forgot[f] => forgot'[f]

LEMMA CommitFacts ==
    ASSUME TypeOK, FilesKnown, NEW b \in Bridges, Commit(b)
    PROVE  /\ At(b, "count") /\ refresh[b].rest = {} /\ refresh[b].f \in Files
           /\ refresh' \in [Bridges -> RefreshType] /\ refresh'[b].at = "stat"
           /\ \A x \in Bridges \ {b} : refresh'[x] = refresh[x] /\ tx'[x] = tx[x]
           /\ tx' \in [Bridges -> TxType]
           /\ Remembers /\ forgot' \in [Files -> BOOLEAN]
           /\ \E moves \in Transactions(b) :
                 \/ ~Locked(b) /\ CommitSucceeds(b, moves) /\ tx'[b] = NoChanges
                 \/ ~Locked(b) /\ tx'[b] = NoChanges /\ UNCHANGED <<offsets, counted, cut>>
                 \/ /\ ~Locked(b) /\ tx'[b].lines = tx[b].lines /\ tx'[b].moves = moves
                    /\ UNCHANGED <<offsets, counted, cut>>
                 \/ Locked(b) /\ UNCHANGED <<tx, offsets, counted, cut>>
<1>1. refresh \in [Bridges -> RefreshType] /\ tx \in [Bridges -> TxType]
  BY DEF TypeOK, RefreshType, TxType
<1>2. At(b, "count") /\ refresh[b].rest = {} /\ refresh[b].f \in Files
  BY DEF Commit, FilesKnown, Busy, At
<1>3. NextFile(b)
  BY DEF Commit
<1>4. /\ Remembers /\ forgot' \in [Files -> BOOLEAN]
      /\ forgot' = forgot \/ forgot'[refresh[b].f]
  BY <1>2 DEF Commit, StoreOffset, LoseOffset, TypeOK, Remembers
<1>5. PICK moves \in {Moving(b), tx[b].moves} :
         /\ moves = Moving(b) \/ forgot'[refresh[b].f]
         /\ \/ ~Locked(b) /\ CommitSucceeds(b, moves)
            \/ ~Locked(b) /\ CommitFails(b, moves)
            \/ Locked(b) /\ UNCHANGED <<tx, offsets, counted, cut>>
  <2>1. CASE StoreOffset(b)
    BY <2>1 DEF StoreOffset, Moving
  <2>2. CASE LoseOffset(b)
    <3>1. forgot'[refresh[b].f]
      BY <1>2, <2>2 DEF LoseOffset, TypeOK
    <3> QED BY <2>2, <3>1 DEF LoseOffset
  <2> QED BY <2>1, <2>2 DEF Commit
<1>6. moves \in Transactions(b)
  BY <1>5 DEF Transactions, Moving
<1> DEFINE t == [tx[b] EXCEPT !.moves = moves]
<1>7. \/ ~Locked(b) /\ CommitSucceeds(b, moves) /\ tx' = [tx EXCEPT ![b] = NoChanges]
      \/ ~Locked(b) /\ tx' = [tx EXCEPT ![b] = NoChanges] /\ UNCHANGED <<offsets, counted, cut>>
      \/ ~Locked(b) /\ tx' = [tx EXCEPT ![b] = t] /\ UNCHANGED <<offsets, counted, cut>>
      \/ Locked(b) /\ UNCHANGED <<tx, offsets, counted, cut>>
  <2>1. tx' = [tx EXCEPT ![b].moves = moves] => tx' = [tx EXCEPT ![b] = t]
    BY <1>1
  <2> QED BY <1>5, <2>1 DEF CommitSucceeds, CommitFails
<1>8. t \in TxType /\ t.lines = tx[b].lines /\ t.moves = moves
  BY <1>1, <1>2, <1>5, SMTT(30) DEF TxType, Moving, RefreshType
<1> HIDE DEF t
<1>9. \A new \in TxType : tx' = [tx EXCEPT ![b] = new] =>
          /\ tx' \in [Bridges -> TxType] /\ tx'[b] = new
          /\ \A x \in Bridges \ {b} : tx'[x] = tx[x]
  BY <1>1
<1>10. /\ tx' \in [Bridges -> TxType] /\ \A x \in Bridges \ {b} : tx'[x] = tx[x]
      /\ \/ ~Locked(b) /\ CommitSucceeds(b, moves) /\ tx'[b] = NoChanges
         \/ ~Locked(b) /\ tx'[b] = NoChanges /\ UNCHANGED <<offsets, counted, cut>>
         \/ /\ ~Locked(b) /\ tx'[b].lines = tx[b].lines /\ tx'[b].moves = moves
            /\ UNCHANGED <<offsets, counted, cut>>
         \/ Locked(b) /\ UNCHANGED <<tx, offsets, counted, cut>>
  BY <1>1, <1>7, <1>8, <1>9, SleepingTyped
<1> QED BY <1>2, <1>3, <1>4, <1>6, <1>10, NextFileFacts

LEMMA RestFacts ==
    ASSUME TypeOK, NEW b \in Bridges, EndRefresh(b) \/ Crash(b)
    PROVE  /\ OnlyMoves(b) /\ refresh' \in [Bridges -> RefreshType] /\ tx' \in [Bridges -> TxType]
           /\ refresh'[b].at = "sleep" /\ tx'[b] = NoChanges
<1>1. refresh \in [Bridges -> RefreshType] /\ tx \in [Bridges -> TxType]
  BY DEF TypeOK, RefreshType, TxType
<1>2. refresh' = [refresh EXCEPT ![b] = Sleeping] /\ tx' = [tx EXCEPT ![b] = NoChanges]
  BY DEF EndRefresh, Crash
<1>3. Sleeping.at = "sleep"
  BY DEF Sleeping
<1> QED BY <1>1, <1>2, <1>3, SleepingTyped DEF OnlyMoves
-------------------------------------------------------------------------------
(* The steps, by what they change.                                          *)

Kept == UNCHANGED <<file, offsets, counted, cut, lost, grew, raced>> /\ Remembers

(* A CLI appends: lines are added, or the last one is completed. *)
FilesGrow ==
    \A f \in Files :
        /\ file[f].size <= file'[f].size
        /\ \A i \in DOMAIN file'[f].events : i \in DOMAIN file[f].events \/ file[f].size < 2 * i
        /\ \A i \in DOMAIN file[f].events :
              i \in DOMAIN file'[f].events /\ file'[f].events[i] = file[f].events[i]

Appends ==
    /\ UNCHANGED <<refresh, tx, offsets, counted, cut, lost, raced, forgot>>
    /\ FilesGrow
    /\ \A f \in Files : grew[f] \subseteq grew'[f]
    /\ \A f \in Files, i \in Lines :
          SizeInHand(f) /\ file[f].size < 2 * i /\ 2 * i <= file'[f].size => i \in grew'[f]

(* A refresh begins, ends, or leaves a file; its transaction is as it was,    *)
(* or gone.                                                                 *)
Leaves(b) ==
    /\ OnlyMoves(b) /\ Kept
    /\ refresh'[b].at \in {"sleep", "stat"}
    /\ tx'[b] = NoChanges \/ (tx'[b] = tx[b] /\ ~At(b, "count"))

Stats(b) ==
    /\ OnlyMoves(b) /\ Kept /\ tx' = tx
    /\ refresh[b].at = "stat" /\ refresh'[b].at = "lookup" /\ refresh'[b].f \in Files
    /\ refresh'[b].size = file[refresh'[b].f].size

SameFile(b) ==
    refresh'[b].f = refresh[b].f /\ refresh'[b].size = refresh[b].size

LooksUp(b) ==
    /\ OnlyMoves(b) /\ UNCHANGED <<file, offsets, counted, tx, cut, lost, grew>> /\ Remembers
    /\ refresh[b].at = "lookup" /\ refresh'[b].at = "read" /\ SameFile(b)
    /\ refresh'[b].from < refresh[b].size
    /\ \/ refresh'[b].from = offsets[refresh[b].f]
       \/ refresh'[b].from = 0 /\ forgot'[refresh[b].f]
    /\ \A f \in Files : raced'[f] =
          (raced[f] \/ (f = refresh[b].f /\ \E other \in Bridges \ {b} : InHand(other, f)))

Panics(b) ==
    /\ OnlyMoves(b) /\ Kept /\ tx' = tx
    /\ refresh[b].at = "read" /\ refresh'[b].at = "panicked" /\ SameFile(b)
    /\ refresh'[b].from = refresh[b].from
    /\ SplitsChar(refresh[b].f, refresh[b].from)

Reads(b) ==
    /\ OnlyMoves(b) /\ Kept /\ tx' = tx
    /\ refresh[b].at = "read" /\ refresh'[b].at = "count" /\ SameFile(b)
    /\ refresh'[b].from = refresh[b].from
    /\ refresh'[b].rest = ParsedLines(refresh[b].f, refresh[b].from)
    /\ ~SplitsChar(refresh[b].f, file[refresh[b].f].size)

Counting(b, i) ==
    /\ \A x \in Bridges \ {b} : refresh'[x] = refresh[x]
    /\ UNCHANGED <<file, offsets, counted, cut, grew, raced, forgot>>
    /\ refresh[b].at = "count" /\ refresh'[b].at = "count" /\ SameFile(b)
    /\ refresh'[b].from = refresh[b].from
    /\ i \in refresh[b].rest /\ refresh'[b].rest = refresh[b].rest \ {i}

Counts(b, i) ==
    /\ Counting(b, i)
    /\ ~Locked(b) /\ lost' = lost
    /\ \A x \in Bridges \ {b} : tx'[x] = tx[x]
    /\ tx'[b].lines = tx[b].lines \cup {<<refresh[b].f, i>>}
    /\ tx'[b].moves = tx[b].moves

Loses(b, i) ==
    /\ Counting(b, i)
    /\ tx' = tx
    /\ \A f \in Files : lost'[f] = IF f = refresh[b].f THEN lost[f] \cup {i} ELSE lost[f]

Committing(b) ==
    /\ OnlyMoves(b) /\ UNCHANGED <<file, lost, grew, raced>> /\ Remembers
    /\ refresh[b].at = "count" /\ refresh[b].rest = {} /\ refresh[b].f \in Files
    /\ refresh'[b].at = "stat"
    /\ ~Locked(b)

LeavesOpen(b) ==
    /\ Committing(b) /\ Kept
    /\ tx'[b].lines = tx[b].lines
    /\ tx[b].moves \subseteq tx'[b].moves /\ tx'[b].moves \subseteq Moving(b)
    /\ tx'[b].moves = Moving(b) \/ forgot'[refresh[b].f]

Commits(b) ==
    /\ Committing(b) /\ tx'[b] = NoChanges
    /\ \A f \in Files :
          /\ \/ offsets'[f] = offsets[f]
             \/ /\ \E move \in Moving(b) : move[1] = f /\ move[2] = offsets'[f]
                /\ CutsLine(offsets'[f]) => LineAt(offsets'[f]) \in cut'[f]
          /\ \/ \A move \in Moving(b) : move[1] = f => move[2] <= offsets'[f]
             \/ forgot'[f]
          /\ \A i \in Lines : counted'[f][i] =
                IF <<f, i>> \in tx[b].lines THEN counted[f][i] + 1 ELSE counted[f][i]
          /\ cut[f] \subseteq cut'[f]

Steps(b) ==
    \/ Leaves(b) \/ Stats(b) \/ LooksUp(b) \/ Panics(b) \/ Reads(b)
    \/ (\E i \in Lines : Counts(b, i) \/ Loses(b, i))
    \/ LeavesOpen(b) \/ Commits(b)

(* SQLite's write lock. *)
OneWriter ==
    \A b \in Bridges : tx[b] # NoChanges => \A x \in Bridges \ {b} : tx[x] = NoChanges

Typing == TypeOK /\ FilesKnown /\ OneWriter
-------------------------------------------------------------------------------
(* Every step is one of these, and keeps the types.                         *)

LEMMA RoomFacts ==
    ASSUME TypeOK, RoomForEvent, NEW f \in Files
    PROVE  Len(file[f].events) < MaxEvents
<1> SUFFICES ASSUME ~(Len(file[f].events) < MaxEvents) PROVE FALSE
  OBVIOUS
<1> DEFINE Mine == {f} \X (1..MaxEvents)
<1>1. DOMAIN file[f].events = 1..MaxEvents
  BY DomainFacts, BoundsAssumption
<1>2. Events \subseteq Files \X Lines
  BY DomainFacts DEF Events
<1>3. IsFiniteSet(Files \X Lines)
  <2>1. IsFiniteSet(Lines)
    BY FS_Interval, BoundsAssumption DEF Lines
  <2> QED BY <2>1, FilesAssumption, FS_Product
<1>4. IsFiniteSet(Events)
  BY <1>2, <1>3, FS_Subset
<1>5. Mine \subseteq Events
  BY <1>1 DEF Events
<1>6. Cardinality(Mine) = MaxEvents
  <2>1. IsFiniteSet({f}) /\ Cardinality({f}) = 1
    BY FS_Singleton
  <2>2. IsFiniteSet(1..MaxEvents) /\ Cardinality(1..MaxEvents) = MaxEvents
    BY FS_Interval, BoundsAssumption
  <2> QED BY <2>1, <2>2, FS_Product, BoundsAssumption
<1>7. Cardinality(Mine) <= Cardinality(Events)
  BY <1>4, <1>5, FS_Subset
<1>8. Cardinality(Events) \in Nat
  BY <1>4, FS_CardinalityType
<1> HIDE DEF Mine
<1> QED BY <1>6, <1>7, <1>8, BoundsAssumption DEF RoomForEvent

LEMMA LineAtFacts ==
    /\ \A o \in Nat : CutsLine(o) => o = 2 * LineAt(o) - 1 /\ LineAt(o) \in Nat \ {0}
    /\ \A i \in Nat \ {0} : CutsLine(2 * i - 1) /\ LineAt(2 * i - 1) = i
  BY DEF CutsLine, LineAt

LEMMA CommitSucceedsFacts ==
    ASSUME TypeOK, FilesKnown, NEW b \in Bridges, Commit(b), ~Locked(b),
           NEW moves \in Transactions(b), CommitSucceeds(b, moves)
    PROVE  /\ Commits(b)
           /\ offsets' \in [Files -> 0..(2 * MaxEvents)]
           /\ counted' \in [Files -> [Lines -> Nat]]
           /\ cut' \in [Files -> SUBSET Lines]
<1>1. /\ Committing(b) /\ tx'[b] = NoChanges
  <2>1. tx \in [Bridges -> TxType] /\ tx' = [tx EXCEPT ![b] = NoChanges]
    BY DEF TypeOK, TxType, CommitSucceeds
  <2>2. UNCHANGED <<file, lost, grew, raced>>
    BY DEF Commit
  <2> QED BY <2>1, <2>2, CommitFacts DEF Committing, OnlyMoves, At
<1>2. /\ offsets \in [Files -> 0..(2 * MaxEvents)] /\ cut \in [Files -> SUBSET Lines]
      /\ counted \in [Files -> [Lines -> Nat]]
      /\ tx \in [Bridges -> TxType] /\ refresh \in [Bridges -> RefreshType]
  BY DEF TypeOK, TxType, RefreshType
<1>3. /\ Moving(b) \in SUBSET (Files \X (0..(2 * MaxEvents)))
      /\ moves \subseteq Moving(b) /\ moves \in SUBSET (Files \X (0..(2 * MaxEvents)))
  BY <1>1, <1>2 DEF Committing, Moving, TxType, RefreshType, Transactions
<1>4. counted' = [f \in Files |-> [i \in Lines |->
                      IF <<f, i>> \in tx[b].lines THEN counted[f][i] + 1 ELSE counted[f][i]]]
  BY DEF CommitSucceeds
<1>5. ASSUME NEW f \in Files
      PROVE  /\ offsets'[f] \in 0..(2 * MaxEvents) /\ cut'[f] \in SUBSET Lines
             /\ \/ offsets'[f] = offsets[f]
                \/ /\ \E move \in Moving(b) : move[1] = f /\ move[2] = offsets'[f]
                   /\ CutsLine(offsets'[f]) => LineAt(offsets'[f]) \in cut'[f]
             /\ \A move \in moves : move[1] = f => move[2] <= offsets'[f]
             /\ cut[f] \subseteq cut'[f]
  <2> DEFINE mine == Moved(moves, f)
  <2>1. mine \in SUBSET (0..(2 * MaxEvents))
    BY <1>3 DEF Moved
  <2>2. \A o : o \in mine <=> \E move \in moves : move[1] = f /\ move[2] = o
    BY DEF Moved
  <2>3. /\ offsets'[f] = IF mine = {} THEN offsets[f] ELSE Max(mine)
        /\ cut'[f] = cut[f] \cup {LineAt(o) : o \in {m \in mine : CutsLine(m)}}
    BY DEF CommitSucceeds
  <2> HIDE DEF mine
  <2>4. ASSUME NEW o \in mine, CutsLine(o) PROVE LineAt(o) \in Lines
    <3>1. o \in Nat /\ o <= 2 * MaxEvents
      BY <2>1, BoundsAssumption
    <3>2. o = 2 * LineAt(o) - 1 /\ LineAt(o) \in Nat \ {0}
      BY <2>4, <3>1, LineAtFacts
    <3> QED BY <3>1, <3>2, BoundsAssumption DEF Lines
  <2>5. cut'[f] \in SUBSET Lines /\ cut[f] \subseteq cut'[f]
    BY <1>2, <2>3, <2>4
  <2>6. CASE mine = {}
    BY <1>2, <1>3, <2>2, <2>3, <2>5, <2>6
  <2>7. CASE mine # {}
    <3>1. Max(mine) \in mine /\ \A x \in mine : x <= Max(mine)
      <4>1. 2 * MaxEvents \in Nat
        BY BoundsAssumption
      <4> QED BY <2>1, <2>7, <4>1, MaxFacts
    <3>2. CutsLine(Max(mine)) => LineAt(Max(mine)) \in cut'[f]
      BY <2>3, <3>1
    <3> QED BY <1>3, <2>1, <2>2, <2>3, <2>5, <2>7, <3>1, <3>2
  <2> QED BY <2>6, <2>7
<1>6. \A f \in Files : \A i \in Lines : counted'[f][i] =
          IF <<f, i>> \in tx[b].lines THEN counted[f][i] + 1 ELSE counted[f][i]
  BY <1>4
<1>7. counted' \in [Files -> [Lines -> Nat]]
  BY <1>2, <1>4
<1>8. /\ offsets' = [f \in Files |-> offsets'[f]]
      /\ cut' = [f \in Files |-> cut'[f]]
  BY DEF CommitSucceeds
<1>9. ASSUME NEW f \in Files
      PROVE  (\A move \in Moving(b) : move[1] = f => move[2] <= offsets'[f]) \/ forgot'[f]
  <2>1. CASE moves = Moving(b)
    BY <1>5, <2>1
  <2>2. CASE f = refresh[b].f
    BY <1>5, <2>2 DEF Transactions
  <2>3. CASE f # refresh[b].f
    BY <1>5, <2>3 DEF Transactions, Moving
  <2> QED BY <2>1, <2>2, <2>3
<1>10. ASSUME NEW f \in Files
       PROVE  \/ offsets'[f] = offsets[f]
              \/ /\ \E move \in Moving(b) : move[1] = f /\ move[2] = offsets'[f]
                 /\ CutsLine(offsets'[f]) => LineAt(offsets'[f]) \in cut'[f]
  BY <1>5
<1>11. \A f \in Files : cut[f] \subseteq cut'[f]
  BY <1>5
<1>12. Commits(b)
  BY <1>1, <1>6, <1>9, <1>10, <1>11 DEF Commits
<1> QED BY <1>5, <1>7, <1>8, <1>12

LEMMA RefreshSteps ==
    ASSUME Typing, NEW b \in Bridges, Refresh(b) \/ Crash(b)
    PROVE  Steps(b) /\ TypeOK'
<1> USE DEF Typing
<1>1. /\ refresh \in [Bridges -> RefreshType] /\ tx \in [Bridges -> TxType]
  BY DEF TypeOK, RefreshType, TxType
<1>2. CASE ListFiles(b)
  <2>1. Leaves(b) /\ refresh' \in [Bridges -> RefreshType]
    BY <1>2, ListFilesFacts DEF Leaves, Kept, Remembers, ghosts, ListFiles, At, OnlyMoves
  <2> QED BY <1>2, <2>1 DEF ListFiles, TypeOK, RefreshType, Steps, ghosts
<1>3. ASSUME NEW f \in Files, Stat(b, f)
      PROVE  Steps(b) /\ TypeOK'
  <2>1. Stats(b) /\ refresh' \in [Bridges -> RefreshType]
    <3>1. /\ OnlyMoves(b) /\ tx' = tx /\ refresh' \in [Bridges -> RefreshType]
          /\ refresh[b].at = "stat" /\ refresh'[b].at = "lookup"
          /\ refresh'[b].f = f /\ refresh'[b].size = file[f].size
      BY <1>3, StatFacts
    <3>2. Kept
      BY <1>3 DEF Stat, Kept, Remembers, ghosts
    <3> QED BY <3>1, <3>2 DEF Stats
  <2> QED BY <1>3, <2>1 DEF Stat, TypeOK, RefreshType, Steps, ghosts
<1>4. CASE LookUpOffset(b)
  <2> DEFINE f == refresh[b].f
  <2>1. /\ f \in Files /\ refresh[b].at = "lookup"
        /\ UNCHANGED <<there, file, offsets, counted, tx, cut, lost, grew>>
    BY <1>4 DEF FilesKnown, Busy, LookUpOffset, At
  <2>2. /\ Remembers /\ forgot' \in [Files -> BOOLEAN] /\ faults' \in 0..MaxFaults
    <3>1. forgot' = forgot \/ forgot' = [forgot EXCEPT ![f] = TRUE]
      BY <1>4 DEF LookUpOffset
    <3>2. Remembers /\ forgot' \in [Files -> BOOLEAN]
      BY <2>1, <3>1 DEF TypeOK, Remembers
    <3>3. faults' = faults \/ Fault
      BY <1>4 DEF LookUpOffset
    <3>4. faults' \in 0..MaxFaults
      BY <3>3, BoundsAssumption DEF Fault, TypeOK
    <3> QED BY <3>2, <3>4
  <2>3. PICK from \in 0..(2 * MaxEvents) :
           ResumeFrom(b, from) /\ (from = offsets[f] \/ (from = 0 /\ forgot'[f]))
    <3>1. offsets[f] \in 0..(2 * MaxEvents) /\ 0 \in 0..(2 * MaxEvents)
      BY <2>1, BoundsAssumption DEF TypeOK
    <3>2. CASE ResumeFrom(b, offsets[f])
      BY <3>1, <3>2
    <3>3. CASE ResumeFrom(b, 0) /\ forgot' = [forgot EXCEPT ![f] = TRUE]
      <4>1. forgot'[f]
        BY <2>1, <3>3 DEF TypeOK
      <4> QED BY <3>1, <3>3, <4>1
    <3> QED BY <1>4, <3>2, <3>3 DEF LookUpOffset
  <2>4. /\ OnlyMoves(b) /\ refresh' \in [Bridges -> RefreshType]
        /\ raced' \in [Files -> BOOLEAN]
        /\ \/ refresh'[b].at = "stat" /\ raced' = raced
           \/ /\ refresh'[b].at = "read" /\ refresh'[b].f = refresh[b].f
              /\ refresh'[b].size = refresh[b].size /\ refresh'[b].from = from
              /\ from < refresh[b].size
              /\ \A g \in Files : raced'[g] =
                    (raced[g] \/ (g = refresh[b].f
                                     /\ \E other \in Bridges \ {b} : InHand(other, g)))
    BY <2>1, <2>3, ResumeFacts
  <2>5. TypeOK'
    BY <2>1, <2>2, <2>4 DEF TypeOK, RefreshType
  <2>6. Leaves(b) \/ LooksUp(b)
    BY <2>1, <2>2, <2>3, <2>4 DEF Leaves, LooksUp, Kept, SameFile, At
  <2> QED BY <2>5, <2>6 DEF Steps
<1>5. CASE ReadFile(b)
  <2>1. /\ OnlyMoves(b) /\ tx' = tx /\ refresh' \in [Bridges -> RefreshType] /\ refresh[b].at = "read"
        /\ UNCHANGED <<there, file, offsets, counted, tx, ghosts>> /\ faults' \in 0..MaxFaults
    <3>1. faults' = faults \/ Fault
      BY <1>5 DEF ReadFile
    <3>2. faults' \in 0..MaxFaults
      BY <3>1, BoundsAssumption DEF Fault, TypeOK
    <3>3. UNCHANGED <<there, file, offsets, counted, tx, ghosts>>
      BY <1>5 DEF ReadFile
    <3> QED BY <1>5, <3>2, <3>3, ReadFileFacts
  <2>2. TypeOK'
    BY <2>1 DEF TypeOK, RefreshType, ghosts
  <2>3. Leaves(b) \/ Panics(b) \/ Reads(b)
    BY <1>5, <2>1, ReadFileFacts DEF Leaves, Panics, Reads, Kept, Remembers, ghosts, SameFile, At
  <2> QED BY <2>2, <2>3 DEF Steps
<1>6. CASE CountLine(b)
  <2>1. /\ UNCHANGED <<there, file, offsets, counted, cut, grew, raced, forgot>>
        /\ faults' \in 0..MaxFaults
    BY <1>6, BoundsAssumption DEF CountLine, Fault, TypeOK
  <2>2. PICK i \in refresh[b].rest :
           /\ i \in Lines /\ refresh[b].f \in Files
           /\ refresh' \in [Bridges -> RefreshType]
           /\ \A x \in Bridges \ {b} : refresh'[x] = refresh[x]
           /\ At(b, "count") /\ At(b, "count")'
           /\ refresh'[b].f = refresh[b].f /\ refresh'[b].size = refresh[b].size
           /\ refresh'[b].from = refresh[b].from /\ refresh'[b].rest = refresh[b].rest \ {i}
           /\ \/ /\ ~Locked(b) /\ tx' \in [Bridges -> TxType] /\ lost' = lost
                 /\ \A x \in Bridges \ {b} : tx'[x] = tx[x]
                 /\ tx'[b].lines = tx[b].lines \cup {<<refresh[b].f, i>>}
                 /\ tx'[b].moves = tx[b].moves
              \/ /\ tx' = tx /\ lost' = [lost EXCEPT ![refresh[b].f] = @ \cup {i}]
    BY <1>6, CountLineFacts
  <2>3. Counting(b, i)
    BY <2>1, <2>2 DEF Counting, SameFile, At
  <2>4. lost \in [Files -> SUBSET Lines]
    BY DEF TypeOK
  <2>5. Counts(b, i) \/ Loses(b, i)
    <3>1. lost' = [lost EXCEPT ![refresh[b].f] = @ \cup {i}] =>
            \A f \in Files : lost'[f] = IF f = refresh[b].f THEN lost[f] \cup {i} ELSE lost[f]
      BY <2>4
    <3> QED BY <2>2, <2>3, <3>1 DEF Counts, Loses
  <2>6. lost' \in [Files -> SUBSET Lines] /\ tx' \in [Bridges -> TxType]
    BY <1>1, <2>2, <2>4
  <2>7. TypeOK'
    BY <2>1, <2>2, <2>6, SMTT(30) DEF TypeOK, RefreshType, TxType
  <2> QED BY <2>2, <2>5, <2>7 DEF Steps
<1>7. CASE Commit(b)
  <2>1. UNCHANGED <<there, file, lost, grew, raced>> /\ faults' \in 0..MaxFaults
    BY <1>7, BoundsAssumption DEF Commit, StoreOffset, LoseOffset, Fault, TypeOK
  <2>2. /\ At(b, "count") /\ refresh[b].rest = {} /\ refresh[b].f \in Files
        /\ refresh' \in [Bridges -> RefreshType] /\ refresh'[b].at = "stat"
        /\ OnlyMoves(b) /\ tx' \in [Bridges -> TxType]
        /\ Remembers /\ forgot' \in [Files -> BOOLEAN]
    BY <1>7, CommitFacts DEF OnlyMoves
  <2>3. PICK moves \in Transactions(b) :
           \/ ~Locked(b) /\ CommitSucceeds(b, moves) /\ tx'[b] = NoChanges
           \/ ~Locked(b) /\ tx'[b] = NoChanges /\ UNCHANGED <<offsets, counted, cut>>
           \/ /\ ~Locked(b) /\ tx'[b].lines = tx[b].lines /\ tx'[b].moves = moves
              /\ UNCHANGED <<offsets, counted, cut>>
           \/ Locked(b) /\ UNCHANGED <<tx, offsets, counted, cut>>
    BY <1>7, CommitFacts
  <2>4. CASE ~Locked(b) /\ CommitSucceeds(b, moves) /\ tx'[b] = NoChanges
    <3>1. /\ Commits(b) /\ offsets' \in [Files -> 0..(2 * MaxEvents)]
          /\ counted' \in [Files -> [Lines -> Nat]] /\ cut' \in [Files -> SUBSET Lines]
      BY <1>7, <2>4, CommitSucceedsFacts
    <3>2. TypeOK'
      BY <2>1, <2>2, <3>1 DEF TypeOK, RefreshType, TxType
    <3> QED BY <3>1, <3>2 DEF Steps
  <2>5. CASE UNCHANGED <<offsets, counted, cut>>
    <3>1. TypeOK'
      BY <2>1, <2>2, <2>5 DEF TypeOK, RefreshType, TxType
    <3>2. Kept
      BY <2>1, <2>2, <2>5 DEF Kept
    <3>3. Locked(b) => tx[b] = NoChanges
      BY DEF Locked, OneWriter
    <3>4. CASE tx'[b] = NoChanges
      BY <2>2, <3>1, <3>2, <3>4 DEF Leaves, Steps
    <3>5. CASE ~Locked(b) /\ tx'[b].lines = tx[b].lines /\ tx'[b].moves = moves
      <4>1. /\ tx[b].moves \subseteq moves /\ moves \subseteq Moving(b)
            /\ moves = Moving(b) \/ forgot'[refresh[b].f]
        BY DEF Transactions, Moving
      <4>2. LeavesOpen(b)
        BY <2>1, <2>2, <3>2, <3>5, <4>1 DEF LeavesOpen, Committing, At
      <4> QED BY <3>1, <4>2 DEF Steps
    <3> QED BY <2>3, <3>3, <3>4, <3>5
  <2> QED BY <2>3, <2>4, <2>5
<1>8. CASE EndRefresh(b) \/ Crash(b)
  <2>1. Leaves(b) /\ refresh' \in [Bridges -> RefreshType] /\ tx' \in [Bridges -> TxType]
    BY <1>8, RestFacts DEF Leaves, Kept, Remembers, ghosts, EndRefresh, Crash
  <2>2. UNCHANGED <<there, file, offsets, counted, ghosts>> /\ faults' \in 0..MaxFaults
    BY <1>8, BoundsAssumption DEF EndRefresh, Crash, Fault, TypeOK
  <2>3. TypeOK'
    BY <2>1, <2>2 DEF TypeOK, RefreshType, TxType, ghosts
  <2> QED BY <2>1, <2>3 DEF Steps
<1> QED BY <1>2, <1>3, <1>4, <1>5, <1>6, <1>7, <1>8 DEF Refresh

(* One file is replaced. *)
LEMMA FileChanges ==
    ASSUME TypeOK, NEW f \in Files, NEW new \in [events : Seq(Kinds), size : 0..(2 * MaxEvents)],
           file' = [file EXCEPT ![f] = new],
           Len(new.events) <= MaxEvents,
           new.size \in {2 * Len(new.events), 2 * Len(new.events) - 1},
           UNCHANGED <<there, offsets, counted, refresh, tx, faults, cut, lost, raced, forgot>>,
           grew' \in [Files -> SUBSET Lines],
           file[f].size <= new.size,
           \A i \in DOMAIN new.events : i \in DOMAIN file[f].events \/ file[f].size < 2 * i,
           \A i \in DOMAIN file[f].events : i \in DOMAIN new.events /\ new.events[i] = file[f].events[i],
           \A g \in Files : grew[g] \subseteq grew'[g],
           \A i \in Lines :
              SizeInHand(f) /\ file[f].size < 2 * i /\ 2 * i <= new.size => i \in grew'[f]
    PROVE  Appends /\ TypeOK'
<1>1. /\ file' \in [Files -> [events : Seq(Kinds), size : 0..(2 * MaxEvents)]]
      /\ file'[f] = new /\ \A g \in Files \ {f} : file'[g] = file[g]
  BY DEF TypeOK
<1>2. FilesGrow
  <2>1. ASSUME NEW g \in Files
        PROVE  /\ file[g].size <= file'[g].size
               /\ \A i \in DOMAIN file'[g].events : i \in DOMAIN file[g].events \/ file[g].size < 2 * i
               /\ \A i \in DOMAIN file[g].events :
                     i \in DOMAIN file'[g].events /\ file'[g].events[i] = file[g].events[i]
    <3>1. CASE g = f
      BY <1>1, <3>1
    <3>2. CASE g # f
      <4>1. file'[g] = file[g] /\ file[g].size \in Nat
        BY <1>1, <3>2, DomainFacts
      <4> QED BY <4>1
    <3> QED BY <3>1, <3>2
  <2> QED BY <2>1 DEF FilesGrow
<1>3. ASSUME NEW g \in Files, NEW i \in Lines,
             SizeInHand(g), file[g].size < 2 * i, 2 * i <= file'[g].size
      PROVE  i \in grew'[g]
  <2>1. CASE g = f
    BY <1>1, <1>3, <2>1
  <2>2. CASE g # f
    <3>1. file'[g] = file[g] /\ file[g].size \in Nat /\ 2 * i \in Nat
      BY <1>1, <2>2, DomainFacts DEF Lines
    <3> QED BY <1>3, <3>1
  <2> QED BY <2>1, <2>2
<1>4. Appends
  BY <1>2, <1>3 DEF Appends
<1>5. \A g \in Files : /\ Len(file'[g].events) <= MaxEvents
                      /\ file'[g].size \in {2 * Len(file'[g].events), 2 * Len(file'[g].events) - 1}
  <2>1. ASSUME NEW g \in Files
        PROVE  /\ Len(file'[g].events) <= MaxEvents
               /\ file'[g].size \in {2 * Len(file'[g].events), 2 * Len(file'[g].events) - 1}
    <3>1. CASE g = f
      BY <1>1, <3>1
    <3>2. CASE g # f
      BY <1>1, <3>2 DEF TypeOK
    <3> QED BY <3>1, <3>2
  <2> QED BY <2>1
<1>6. TypeOK'
  BY <1>1, <1>5 DEF TypeOK
<1> QED BY <1>4, <1>6

(* A line is noted as grown. *)
LEMMA GrewChanges ==
    ASSUME TypeOK, NEW f \in Files, NEW i \in Lines, LineCompleted(f, i)
    PROVE  /\ grew' \in [Files -> SUBSET Lines]
           /\ \A g \in Files : grew[g] \subseteq grew'[g]
           /\ SizeInHand(f) => i \in grew'[f]
<1>1. grew \in [Files -> SUBSET Lines]
  BY DEF TypeOK
<1> QED BY <1>1 DEF LineCompleted

(* The last line of a file is completed. *)
LEMMA CompleteLineSteps ==
    ASSUME TypeOK, NEW f \in Files, CompleteLine(f)
    PROVE  Appends /\ TypeOK'
<1> DEFINE n == Len(file[f].events)
           new == [file[f] EXCEPT !.size = @ + 1]
<1>1. /\ file[f].events \in Seq(Kinds) /\ DOMAIN file[f].events = 1..n /\ n \in Nat /\ n <= MaxEvents
      /\ file[f].size \in Nat /\ file[f].size \in {2 * n, 2 * n - 1} /\ MaxEvents \in Nat
  BY DomainFacts, BoundsAssumption
<1>2. file \in [Files -> [events : Seq(Kinds), size : 0..(2 * MaxEvents)]]
  BY DEF TypeOK
<1>3. file[f].size = 2 * n - 1
  BY <1>1 DEF CompleteLine, Whole
<1>4. file' = [file EXCEPT ![f] = new]
  BY <1>2 DEF CompleteLine
<1>5. new.events = file[f].events /\ new.size = file[f].size + 1
  BY <1>2
<1>6. n \in Lines
  BY <1>1, <1>3 DEF Lines
<1>7. /\ grew' \in [Files -> SUBSET Lines]
      /\ \A g \in Files : grew[g] \subseteq grew'[g]
      /\ SizeInHand(f) => n \in grew'[f]
  BY <1>6, GrewChanges DEF CompleteLine
<1>8. UNCHANGED <<there, offsets, counted, refresh, tx, faults, cut, lost, raced, forgot>>
  BY DEF CompleteLine
<1>9. new \in [events : Seq(Kinds), size : 0..(2 * MaxEvents)]
  <2>1. file[f].size + 1 \in 0..(2 * MaxEvents)
    BY <1>1, <1>3
  <2> QED BY <1>2, <2>1
<1> HIDE DEF n, new
<1>10. /\ Len(new.events) <= MaxEvents
       /\ new.size \in {2 * Len(new.events), 2 * Len(new.events) - 1}
       /\ file[f].size <= new.size
  BY <1>1, <1>3, <1>5 DEF n
<1>11. \A i \in Lines :
          SizeInHand(f) /\ file[f].size < 2 * i /\ 2 * i <= new.size => i \in grew'[f]
  <2>1. \A i \in Lines : file[f].size < 2 * i /\ 2 * i <= new.size => i = n
    BY <1>1, <1>3, <1>5 DEF Lines
  <2> QED BY <1>7, <2>1
<1>12. /\ \A i \in DOMAIN new.events : i \in DOMAIN file[f].events \/ file[f].size < 2 * i
       /\ \A i \in DOMAIN file[f].events :
             i \in DOMAIN new.events /\ new.events[i] = file[f].events[i]
  BY <1>5
<1> QED BY <1>4, <1>7, <1>8, <1>9, <1>10, <1>11, <1>12, FileChanges

(* A line is added, whole or half. *)
LEMMA LineAdded ==
    ASSUME TypeOK, NEW f \in Files, NEW kind \in Kinds, NEW half \in {1, 2},
           Whole(f), RoomForEvent,
           file' = [file EXCEPT ![f].events = Append(@, kind), ![f].size = @ + half],
           UNCHANGED <<there, offsets, counted, refresh, tx, faults, cut, lost, raced, forgot>>,
           IF half = 2 THEN LineCompleted(f, Len(file[f].events) + 1) ELSE grew' = grew
    PROVE  Appends /\ TypeOK'
<1> DEFINE n == Len(file[f].events)
           new == [file[f] EXCEPT !.events = Append(@, kind), !.size = @ + half]
<1>1. /\ file[f].events \in Seq(Kinds) /\ DOMAIN file[f].events = 1..n /\ n \in Nat
      /\ file[f].size \in Nat /\ MaxEvents \in Nat
  BY DomainFacts, BoundsAssumption
<1>2. file \in [Files -> [events : Seq(Kinds), size : 0..(2 * MaxEvents)]]
  BY DEF TypeOK
<1>3. file[f].size = 2 * n
  BY DEF Whole
<1>4. n < MaxEvents
  BY RoomFacts
<1>5. file' = [file EXCEPT ![f] = new]
  BY <1>2
<1>6. new.events = Append(file[f].events, kind) /\ new.size = file[f].size + half
  BY <1>2
<1>7. n + 1 \in Lines
  BY <1>1, <1>4 DEF Lines
<1>8. /\ grew' \in [Files -> SUBSET Lines]
      /\ \A g \in Files : grew[g] \subseteq grew'[g]
      /\ half = 2 /\ SizeInHand(f) => n + 1 \in grew'[f]
  <2>1. CASE half = 2
    BY <1>7, <2>1, GrewChanges
  <2>2. CASE half = 1
    BY <2>2 DEF TypeOK
  <2> QED BY <2>1, <2>2
<1>9. new \in [events : Seq(Kinds), size : 0..(2 * MaxEvents)]
  <2>1. file[f].size + half \in 0..(2 * MaxEvents)
    BY <1>1, <1>3, <1>4, SMTT(30)
  <2>2. Append(file[f].events, kind) \in Seq(Kinds)
    BY <1>1
  <2> QED BY <1>2, <2>1, <2>2
<1> HIDE DEF new
<1>10. /\ Len(new.events) = n + 1 /\ DOMAIN new.events = 1..(n + 1)
       /\ \A i \in 1..n : new.events[i] = file[f].events[i]
  BY <1>1, <1>6
<1> HIDE DEF n
<1>11. /\ Len(new.events) <= MaxEvents
       /\ new.size \in {2 * Len(new.events), 2 * Len(new.events) - 1}
       /\ file[f].size <= new.size
  <2>1. n \in Nat /\ MaxEvents \in Nat /\ n < MaxEvents
    BY <1>1, <1>4
  <2>2. Len(new.events) = n + 1 /\ new.size = 2 * n + half /\ file[f].size = 2 * n
    BY <1>3, <1>6, <1>10
  <2>3. CASE half = 1
    BY <2>1, <2>2, <2>3
  <2>4. CASE half = 2
    BY <2>1, <2>2, <2>4, SMTT(30)
  <2> QED BY <2>3, <2>4
<1>12. \A i \in Lines :
          SizeInHand(f) /\ file[f].size < 2 * i /\ 2 * i <= new.size => i \in grew'[f]
  <2>1. \A i \in Lines : file[f].size < 2 * i /\ 2 * i <= new.size => i = n + 1 /\ half = 2
    BY <1>1, <1>3, <1>6 DEF Lines
  <2> QED BY <1>8, <2>1
<1>13. \A i \in DOMAIN new.events : i \in DOMAIN file[f].events \/ file[f].size < 2 * i
  BY <1>1, <1>3, <1>10
<1>14. \A i \in DOMAIN file[f].events :
          i \in DOMAIN new.events /\ new.events[i] = file[f].events[i]
  BY <1>1, <1>10
<1> QED BY <1>5, <1>8, <1>9, <1>11, <1>12, <1>13, <1>14, FileChanges

LEMMA AppendSteps ==
    ASSUME TypeOK, Copilot
    PROVE  Appends /\ TypeOK'
<1>1. PICK f \in Files : CompleteLine(f) \/ \E kind \in Kinds : AppendLine(f, kind) \/ AppendHalf(f, kind)
  <2>1. there.files \subseteq Files /\ there.kinds \subseteq Kinds
    BY DeploymentsAssumption DEF TypeOK
  <2> QED BY <2>1 DEF Copilot
<1>2. CASE CompleteLine(f)
  BY <1>2, CompleteLineSteps
<1>3. ASSUME NEW kind \in Kinds, AppendLine(f, kind)
      PROVE  Appends /\ TypeOK'
  BY <1>3, LineAdded DEF AppendLine
<1>4. ASSUME NEW kind \in Kinds, AppendHalf(f, kind)
      PROVE  Appends /\ TypeOK'
  <2>1. /\ Whole(f) /\ RoomForEvent /\ grew' = grew
        /\ file' = [file EXCEPT ![f].events = Append(@, kind), ![f].size = @ + 1]
        /\ UNCHANGED <<there, offsets, counted, refresh, tx, faults, cut, lost, raced, forgot>>
    BY <1>4 DEF AppendHalf, ghosts
  <2>2. 1 \in {1, 2} /\ 1 # 2
    OBVIOUS
  <2> QED BY <2>1, <2>2, LineAdded
<1> QED BY <1>1, <1>2, <1>3, <1>4

(* Everything the properties look at is as it was, or a CLI appended, or one  *)
(* refresh took a step.                                                     *)
Evolves ==
    \/ Kept /\ refresh' = refresh /\ tx' = tx
    \/ Appends
    \/ \E b \in Bridges : Steps(b)

LEMMA StepCases ==
    ASSUME Typing, [Next]_vars
    PROVE  Evolves /\ TypeOK'
<1>1. CASE UNCHANGED vars
  BY <1>1 DEF vars, ghosts, Typing, TypeOK, Evolves, Kept, Remembers
<1>2. CASE Copilot
  BY <1>2, AppendSteps DEF Typing, Evolves
<1>3. ASSUME NEW b \in Bridges, Refresh(b) \/ Crash(b)
      PROVE  Evolves /\ TypeOK'
  BY <1>3, RefreshSteps DEF Evolves
<1> QED BY <1>1, <1>2, <1>3 DEF Next

(* Where what a bridge has in hand comes from. *)
LEMMA HandFacts ==
    ASSUME Typing, Evolves, NEW x \in Bridges
    PROVE  /\ refresh'[x].at \in {"read", "count", "panicked"} =>
                 /\ SameFile(x)
                 /\ \/ refresh[x].at \in {"read", "count", "panicked"}
                       /\ refresh'[x].from = refresh[x].from
                    \/ LooksUp(x)
           /\ refresh'[x].at = "read" => refresh[x].at = "read" \/ LooksUp(x)
           /\ refresh'[x].at \in {"lookup", "read"} =>
                 Stats(x) \/ (SameFile(x) /\ refresh[x].at \in {"lookup", "read"})
           /\ refresh'[x].at = "panicked" => refresh[x].at = "panicked" \/ Panics(x)
           /\ refresh'[x].at = "count" =>
                 \/ refresh[x].at = "count" /\ refresh'[x].rest \subseteq refresh[x].rest
                 \/ Reads(x)
           /\ tx'[x].moves \subseteq tx[x].moves \/ LeavesOpen(x)
           /\ tx'[x].lines \subseteq tx[x].lines \/ \E i \in Lines : Counts(x, i)
           /\ refresh'[x].f \in Files \/ ~Busy(x)'
<1>1. CASE refresh'[x] = refresh[x] /\ tx'[x] = tx[x]
  BY <1>1 DEF SameFile, Busy, Typing, FilesKnown
<1>2. CASE Leaves(x)
  BY <1>2 DEF Leaves, NoChanges, Busy
<1>3. CASE Stats(x)
  BY <1>3 DEF Stats
<1>4. CASE LooksUp(x)
  BY <1>4 DEF LooksUp, SameFile, Typing, FilesKnown, Busy
<1>5. CASE Panics(x) \/ Reads(x)
  BY <1>5 DEF Panics, Reads, SameFile, Typing, FilesKnown, Busy
<1>6. ASSUME NEW i \in Lines, Counts(x, i) \/ Loses(x, i)
      PROVE  /\ refresh[x].at = "count" /\ refresh'[x].at = "count" /\ SameFile(x)
             /\ refresh'[x].from = refresh[x].from /\ refresh'[x].rest \subseteq refresh[x].rest
             /\ tx'[x].moves = tx[x].moves /\ (tx'[x].lines = tx[x].lines \/ Counts(x, i))
             /\ refresh'[x].f \in Files
  BY <1>6 DEF Counts, Loses, Counting, SameFile, Typing, FilesKnown, Busy
<1>7. CASE LeavesOpen(x)
  BY <1>7 DEF LeavesOpen, Committing, Busy
<1>8. CASE Commits(x)
  BY <1>8 DEF Commits, Committing, NoChanges, Busy
<1>9. ASSUME NEW b \in Bridges, Steps(b), b # x
      PROVE  refresh'[x] = refresh[x] /\ tx'[x] = tx[x]
  BY <1>9 DEF Steps, Leaves, Stats, LooksUp, Panics, Reads, Counts, Loses, Counting, LeavesOpen,
              Commits, Committing, OnlyMoves
<1>10. CASE Steps(x)
  <2>1. CASE \E i \in Lines : Counts(x, i) \/ Loses(x, i)
    <3>1. PICK i \in Lines : Counts(x, i) \/ Loses(x, i)
      BY <2>1
    <3>2. tx'[x].moves = tx[x].moves
      BY <3>1 DEF Counts, Loses, Counting
    <3> QED BY <1>6, <3>1, <3>2
  <2> QED BY <1>2, <1>3, <1>4, <1>5, <1>7, <1>8, <1>10, <2>1 DEF Steps
<1> QED BY <1>1, <1>9, <1>10 DEF Evolves, Appends

(* A COMMIT counts the lines of its transaction, once each. *)
LEMMA CommitCounts ==
    ASSUME NEW b \in Bridges, Commits(b), NEW f \in Files, NEW i \in Lines
    PROVE  counted'[f][i] = IF <<f, i>> \in tx[b].lines THEN counted[f][i] + 1 ELSE counted[f][i]
<1>1. \A g \in Files : \A j \in Lines : counted'[g][j] =
          IF <<g, j>> \in tx[b].lines THEN counted[g][j] + 1 ELSE counted[g][j]
  BY Zenon DEF Commits
<1> QED BY <1>1

(* Nothing that was written, counted or noted is taken back. *)
LEMMA Monotone ==
    ASSUME Typing, Evolves, NEW f \in Files
    PROVE  /\ file[f].size <= file'[f].size
           /\ \A i \in DOMAIN file[f].events : file'[f].events[i] = file[f].events[i]
           /\ grew[f] \subseteq grew'[f] /\ cut[f] \subseteq cut'[f] /\ lost[f] \subseteq lost'[f]
           /\ (raced[f] => raced'[f]) /\ (forgot[f] => forgot'[f])
           /\ \A i \in Lines : counted[f][i] \in Nat /\ counted'[f][i] \in Nat
                                /\ counted[f][i] <= counted'[f][i]
<1>1. file[f].size \in Nat /\ \A i \in Lines : counted[f][i] \in Nat
  BY DomainFacts DEF Typing, TypeOK
<1>2. ASSUME UNCHANGED <<file, counted, cut, lost, grew, raced>>
      PROVE  /\ file[f].size <= file'[f].size
             /\ \A i \in DOMAIN file[f].events : file'[f].events[i] = file[f].events[i]
             /\ grew[f] \subseteq grew'[f] /\ cut[f] \subseteq cut'[f] /\ lost[f] \subseteq lost'[f]
             /\ raced[f] => raced'[f]
             /\ \A i \in Lines : counted[f][i] \in Nat /\ counted'[f][i] \in Nat
                                  /\ counted[f][i] <= counted'[f][i]
  BY <1>1, <1>2
<1>3. CASE Appends
  BY <1>1, <1>3 DEF Appends, FilesGrow
<1>4. ASSUME NEW b \in Bridges, LooksUp(b)
      PROVE  UNCHANGED <<file, counted, cut, lost, grew>> /\ (raced[f] => raced'[f])
  BY <1>4 DEF LooksUp
<1>5. ASSUME NEW b \in Bridges, NEW i \in Lines, Loses(b, i)
      PROVE  UNCHANGED <<file, counted, cut, raced, grew>> /\ lost[f] \subseteq lost'[f]
  BY <1>5 DEF Loses, Counting
<1>6. ASSUME NEW b \in Bridges, Commits(b)
      PROVE  /\ UNCHANGED <<file, lost, grew, raced>> /\ cut[f] \subseteq cut'[f]
             /\ \A i \in Lines : counted'[f][i] \in Nat /\ counted[f][i] <= counted'[f][i]
  <2>1. UNCHANGED <<file, lost, grew, raced>> /\ cut[f] \subseteq cut'[f]
    BY <1>6 DEF Commits, Committing
  <2>2. \A i \in Lines : counted'[f][i] = counted[f][i] + 1 \/ counted'[f][i] = counted[f][i]
    BY <1>6, CommitCounts
  <2> QED BY <1>1, <2>1, <2>2
<1>7. ASSUME NEW b \in Bridges, Steps(b)
      PROVE  \/ UNCHANGED <<file, counted, cut, lost, grew, raced>> \/ LooksUp(b) \/ Commits(b)
             \/ \E i \in Lines : Loses(b, i)
  BY <1>7 DEF Steps, Leaves, Stats, Panics, Reads, Counts, Counting, LeavesOpen, Kept
<1>8. ASSUME NEW b \in Bridges, Steps(b)
      PROVE  forgot[f] => forgot'[f]
  BY <1>8 DEF Steps, Leaves, Stats, LooksUp, Panics, Reads, Counts, Loses, Counting, LeavesOpen,
              Commits, Committing, Kept, Remembers
<1>9. forgot[f] => forgot'[f]
  BY <1>8 DEF Evolves, Appends, Kept, Remembers
<1> QED BY <1>1, <1>2, <1>3, <1>4, <1>5, <1>6, <1>7, <1>9 DEF Evolves, Kept

LEMMA TypingSteps ==
    ASSUME Typing, [Next]_vars
    PROVE  Typing'
<1>1. Evolves /\ TypeOK'
  BY StepCases
<1>2. FilesKnown'
  BY <1>1, HandFacts DEF FilesKnown
<1>3. OneWriter'
  <2>1. CASE tx' = tx
    BY <2>1 DEF Typing, OneWriter
  <2>2. ASSUME NEW b \in Bridges, \A x \in Bridges \ {b} : tx'[x] = tx[x],
               tx'[b] = NoChanges \/ tx'[b] = tx[b] \/ ~Locked(b)
        PROVE  OneWriter'
    BY <2>2 DEF Typing, OneWriter, Locked
  <2>3. ASSUME NEW b \in Bridges, Steps(b)
        PROVE  \/ tx' = tx
               \/ /\ \A x \in Bridges \ {b} : tx'[x] = tx[x]
                  /\ tx'[b] = NoChanges \/ tx'[b] = tx[b] \/ ~Locked(b)
    BY <2>3 DEF Steps, Leaves, Stats, LooksUp, Panics, Reads, Counts, Loses, Counting, LeavesOpen,
                Commits, Committing, OnlyMoves
  <2> QED BY <1>1, <2>1, <2>2, <2>3 DEF Evolves, Appends
<1> QED BY <1>1, <1>2, <1>3 DEF Typing
-------------------------------------------------------------------------------
(* Offsets inside characters.                                               *)

(* The offsets a bridge will store or resume from, and the stored ones. *)
Held(f, o) ==
    \/ o = offsets[f]
    \/ \E b \in Bridges : \E move \in tx[b].moves : move[1] = f /\ move[2] = o
    \/ \E b \in Bridges : /\ refresh[b].at \in {"read", "count", "panicked"} /\ refresh[b].f = f
                         /\ refresh[b].from = o
    \/ \E b \in Bridges : At(b, "count") /\ refresh[b].f = f /\ refresh[b].size = o

(* They are no more than their file's size, and a refresh goes forward. *)
Sizes ==
    /\ \A f \in Files, o \in 0..(2 * MaxEvents) : Held(f, o) => o <= file[f].size
    /\ \A b \in Bridges :
          /\ refresh[b].at \in {"lookup", "read"} => refresh[b].size <= file[refresh[b].f].size
          /\ refresh[b].at \in {"read", "count", "panicked"} => refresh[b].from < refresh[b].size

(* A line completed while a bridge holds an older size has been noted. *)
GrowthNoted ==
    \A b \in Bridges : refresh[b].at \in {"lookup", "read"} =>
        \A i \in Lines :
            refresh[b].size < 2 * i /\ 2 * i <= file[refresh[b].f].size => i \in grew[refresh[b].f]

(* An offset inside a character comes from a size that was outgrown before   *)
(* the read.                                                                *)
SplitsNoted ==
    \A f \in Files, o \in 0..(2 * MaxEvents) :
        Held(f, o) /\ SplitsChar(f, o) => LineAt(o) \in grew[f]

Outgrown == Typing /\ Sizes /\ GrowthNoted /\ SplitsNoted /\ PanicsOnlyIfGrew

LEMMA RefreshFacts ==
    ASSUME TypeOK, NEW b \in Bridges
    PROVE  /\ refresh[b].size \in 0..(2 * MaxEvents) /\ refresh[b].from \in 0..(2 * MaxEvents)
           /\ refresh[b].rest \subseteq Lines
           /\ \A move \in tx[b].moves : move[1] \in Files /\ move[2] \in 0..(2 * MaxEvents)
           /\ \A line \in tx[b].lines : line[1] \in Files /\ line[2] \in Lines
                                        /\ line = <<line[1], line[2]>>
<1>1. /\ refresh[b] \in RefreshType /\ tx[b] \in TxType
  BY DEF TypeOK, RefreshType, TxType
<1> QED BY <1>1 DEF RefreshType, TxType

(* Every offset in hand was in hand before, or is the size of a file read. *)
LEMMA HeldFacts ==
    ASSUME Typing, Evolves, TypeOK', NEW f \in Files, NEW o, Held(f, o)'
    PROVE  \/ Held(f, o) \/ o = 0
           \/ \E b \in Bridges : Reads(b) /\ refresh[b].f = f /\ refresh[b].size = o
<1>1. ASSUME o = offsets'[f] PROVE Held(f, o)
  <2>1. ASSUME NEW b \in Bridges, Commits(b)
        PROVE  offsets'[f] = offsets[f] \/ \E move \in Moving(b) : move[1] = f /\ move[2] = offsets'[f]
    BY <2>1 DEF Commits
  <2>2. ASSUME NEW b \in Bridges, Commits(b), NEW move \in Moving(b), move[1] = f, move[2] = o
        PROVE  Held(f, o)
    <3>1. CASE move \in tx[b].moves
      BY <2>2, <3>1 DEF Held
    <3>2. CASE move = <<refresh[b].f, refresh[b].size>>
      BY <2>2, <3>2 DEF Held, Commits, Committing, At
    <3> QED BY <2>2, <3>1, <3>2 DEF Moving
  <2>3. ASSUME NEW b \in Bridges, Steps(b)
        PROVE  offsets' = offsets \/ Commits(b)
    BY <2>3 DEF Steps, Leaves, Stats, LooksUp, Panics, Reads, Counts, Loses, Counting, LeavesOpen, Kept
  <2>4. offsets'[f] = offsets[f] => Held(f, o)
    BY <1>1 DEF Held
  <2> QED BY <1>1, <2>1, <2>2, <2>3, <2>4 DEF Evolves, Appends, Kept
<1>2. ASSUME NEW b \in Bridges, NEW move \in tx'[b].moves, move[1] = f, move[2] = o
      PROVE  Held(f, o)
  <2>1. CASE move \in tx[b].moves
    BY <1>2, <2>1 DEF Held
  <2>2. CASE LeavesOpen(b)
    <3>1. move \in tx[b].moves \/ move = <<refresh[b].f, refresh[b].size>>
      BY <1>2, <2>2 DEF LeavesOpen, Moving
    <3>2. refresh[b].at = "count"
      BY <2>2 DEF LeavesOpen, Committing
    <3> QED BY <1>2, <2>1, <3>1, <3>2 DEF Held, At
  <2> QED BY <1>2, <2>1, <2>2, HandFacts
<1>3. ASSUME NEW b \in Bridges, refresh'[b].at \in {"read", "count", "panicked"},
             refresh'[b].f = f, refresh'[b].from = o
      PROVE  Held(f, o) \/ o = 0
  <2>1. refresh[b].f = f
    BY <1>3, HandFacts DEF SameFile
  <2>2. CASE refresh[b].at \in {"read", "count", "panicked"} /\ refresh'[b].from = refresh[b].from
    BY <1>3, <2>1, <2>2 DEF Held
  <2>3. CASE LooksUp(b)
    BY <1>3, <2>1, <2>3 DEF Held, LooksUp
  <2> QED BY <1>3, <2>2, <2>3, HandFacts
<1>4. ASSUME NEW b \in Bridges, At(b, "count")', refresh'[b].f = f, refresh'[b].size = o
      PROVE  \/ Held(f, o)
             \/ Reads(b) /\ refresh[b].f = f /\ refresh[b].size = o
  <2>1. refresh'[b].at = "count" /\ refresh[b].f = f /\ refresh[b].size = o
    BY <1>4, HandFacts DEF SameFile, At
  <2>2. refresh[b].at = "count" \/ Reads(b)
    BY <2>1, HandFacts
  <2> QED BY <2>1, <2>2 DEF Held, At
<1> QED BY <1>1, <1>2, <1>3, <1>4 DEF Held

LEMMA OutgrownSteps ==
    ASSUME Outgrown, Evolves, Typing'
    PROVE  Outgrown'
<1> USE DEF Outgrown
<1>1. ASSUME NEW f \in Files
      PROVE  file[f].size \in Nat /\ file'[f].size \in Nat /\ file[f].size <= file'[f].size
  <2>1. file[f].size \in Nat /\ file[f].size <= file'[f].size
    BY Monotone, DomainFacts DEF Typing
  <2>2. file'[f].size \in 0..(2 * MaxEvents)
    BY DEF Typing, TypeOK
  <2> QED BY <2>1, <2>2, BoundsAssumption
<1>2. Sizes'
  <2>1. ASSUME NEW f \in Files, NEW o \in 0..(2 * MaxEvents), Held(f, o)'
        PROVE  o <= file'[f].size
    <3>1. CASE Held(f, o)
      <4>1. o <= file[f].size
        BY <3>1 DEF Sizes
      <4> QED BY <1>1, <4>1, BoundsAssumption
    <3>2. ASSUME NEW b \in Bridges, Reads(b), refresh[b].f = f, refresh[b].size = o
          PROVE  o <= file'[f].size
      <4>1. o <= file[f].size
        BY <3>2 DEF Sizes, Reads
      <4> QED BY <1>1, <4>1, BoundsAssumption
    <3>3. CASE o = 0
      BY <1>1, <3>3
    <3> QED BY <2>1, <3>1, <3>2, <3>3, HeldFacts DEF Typing
  <2>2. ASSUME NEW b \in Bridges, refresh'[b].at \in {"lookup", "read"}
        PROVE  refresh'[b].size <= file'[refresh'[b].f].size
    <3>1. CASE Stats(b)
      BY <1>1, <3>1 DEF Stats, Kept
    <3>2. CASE SameFile(b) /\ refresh[b].at \in {"lookup", "read"}
      <4>1. refresh[b].f \in Files /\ refresh[b].size \in Nat
        BY <3>2, RefreshFacts, BoundsAssumption DEF Typing, FilesKnown, Busy
      <4>2. refresh[b].size <= file[refresh[b].f].size
        BY <3>2 DEF Sizes
      <4> QED BY <1>1, <3>2, <4>1, <4>2 DEF SameFile
    <3> QED BY <2>2, <3>1, <3>2, HandFacts
  <2>3. ASSUME NEW b \in Bridges, refresh'[b].at \in {"read", "count", "panicked"}
        PROVE  refresh'[b].from < refresh'[b].size
    <3>1. CASE refresh[b].at \in {"read", "count", "panicked"} /\ refresh'[b].from = refresh[b].from
      BY <2>3, <3>1, HandFacts DEF Sizes, SameFile
    <3>2. CASE LooksUp(b)
      BY <3>2 DEF LooksUp, SameFile
    <3> QED BY <2>3, <3>1, <3>2, HandFacts
  <2> QED BY <2>1, <2>2, <2>3 DEF Sizes
<1>3. GrowthNoted'
  <2> SUFFICES ASSUME NEW b \in Bridges, refresh'[b].at \in {"lookup", "read"}, NEW i \in Lines,
                      refresh'[b].size < 2 * i, 2 * i <= file'[refresh'[b].f].size
               PROVE  i \in grew'[refresh'[b].f]
    BY DEF GrowthNoted
  <2>1. CASE Stats(b)
    <3>1. refresh'[b].size = file'[refresh'[b].f].size /\ refresh'[b].f \in Files
      BY <2>1 DEF Stats, Kept
    <3> QED BY <1>1, <3>1 DEF Lines
  <2>2. CASE SameFile(b) /\ refresh[b].at \in {"lookup", "read"}
    <3> DEFINE f == refresh[b].f
    <3>1. f \in Files /\ refresh'[b].f = f /\ refresh'[b].size = refresh[b].size
      BY <2>2 DEF Typing, FilesKnown, Busy, SameFile
    <3>2. CASE 2 * i <= file[f].size
      BY <2>2, <3>1, <3>2, Monotone DEF GrowthNoted
    <3>3. CASE ~(2 * i <= file[f].size)
      <4>1. file[f].size < 2 * i /\ file'[f].size # file[f].size
        BY <1>1, <3>1, <3>3 DEF Lines
      <4>2. Appends
        BY <3>1, <4>1 DEF Evolves, Kept, Steps, Leaves, Stats, LooksUp, Panics, Reads, Counts, Loses,
                          Counting, LeavesOpen, Commits, Committing
      <4>3. SizeInHand(f)
        BY <2>2 DEF SizeInHand
      <4> QED BY <3>1, <4>1, <4>2, <4>3 DEF Appends
    <3> QED BY <3>2, <3>3
  <2> QED BY <2>1, <2>2, HandFacts
<1>4. SplitsNoted'
  <2> SUFFICES ASSUME NEW f \in Files, NEW o \in 0..(2 * MaxEvents), Held(f, o)', SplitsChar(f, o)'
               PROVE  LineAt(o) \in grew'[f]
    BY DEF SplitsNoted, SplitsChar, CutsLine, LineAt
  <2>1. ASSUME o <= file[f].size
        PROVE  LineAt(o) \in DOMAIN file[f].events /\ SplitsChar(f, o)
    <3> DEFINE n == Len(file[f].events)
    <3>1. CutsLine(o) /\ file'[f].events[LineAt(o)] = "wide"
      BY DEF SplitsChar, CutsLine, LineAt
    <3>2. o \in Nat /\ o = 2 * LineAt(o) - 1 /\ LineAt(o) \in Nat \ {0}
      BY <3>1, LineAtFacts, BoundsAssumption
    <3>3. n \in Nat /\ file[f].size \in {2 * n, 2 * n - 1} /\ DOMAIN file[f].events = 1..n
      BY DomainFacts DEF Typing
    <3> HIDE DEF n
    <3>4. LineAt(o) <= n
      BY <2>1, <3>2, <3>3
    <3>5. LineAt(o) \in DOMAIN file[f].events
      BY <3>2, <3>3, <3>4
    <3> QED BY <3>1, <3>5, Monotone DEF SplitsChar
  <2>2. CASE Held(f, o)
    <3>1. SplitsChar(f, o)
      BY <2>1, <2>2 DEF Sizes
    <3>2. LineAt(o) \in grew[f]
      BY <2>2, <3>1 DEF SplitsNoted
    <3> QED BY <3>2, Monotone
  <2>3. ASSUME NEW b \in Bridges, Reads(b), refresh[b].f = f, refresh[b].size = o
        PROVE  LineAt(o) \in grew'[f]
    <3>1. refresh[b].at = "read" /\ ~SplitsChar(f, file[f].size) /\ o <= file[f].size
      BY <2>3 DEF Reads, Sizes
    <3>2. SplitsChar(f, o) /\ CutsLine(o) /\ LineAt(o) \in DOMAIN file[f].events
      BY <2>1, <3>1 DEF SplitsChar
    <3>3. o # file[f].size
      BY <3>1, <3>2
    <3>4. o = 2 * LineAt(o) - 1 /\ LineAt(o) \in Nat \ {0} /\ o \in Nat
      BY <3>2, LineAtFacts, BoundsAssumption
    <3>5. o < 2 * LineAt(o) /\ 2 * LineAt(o) <= file[f].size
      BY <1>1, <3>1, <3>3, <3>4
    <3>6. LineAt(o) \in Lines
      BY <3>2, DomainFacts DEF Typing
    <3>7. LineAt(o) \in grew[f]
      BY <2>3, <3>1, <3>5, <3>6 DEF GrowthNoted
    <3> QED BY <3>7, Monotone
  <2>4. CASE o = 0
    BY <2>4 DEF SplitsChar, CutsLine
  <2> QED BY <2>2, <2>3, <2>4, HeldFacts DEF Typing
<1>5. PanicsOnlyIfGrew'
  <2> SUFFICES ASSUME NEW b \in Bridges, refresh'[b].at = "panicked"
               PROVE  LineAt(refresh'[b].from) \in grew'[refresh'[b].f]
    BY DEF PanicsOnlyIfGrew, At, LineAt
  <2>1. /\ refresh'[b].f = refresh[b].f /\ refresh[b].f \in Files /\ refresh'[b].from = refresh[b].from
        /\ refresh[b].from \in 0..(2 * MaxEvents)
        /\ refresh[b].at = "panicked" \/ Panics(b)
    BY HandFacts, RefreshFacts DEF SameFile, Panics, LooksUp, Typing, FilesKnown, Busy
  <2>2. LineAt(refresh[b].from) \in grew[refresh[b].f]
    <3>1. CASE refresh[b].at = "panicked"
      BY <3>1 DEF PanicsOnlyIfGrew, At
    <3>2. CASE Panics(b)
      <4>1. Held(refresh[b].f, refresh[b].from) /\ SplitsChar(refresh[b].f, refresh[b].from)
        BY <3>2 DEF Held, Panics
      <4> QED BY <2>1, <4>1 DEF SplitsNoted
    <3> QED BY <2>1, <3>1, <3>2
  <2> QED BY <2>1, <2>2, Monotone
<1> QED BY <1>2, <1>3, <1>4, <1>5

(* Nothing is in hand at first, and nothing noted. *)
LEMMA InitFacts ==
    ASSUME Init
    PROVE  /\ \A b \in Bridges : refresh[b] = Sleeping /\ refresh[b].at = "sleep" /\ tx[b] = NoChanges
           /\ \A f \in Files : file[f].events = <<>> /\ file[f].size = 0 /\ offsets[f] = 0
           /\ \A f \in Files, i \in Lines : counted[f][i] = 0
<1>1. \A b \in Bridges : refresh[b] = Sleeping /\ tx[b] = NoChanges
  BY DEF Init
<1>2. Sleeping.at = "sleep"
  BY DEF Sleeping
<1> QED BY <1>1, <1>2 DEF Init

LEMMA TypingInit == Init => Typing
<1> SUFFICES ASSUME Init PROVE Typing
  OBVIOUS
<1>1. 2 * MaxEvents \in Nat /\ 0 \in 0..(2 * MaxEvents) /\ 0 \in 0..MaxFaults /\ MaxEvents \in Nat
  BY BoundsAssumption
<1>2. file \in [Files -> [events : Seq(Kinds), size : 0..(2 * MaxEvents)]]
  <2>1. [events |-> <<>>, size |-> 0] \in [events : Seq(Kinds), size : 0..(2 * MaxEvents)]
    BY <1>1
  <2> QED BY <2>1 DEF Init
<1>3. \A f \in Files :
          /\ Len(file[f].events) <= MaxEvents
          /\ file[f].size \in {2 * Len(file[f].events), 2 * Len(file[f].events) - 1}
  BY <1>1, InitFacts
<1>4. counted \in [Files -> [Lines -> Nat]] /\ offsets \in [Files -> 0..(2 * MaxEvents)]
  BY <1>1 DEF Init
<1>5. refresh \in [Bridges -> RefreshType] /\ tx \in [Bridges -> TxType]
  BY SleepingTyped DEF Init
<1>6. /\ {cut, lost, grew} \subseteq [Files -> SUBSET Lines] /\ {raced, forgot} \subseteq [Files -> BOOLEAN]
      /\ there \in Deployments /\ faults \in 0..MaxFaults
  BY <1>1 DEF Init
<1>7. TypeOK
  BY <1>2, <1>3, <1>4, <1>5, <1>6 DEF TypeOK, RefreshType, TxType
<1>8. FilesKnown /\ OneWriter
  BY InitFacts DEF FilesKnown, Busy, OneWriter
<1> QED BY <1>7, <1>8 DEF Typing

LEMMA OutgrownInit == Init => Outgrown
<1> SUFFICES ASSUME Init PROVE Outgrown
  OBVIOUS
<1>1. ASSUME NEW f \in Files, NEW o \in 0..(2 * MaxEvents), Held(f, o)
      PROVE  o = 0
  BY <1>1, InitFacts DEF Held, At, NoChanges
<1>2. Sizes
  BY <1>1, InitFacts DEF Sizes
<1>3. SplitsNoted
  <2>1. ~CutsLine(0)
    BY DEF CutsLine
  <2> QED BY <1>1, <2>1 DEF SplitsNoted, SplitsChar
<1>4. GrowthNoted /\ PanicsOnlyIfGrew
  BY InitFacts DEF GrowthNoted, PanicsOnlyIfGrew, At
<1> QED BY <1>2, <1>3, <1>4, TypingInit DEF Outgrown

(* EventIngest's types, and the panics.                                     *)
LEMMA OutgrownInvariant == Spec => []Outgrown
<1>1. Init => Outgrown
  BY OutgrownInit
<1>2. Outgrown /\ [Next]_vars => Outgrown'
  BY TypingSteps, StepCases, OutgrownSteps DEF Outgrown
<1> QED BY <1>1, <1>2, PTL DEF Spec
-------------------------------------------------------------------------------
(* Lines that an offset passed.                                             *)

(* A line counted, cut or lost. *)
Passed(f, i) == counted[f][i] > 0 \/ i \in cut[f] \/ i \in lost[f]

(* So is every line before an offset, or it is among those still to come. *)
Up(f, offset) == \A i \in Lines : 2 * i <= offset => Passed(f, i)

UpBut(f, offset, b) == \A i \in Lines : 2 * i <= offset => Passed(f, i) \/ <<f, i>> \in tx[b].lines

CutNoted(f, offset) == CutsLine(offset) => LineAt(offset) \in cut[f]

AllPassed ==
    /\ \A f \in Files : Up(f, offsets[f]) /\ CutNoted(f, offsets[f])
    /\ \A b \in Bridges : \A move \in tx[b].moves : UpBut(move[1], move[2], b)
    /\ \A b \in Bridges : refresh[b].at \in {"read", "count"} =>
          Up(refresh[b].f, refresh[b].from) /\ CutNoted(refresh[b].f, refresh[b].from)
    /\ \A b \in Bridges : refresh[b].at = "count" =>
          \A i \in Lines : 2 * i <= refresh[b].size =>
              \/ Passed(refresh[b].f, i) \/ <<refresh[b].f, i>> \in tx[b].lines
              \/ i \in refresh[b].rest

(* Whose records a step changes, and what becomes of a bridge that counts.   *)
LEMMA WhoMoves ==
    ASSUME NEW x \in Bridges, Steps(x)
    PROVE  /\ \A b \in Bridges \ {x} : refresh'[b] = refresh[b] /\ tx'[b] = tx[b]
           /\ \/ tx' = tx \/ Leaves(x) \/ LeavesOpen(x) \/ Commits(x)
              \/ \E i \in Lines : Counts(x, i)
           /\ refresh[x].at = "count" =>
                 \/ refresh'[x].at # "count" /\ (tx'[x] = NoChanges \/ LeavesOpen(x))
                 \/ \E i \in Lines : Counts(x, i) \/ Loses(x, i)
<1>1. CASE Leaves(x)
  BY <1>1 DEF Leaves, OnlyMoves, At
<1>2. CASE Stats(x) \/ LooksUp(x) \/ Panics(x) \/ Reads(x)
  BY <1>2 DEF Stats, LooksUp, Panics, Reads, OnlyMoves
<1>3. ASSUME NEW i \in Lines, Counts(x, i)
      PROVE  \A b \in Bridges \ {x} : refresh'[b] = refresh[b] /\ tx'[b] = tx[b]
  BY <1>3 DEF Counts, Counting
<1>4. ASSUME NEW i \in Lines, Loses(x, i)
      PROVE  /\ \A b \in Bridges \ {x} : refresh'[b] = refresh[b] /\ tx'[b] = tx[b]
             /\ tx' = tx
  BY <1>4 DEF Loses, Counting
<1>5. CASE LeavesOpen(x) \/ Commits(x)
  BY <1>5 DEF LeavesOpen, Commits, Committing, OnlyMoves
<1> QED BY <1>1, <1>2, <1>3, <1>4, <1>5 DEF Steps

LEMMA PassedStays ==
    ASSUME Typing, Evolves, NEW f \in Files, NEW i \in Lines, Passed(f, i)
    PROVE  Passed(f, i)'
BY Monotone DEF Passed

(* What a bridge was about to commit in f, it still is, or has committed, or  *)
(* it has left the file and forgotten the offset too.                       *)
LEMMA PendingStays ==
    ASSUME Typing, Evolves, NEW b \in Bridges, NEW f \in Files, NEW i \in Lines,
           <<f, i>> \in tx[b].lines
    PROVE  \/ <<f, i>> \in tx'[b].lines
           \/ Passed(f, i)'
           \/ tx'[b] = NoChanges /\ refresh'[b].at \in {"sleep", "stat"}
<1>1. CASE tx'[b] = tx[b]
  BY <1>1
<1>2. CASE Leaves(b)
  BY <1>2 DEF Leaves
<1>3. CASE LeavesOpen(b)
  BY <1>3 DEF LeavesOpen
<1>4. CASE Commits(b)
  BY <1>4 DEF Commits, Committing
<1>5. ASSUME NEW j \in Lines, Counts(b, j)
      PROVE  <<f, i>> \in tx'[b].lines
  BY <1>5 DEF Counts
<1>6. ASSUME NEW x \in Bridges, Steps(x), ~(tx'[b] = tx[b])
      PROVE  x = b /\ (Leaves(b) \/ LeavesOpen(b) \/ Commits(b) \/ \E j \in Lines : Counts(b, j))
  BY <1>6, WhoMoves
<1> QED BY <1>1, <1>2, <1>3, <1>4, <1>5, <1>6 DEF Evolves, Appends

LEMMA AllPassedSteps ==
    ASSUME Outgrown, Typing', AllPassed, Evolves
    PROVE  AllPassed'
<1>1. Typing
  BY DEF Outgrown
<1>2. ASSUME NEW f \in Files, NEW o, Up(f, o)
      PROVE  Up(f, o)'
  BY <1>1, <1>2, PassedStays DEF Up
<1>3. ASSUME NEW f \in Files, NEW o, CutNoted(f, o)
      PROVE  CutNoted(f, o)'
  BY <1>1, <1>3, Monotone DEF CutNoted, CutsLine, LineAt
<1>4. ASSUME NEW f \in Files
      PROVE  Up(f, offsets[f])' /\ CutNoted(f, offsets[f])'
  <2>1. CASE offsets'[f] = offsets[f]
    <3>1. Up(f, offsets[f]) /\ CutNoted(f, offsets[f])
      BY DEF AllPassed
    <3>2. \A i \in Lines : Passed(f, i) => Passed(f, i)'
      BY <1>1, PassedStays
    <3>3. cut[f] \subseteq cut'[f]
      BY <1>1, Monotone
    <3> QED BY <2>1, <3>1, <3>2, <3>3 DEF Up, CutNoted, CutsLine, LineAt
  <2>2. ASSUME NEW b \in Bridges, Commits(b), NEW move \in Moving(b), move[1] = f,
               move[2] = offsets'[f]
        PROVE  Up(f, offsets[f])'
    <3> SUFFICES ASSUME NEW i \in Lines, 2 * i <= offsets'[f] PROVE Passed(f, i)'
      BY DEF Up
    <3>1. Passed(f, i) \/ <<f, i>> \in tx[b].lines
      <4>1. CASE move \in tx[b].moves
        BY <2>2, <4>1 DEF AllPassed, UpBut
      <4>2. CASE move = <<refresh[b].f, refresh[b].size>>
        BY <2>2, <4>2 DEF AllPassed, Commits, Committing
      <4> QED BY <2>2, <4>1, <4>2 DEF Moving
    <3>2. CASE Passed(f, i)
      BY <1>1, <3>2, PassedStays
    <3>3. CASE <<f, i>> \in tx[b].lines
      <4>1. counted'[f][i] = counted[f][i] + 1 /\ counted[f][i] \in Nat
        BY <1>1, <2>2, <3>3, Monotone DEF Commits
      <4> QED BY <4>1 DEF Passed
    <3> QED BY <3>1, <3>2, <3>3
  <2>3. ASSUME NEW b \in Bridges, Commits(b), ~(offsets'[f] = offsets[f])
        PROVE  /\ \E move \in Moving(b) : move[1] = f /\ move[2] = offsets'[f]
               /\ CutNoted(f, offsets[f])'
    BY <2>3 DEF Commits, CutNoted, CutsLine, LineAt
  <2>4. ASSUME NEW b \in Bridges, Steps(b)
        PROVE  offsets' = offsets \/ Commits(b)
    BY <2>4 DEF Steps, Leaves, Stats, LooksUp, Panics, Reads, Counts, Loses, Counting, LeavesOpen, Kept
  <2> QED BY <2>1, <2>2, <2>3, <2>4 DEF Evolves, Appends, Kept
<1>5. ASSUME NEW b \in Bridges, NEW move \in tx'[b].moves
      PROVE  UpBut(move[1], move[2], b)'
  <2>1. move[1] \in Files
    BY <1>5, RefreshFacts DEF Typing, TypeOK
  <2> SUFFICES ASSUME NEW i \in Lines, 2 * i <= move[2]
               PROVE  Passed(move[1], i)' \/ <<move[1], i>> \in tx'[b].lines
    BY DEF UpBut
  <2>2. Passed(move[1], i) \/ <<move[1], i>> \in tx[b].lines
    <3>1. CASE move \in tx[b].moves
      BY <3>1 DEF AllPassed, UpBut
    <3>2. CASE LeavesOpen(b) /\ move = <<refresh[b].f, refresh[b].size>>
      BY <3>2 DEF AllPassed, LeavesOpen, Committing
    <3>3. LeavesOpen(b) => tx'[b].moves \subseteq tx[b].moves \cup {<<refresh[b].f, refresh[b].size>>}
      BY DEF LeavesOpen, Moving
    <3> QED BY <1>1, <1>5, <3>1, <3>2, <3>3, HandFacts
  <2>3. tx'[b] # NoChanges
    BY <1>5 DEF NoChanges
  <2> QED BY <1>1, <2>1, <2>2, <2>3, PassedStays, PendingStays
<1>6. ASSUME NEW b \in Bridges, refresh'[b].at \in {"read", "count"}
      PROVE  Up(refresh[b].f, refresh[b].from)' /\ CutNoted(refresh[b].f, refresh[b].from)'
  <2> DEFINE f == refresh[b].f
             o == refresh'[b].from
  <2>1. f \in Files /\ refresh'[b].f = f
    BY <1>1, <1>6, HandFacts DEF SameFile, Typing, FilesKnown, Busy
  <2>2. Up(f, o) /\ CutNoted(f, o)
    <3>1. CASE LooksUp(b)
      <4>1. Up(f, 0) /\ CutNoted(f, 0)
        BY DEF Up, CutNoted, CutsLine, Lines
      <4> QED BY <2>1, <3>1, <4>1 DEF AllPassed, LooksUp
    <3>2. CASE refresh[b].at \in {"read", "count"} /\ refresh'[b].from = refresh[b].from
      BY <3>2 DEF AllPassed
    <3>3. refresh[b].at # "panicked" \/ LooksUp(b)
      BY <1>1, <1>6, HandFacts DEF Reads
    <3> QED BY <1>1, <1>6, <3>1, <3>2, <3>3, HandFacts
  <2>3. /\ \A i \in Lines : Passed(f, i) => Passed(f, i)'
        /\ cut[f] \subseteq cut'[f]
    BY <1>1, <2>1, PassedStays, Monotone
  <2>4. refresh'[b].f = f
    BY <2>1
  <2> QED BY <2>2, <2>3, <2>4 DEF Up, CutNoted, CutsLine, LineAt, Passed
<1>7. ASSUME NEW b \in Bridges, refresh'[b].at = "count", NEW i \in Lines,
             2 * i <= refresh'[b].size
      PROVE  \/ Passed(refresh[b].f, i)' \/ <<refresh'[b].f, i>> \in tx'[b].lines
             \/ i \in refresh'[b].rest
  <2> DEFINE f == refresh[b].f
  <2>1. f \in Files /\ refresh'[b].f = f /\ refresh'[b].size = refresh[b].size
    BY <1>1, <1>7, HandFacts DEF SameFile, Typing, FilesKnown, Busy
  <2>2. CASE refresh[b].at = "count"
    <3>1. Passed(f, i) \/ <<f, i>> \in tx[b].lines \/ i \in refresh[b].rest
      BY <1>7, <2>1, <2>2 DEF AllPassed
    <3>2. ASSUME i \in refresh[b].rest, i \notin refresh'[b].rest
          PROVE  <<f, i>> \in tx'[b].lines \/ Passed(f, i)'
      <4>1. ASSUME NEW j \in Lines, Counts(b, j)
            PROVE  <<f, i>> \in tx'[b].lines
        BY <3>2, <4>1 DEF Counts, Counting
      <4>2. ASSUME NEW j \in Lines, Loses(b, j)
            PROVE  i \in lost'[f]
        BY <2>1, <3>2, <4>2 DEF Loses, Counting
      <4>3. ASSUME NEW x \in Bridges, Steps(x)
            PROVE  x = b /\ \E j \in Lines : Counts(b, j) \/ Loses(b, j)
        BY <1>7, <2>2, <3>2, <4>3, WhoMoves
      <4>4. refresh' # refresh
        BY <3>2
      <4>5. PICK x \in Bridges : Steps(x)
        BY <4>4 DEF Evolves, Appends
      <4>6. PICK j \in Lines : Counts(b, j) \/ Loses(b, j)
        BY <4>3, <4>5
      <4> QED BY <2>1, <4>1, <4>2, <4>6 DEF Passed
    <3> QED BY <1>1, <1>7, <2>1, <3>1, <3>2, PassedStays, PendingStays
  <2>3. CASE Reads(b)
    <3>1. /\ refresh[b].at = "read" /\ refresh'[b].rest = ParsedLines(f, refresh[b].from)
          /\ tx' = tx
      BY <2>3 DEF Reads
    <3>2. i \in Nat \ {0} /\ refresh[b].size <= file[f].size /\ refresh[b].size \in Nat
      BY <1>1, <3>1, RefreshFacts, BoundsAssumption DEF Outgrown, Sizes, Typing, Lines
    <3>3. i \in DOMAIN file[f].events /\ 2 * i <= file[f].size
      <4> DEFINE n == Len(file[f].events)
      <4>1. n \in Nat /\ file[f].size \in {2 * n, 2 * n - 1} /\ DOMAIN file[f].events = 1..n
        BY <1>1, <2>1, DomainFacts DEF Typing
      <4> HIDE DEF n
      <4> QED BY <1>7, <2>1, <3>2, <4>1
    <3>4. refresh[b].from \in Nat
      BY <1>1, RefreshFacts, BoundsAssumption DEF Typing
    <3>5. CASE refresh[b].from <= 2 * i - 2
      BY <3>1, <3>3, <3>5 DEF ParsedLines
    <3>6. CASE refresh[b].from = 2 * i - 1
      <4>1. CutsLine(refresh[b].from) /\ LineAt(refresh[b].from) = i
        BY <3>2, <3>6, LineAtFacts
      <4>2. Passed(f, i)
        BY <3>1, <4>1 DEF AllPassed, CutNoted, Passed
      <4> QED BY <1>1, <2>1, <4>2, PassedStays
    <3>7. CASE 2 * i <= refresh[b].from
      <4>1. Passed(f, i)
        BY <3>1, <3>7 DEF AllPassed, Up
      <4> QED BY <1>1, <2>1, <4>1, PassedStays
    <3> QED BY <3>2, <3>4, <3>5, <3>6, <3>7
  <2> QED BY <1>1, <1>7, <2>2, <2>3, HandFacts
<1> QED BY <1>4, <1>5, <1>6, <1>7 DEF AllPassed

LEMMA AllPassedInit == Init => AllPassed
<1> SUFFICES ASSUME Init PROVE AllPassed
  OBVIOUS
<1>1. \A f \in Files, i \in Lines : ~(2 * i <= offsets[f])
  BY InitFacts DEF Lines
<1>2. \A f \in Files : ~CutsLine(offsets[f])
  BY InitFacts DEF CutsLine
<1> QED BY <1>1, <1>2, InitFacts DEF AllPassed, Up, CutNoted, NoChanges

LEMMA AllPassedInvariant == Spec => []AllPassed
<1>1. Init => AllPassed
  BY AllPassedInit
<1>2. Outgrown /\ Outgrown' /\ AllPassed /\ [Next]_vars => AllPassed'
  BY StepCases, AllPassedSteps DEF Outgrown
<1> QED BY <1>1, <1>2, OutgrownInvariant, PTL DEF Spec
-------------------------------------------------------------------------------
(* Lines that are counted once.                                             *)

(* A file whose offset two bridges never had in hand at once. *)
Alone ==
    \A f \in Files : raced[f] \/ \A b1, b2 \in Bridges : InHand(b1, f) /\ InHand(b2, f) => b1 = b2

(* A file whose lines may be counted again. *)
Repeats(f) == raced[f] \/ forgot[f]

(* What was counted lies before the offset, *)
Before(f, offset) ==
    Repeats(f) \/ \A i \in Lines : counted[f][i] > 0 => i \in grew[f] \/ 2 * i <= offset

CountedBefore ==
    /\ \A f \in Files : Before(f, offsets[f])
    /\ \A b \in Bridges : \A move \in tx[b].moves : Before(move[1], move[2])
    /\ \A b \in Bridges : refresh[b].at \in {"read", "count"} => Before(refresh[b].f, refresh[b].from)

(* and what will be counted was not counted yet, *)
Fresh(f, i) == counted[f][i] = 0 \/ i \in grew[f] \/ Repeats(f)

(* and lies before an offset that will be stored with it.                    *)
WillPass(b, f, i) ==
    \/ i \in grew[f] \/ Repeats(f)
    \/ refresh[b].at = "count" /\ refresh[b].f = f /\ 2 * i <= refresh[b].size
    \/ \E move \in tx[b].moves : move[1] = f /\ 2 * i <= move[2]

CountedOnce ==
    /\ \A b \in Bridges : refresh[b].at = "count" =>
          \A i \in refresh[b].rest :
              /\ refresh[b].from <= 2 * i - 2
              /\ i \in grew[refresh[b].f] \/ 2 * i <= refresh[b].size
    /\ \A b \in Bridges, f \in Files, i \in Lines :
          <<f, i>> \in tx[b].lines => Fresh(f, i) /\ WillPass(b, f, i)
    /\ RepeatedOnlyIfExplained

Once == Alone /\ CountedBefore /\ CountedOnce

LEMMA AloneSteps ==
    ASSUME Outgrown, Typing', Alone, Evolves
    PROVE  Alone'
<1>1. Typing
  BY DEF Outgrown
<1> SUFFICES ASSUME NEW f \in Files, ~raced'[f], NEW b1 \in Bridges, NEW b2 \in Bridges,
                    InHand(b1, f)', InHand(b2, f)', b1 # b2
             PROVE  FALSE
  BY DEF Alone
<1>2. ~raced[f]
  BY <1>1, Monotone
<1>3. ASSUME NEW b \in Bridges, InHand(b, f)', ~InHand(b, f)
      PROVE  LooksUp(b) /\ refresh[b].f = f
  <2>1. CASE refresh'[b].f = f /\ refresh'[b].at \in {"read", "count"}
    <3>1. refresh[b].f = f
      BY <1>1, <2>1, HandFacts DEF SameFile
    <3>2. refresh[b].at \in {"read", "count"} \/ LooksUp(b)
      BY <1>1, <2>1, HandFacts DEF Reads
    <3> QED BY <1>3, <3>1, <3>2 DEF InHand
  <2>2. ASSUME NEW line \in tx'[b].lines, line[1] = f
        PROVE  FALSE
    <3>1. CASE tx'[b].lines \subseteq tx[b].lines
      BY <1>3, <2>2, <3>1 DEF InHand
    <3>2. ASSUME NEW i \in Lines, Counts(b, i)
          PROVE  FALSE
      BY <1>3, <2>2, <3>2 DEF InHand, Counts, Counting
    <3> QED BY <1>1, <3>1, <3>2, HandFacts
  <2> QED BY <1>3, <2>1, <2>2 DEF InHand
<1>4. ASSUME NEW b \in Bridges, LooksUp(b), refresh[b].f = f
      PROVE  \A other \in Bridges \ {b} : ~InHand(other, f) /\ ~InHand(other, f)'
  <2>1. \A other \in Bridges \ {b} : ~InHand(other, f)
    BY <1>4 DEF LooksUp
  <2>2. \A other \in Bridges \ {b} : refresh'[other] = refresh[other] /\ tx'[other] = tx[other]
    BY <1>4 DEF LooksUp, OnlyMoves
  <2> QED BY <2>1, <2>2 DEF InHand
<1>5. CASE InHand(b1, f) /\ InHand(b2, f)
  BY <1>2, <1>5 DEF Alone
<1> QED BY <1>3, <1>4, <1>5

(* What becomes of an offset that all that was counted lies before. *)
LEMMA BeforeStays ==
    ASSUME Outgrown, Evolves, NEW f \in Files, NEW o \in Nat, Before(f, o),
           \/ counted' = counted
           \/ Repeats(f)
           \/ \A b \in Bridges : Commits(b) => \A i \in Lines : <<f, i>> \notin tx[b].lines
    PROVE  Before(f, o)'
<1>1. Typing
  BY DEF Outgrown
<1>2. grew[f] \subseteq grew'[f] /\ (Repeats(f) => Repeats(f)')
  BY <1>1, Monotone DEF Repeats
<1>3. ASSUME NEW i \in Lines, ~Repeats(f)
      PROVE  counted'[f][i] = counted[f][i]
  <2>1. ASSUME NEW b \in Bridges, Commits(b)
        PROVE  counted'[f][i] = counted[f][i]
    BY <1>3, <2>1, CommitCounts
  <2>2. ASSUME NEW b \in Bridges, Steps(b)
        PROVE  counted' = counted \/ Commits(b)
    BY <2>2 DEF Steps, Leaves, Stats, LooksUp, Panics, Reads, Counts, Loses, Counting, LeavesOpen, Kept
  <2> QED BY <2>1, <2>2 DEF Evolves, Appends, Kept
<1> QED BY <1>2, <1>3 DEF Before

(* A commit by b passes what it counts. *)
LEMMA CommitPasses ==
    ASSUME Outgrown, Once, NEW b \in Bridges, Commits(b), Evolves, TypeOK', NEW f \in Files
    PROVE  Before(f, offsets[f])'
<1>1. Typing
  BY DEF Outgrown
<1>2. /\ grew' = grew /\ refresh[b].at = "count" /\ refresh[b].f \in Files
      /\ Repeats(f) => Repeats(f)'
  BY DEF Commits, Committing, Remembers, Repeats
<1>3. /\ offsets[f] \in Nat /\ offsets'[f] \in Nat /\ refresh[b].from \in Nat /\ refresh[b].size \in Nat
      /\ \A move \in Moving(b) : move[1] \in Files /\ move[2] \in Nat
  <2>1. 0..(2 * MaxEvents) \subseteq Nat
    BY BoundsAssumption
  <2>2. offsets[f] \in 0..(2 * MaxEvents) /\ offsets'[f] \in 0..(2 * MaxEvents)
    BY <1>1 DEF Typing, TypeOK
  <2>3. /\ refresh[b].from \in 0..(2 * MaxEvents) /\ refresh[b].size \in 0..(2 * MaxEvents)
        /\ \A move \in tx[b].moves : move[1] \in Files /\ move[2] \in 0..(2 * MaxEvents)
    BY <1>1, RefreshFacts DEF Typing
  <2> QED BY <1>2, <2>1, <2>2, <2>3 DEF Moving
<1>4. refresh[b].from < refresh[b].size
  BY <1>2 DEF Outgrown, Sizes
<1>5. Before(f, offsets'[f])
  <2>1. CASE offsets'[f] = offsets[f]
    BY <2>1 DEF Once, CountedBefore
  <2>2. ASSUME NEW move \in tx[b].moves, move[1] = f, move[2] = offsets'[f]
        PROVE  Before(f, offsets'[f])
    BY <2>2 DEF Once, CountedBefore
  <2>3. CASE f = refresh[b].f /\ refresh[b].size = offsets'[f]
    <3>1. Before(f, refresh[b].from)
      BY <1>2, <2>3 DEF Once, CountedBefore
    <3> QED BY <1>3, <1>4, <2>3, <3>1 DEF Before, Lines
  <2>4. \/ offsets'[f] = offsets[f]
        \/ \E move \in Moving(b) : move[1] = f /\ move[2] = offsets'[f]
    BY DEF Commits
  <2> QED BY <2>1, <2>2, <2>3, <2>4 DEF Moving
<1>6. ASSUME NEW i \in Lines, <<f, i>> \in tx[b].lines
      PROVE  i \in grew[f] \/ 2 * i <= offsets'[f] \/ Repeats(f)'
  <2>1. WillPass(b, f, i)
    BY <1>6 DEF Once, CountedOnce
  <2>2. ASSUME NEW move \in Moving(b), move[1] = f, 2 * i <= move[2]
        PROVE  2 * i <= offsets'[f] \/ Repeats(f)'
    <3>1. move[2] <= offsets'[f] \/ forgot'[f]
      BY <2>2 DEF Commits
    <3> QED BY <1>3, <2>2, <3>1 DEF Lines, Repeats
  <2>3. CASE refresh[b].f = f /\ 2 * i <= refresh[b].size
    <3>1. <<refresh[b].f, refresh[b].size>> \in Moving(b)
      BY DEF Moving
    <3> QED BY <2>2, <2>3, <3>1
  <2> QED BY <1>2, <2>1, <2>2, <2>3 DEF WillPass, Moving
<1>7. \A i \in Lines : counted'[f][i] > 0 => counted[f][i] > 0 \/ <<f, i>> \in tx[b].lines
  BY DEF Commits
<1> QED BY <1>2, <1>5, <1>6, <1>7 DEF Before

(* The counts change when a commit does. *)
LEMMA CountsKept ==
    ASSUME Evolves, \A b \in Bridges : ~Commits(b)
    PROVE  counted' = counted /\ offsets' = offsets
<1>1. ASSUME NEW b \in Bridges, Steps(b)
      PROVE  counted' = counted /\ offsets' = offsets
  BY <1>1 DEF Steps, Leaves, Stats, LooksUp, Panics, Reads, Counts, Loses, Counting, LeavesOpen, Kept
<1> QED BY <1>1 DEF Evolves, Appends, Kept

(* After one, no transaction is open. *)
LEMMA CommitCloses ==
    ASSUME Typing, NEW b \in Bridges, Commits(b), NEW x \in Bridges
    PROVE  tx'[x] = NoChanges
BY DEF Commits, Committing, Locked, OnlyMoves

LEMMA CountedBeforeSteps ==
    ASSUME Outgrown, Typing', Once, Evolves
    PROVE  CountedBefore'
<1>1. Typing /\ TypeOK'
  BY DEF Outgrown, Typing
<1>2. 0..(2 * MaxEvents) \subseteq Nat
  BY BoundsAssumption
<1>3. ASSUME NEW f \in Files
      PROVE  Before(f, offsets[f])'
  <2>1. CASE \E b \in Bridges : Commits(b)
    BY <1>1, <2>1, CommitPasses
  <2>2. CASE \A b \in Bridges : ~Commits(b)
    <3>1. Before(f, offsets[f]) /\ offsets[f] \in Nat
      BY <1>1, <1>2 DEF Once, CountedBefore, Typing, TypeOK
    <3>2. offsets'[f] = offsets[f] /\ counted' = counted
      BY <2>2, CountsKept
    <3>3. Before(f, offsets'[f]) /\ offsets'[f] \in Nat
      BY <3>1, <3>2
    <3> QED BY <1>1, <3>1, <3>2, Monotone DEF Before, Repeats
  <2> QED BY <2>1, <2>2
<1>4. ASSUME NEW b \in Bridges, NEW move \in tx'[b].moves
      PROVE  Before(move[1], move[2])'
  <2>1. \A x \in Bridges : ~Commits(x)
    BY <1>1, <1>4, CommitCloses DEF NoChanges
  <2>2. counted' = counted
    BY <2>1, CountsKept
  <2>3. move[1] \in Files /\ move[2] \in Nat
    BY <1>2, <1>4, RefreshFacts DEF Typing, TypeOK
  <2>4. Before(move[1], move[2])
    <3>1. CASE move \in tx[b].moves
      BY <3>1 DEF Once, CountedBefore
    <3>2. CASE LeavesOpen(b) /\ move = <<refresh[b].f, refresh[b].size>>
      <4>1. refresh[b].at = "count"
        BY <3>2 DEF LeavesOpen, Committing
      <4>2. /\ refresh[b].from < refresh[b].size /\ Before(refresh[b].f, refresh[b].from)
            /\ refresh[b].from \in Nat /\ refresh[b].size \in Nat
        BY <1>1, <1>2, <4>1, RefreshFacts DEF Outgrown, Sizes, Once, CountedBefore, Typing
      <4> QED BY <3>2, <4>2 DEF Before, Lines
    <3>3. LeavesOpen(b) => tx'[b].moves \subseteq tx[b].moves \cup {<<refresh[b].f, refresh[b].size>>}
      BY DEF LeavesOpen, Moving
    <3> QED BY <1>1, <1>4, <3>1, <3>2, <3>3, HandFacts
  <2> QED BY <2>2, <2>3, <2>4, BeforeStays
<1>5. ASSUME NEW b \in Bridges, refresh'[b].at \in {"read", "count"}
      PROVE  Before(refresh[b].f, refresh[b].from)'
  <2>1. /\ refresh'[b].f = refresh[b].f /\ refresh[b].f \in Files
        /\ refresh'[b].from \in Nat
    <3>1. refresh'[b].f = refresh[b].f /\ refresh'[b].f \in Files
      BY <1>1, <1>5, HandFacts DEF SameFile, Busy
    <3>2. refresh'[b].from \in 0..(2 * MaxEvents)
      BY <1>1 DEF TypeOK
    <3> QED BY <1>2, <3>1, <3>2
  <2>2. refresh[b].at \in {"read", "count"} \/ LooksUp(b)
    BY <1>1, <1>5, HandFacts DEF Reads
  <2>3. Before(refresh[b].f, refresh'[b].from) \/ Repeats(refresh[b].f)'
    <3>1. CASE LooksUp(b)
      BY <2>1, <3>1 DEF LooksUp, Once, CountedBefore, Repeats
    <3>2. CASE refresh[b].at \in {"read", "count"} /\ ~LooksUp(b)
      <4>1. refresh'[b].from = refresh[b].from
        BY <1>1, <1>5, <3>2, HandFacts
      <4> QED BY <3>2, <4>1 DEF Once, CountedBefore
    <3> QED BY <2>2, <3>1, <3>2
  <2>4. \/ counted' = counted
        \/ Repeats(refresh[b].f)
        \/ \A x \in Bridges : Commits(x) => \A i \in Lines : <<refresh[b].f, i>> \notin tx[x].lines
    <3> SUFFICES ASSUME NEW x \in Bridges, Commits(x), NEW i \in Lines,
                        <<refresh[b].f, i>> \in tx[x].lines
                 PROVE  Repeats(refresh[b].f)
      OBVIOUS
    <3>1. x # b
      BY <1>5 DEF Commits, Committing
    <3>2. refresh[b].at \in {"read", "count"}
      BY <1>5, <3>1 DEF Commits, Committing, OnlyMoves
    <3>3. InHand(b, refresh[b].f) /\ InHand(x, refresh[b].f)
      BY <3>2 DEF InHand
    <3> QED BY <2>1, <3>1, <3>3 DEF Once, Alone, Repeats
  <2>5. PICK f \in Files, o \in Nat : f = refresh[b].f /\ o = refresh'[b].from
    BY <2>1
  <2>6. Before(f, o)'
    <3>1. CASE Before(f, o)
      BY <2>4, <2>5, <3>1, BeforeStays
    <3>2. CASE Repeats(refresh[b].f)'
      BY <2>1, <2>5, <3>2 DEF Before, Repeats
    <3> QED BY <2>3, <2>5, <3>1, <3>2
  <2>7. refresh'[b].f = f /\ refresh'[b].from = o
    BY <2>1, <2>5
  <2> QED BY <2>6, <2>7 DEF Before
<1> QED BY <1>3, <1>4, <1>5 DEF CountedBefore

LEMMA CountedOnceSteps ==
    ASSUME Outgrown, Typing', Once, Evolves
    PROVE  CountedOnce'
<1>1. Typing
  BY DEF Outgrown
<1>2. 0..(2 * MaxEvents) \subseteq Nat
  BY BoundsAssumption
<1>3. ASSUME NEW b \in Bridges, refresh'[b].at = "count", NEW i \in refresh'[b].rest
      PROVE  /\ refresh'[b].from <= 2 * i - 2
             /\ i \in grew'[refresh'[b].f] \/ 2 * i <= refresh'[b].size
  <2>1. /\ refresh'[b].f = refresh[b].f /\ refresh[b].f \in Files
        /\ refresh'[b].size = refresh[b].size
    BY <1>1, <1>3, HandFacts DEF SameFile, Typing, FilesKnown, Busy
  <2>2. grew[refresh[b].f] \subseteq grew'[refresh[b].f]
    BY <1>1, <2>1, Monotone
  <2>3. CASE Reads(b)
    <3>1. /\ refresh[b].at = "read" /\ refresh'[b].from = refresh[b].from
          /\ i \in ParsedLines(refresh[b].f, refresh[b].from)
      BY <1>3, <2>3 DEF Reads
    <3>2. /\ i \in Lines /\ refresh[b].from <= 2 * i - 2 /\ 2 * i <= file[refresh[b].f].size
      BY <1>1, <2>1, <3>1, DomainFacts DEF ParsedLines, Typing
    <3>3. refresh[b].size \in Nat /\ i \in Nat
      BY <1>1, <1>2, <3>2, RefreshFacts DEF Typing, Lines
    <3>4. 2 * i <= refresh[b].size \/ i \in grew[refresh[b].f]
      BY <3>1, <3>2, <3>3 DEF Outgrown, GrowthNoted
    <3> QED BY <2>1, <2>2, <3>1, <3>2, <3>4
  <2>4. CASE ~Reads(b)
    <3>1. /\ refresh[b].at = "count" /\ i \in refresh[b].rest
      BY <1>1, <1>3, <2>4, HandFacts
    <3>2. refresh'[b].from = refresh[b].from
      BY <1>1, <1>3, <3>1, HandFacts DEF LooksUp
    <3> QED BY <2>1, <2>2, <3>1, <3>2 DEF Once, CountedOnce
  <2> QED BY <2>3, <2>4
<1>4. ASSUME NEW b \in Bridges, NEW f \in Files, NEW i \in Lines, <<f, i>> \in tx'[b].lines
      PROVE  Fresh(f, i)' /\ WillPass(b, f, i)'
  <2>1. \A x \in Bridges : ~Commits(x)
    BY <1>1, <1>4, CommitCloses DEF NoChanges
  <2>2. counted' = counted
    BY <2>1, CountsKept
  <2>3. grew[f] \subseteq grew'[f] /\ (Repeats(f) => Repeats(f)')
    BY <1>1, <2>2, Monotone DEF Repeats
  <2>4. Fresh(f, i) /\ (WillPass(b, f, i) \/ (Counts(b, i) /\ f = refresh[b].f))
    <3>1. CASE <<f, i>> \in tx[b].lines
      BY <3>1 DEF Once, CountedOnce
    <3>2. ASSUME Counts(b, i), f = refresh[b].f
          PROVE  Fresh(f, i)
      <4>1. refresh[b].at = "count" /\ i \in refresh[b].rest
        BY <3>2 DEF Counts, Counting
      <4>2. refresh[b].from <= 2 * i - 2 /\ Before(refresh[b].f, refresh[b].from)
        BY <4>1 DEF Once, CountedOnce, CountedBefore
      <4>3. refresh[b].from \in Nat
        BY <1>1, <1>2, RefreshFacts DEF Typing
      <4>4. counted[f][i] \in Nat
        BY <1>1, <2>2, Monotone
      <4> QED BY <3>2, <4>2, <4>3, <4>4 DEF Fresh, Before, Lines
    <3>3. \A j \in Lines :
              Counts(b, j) => <<f, i>> \in tx[b].lines \/ (f = refresh[b].f /\ i = j)
      BY <1>4 DEF Counts
    <3> QED BY <1>1, <1>4, <3>1, <3>2, <3>3, HandFacts
  <2>5. Fresh(f, i)'
    BY <2>2, <2>3, <2>4 DEF Fresh
  <2>6. ASSUME Counts(b, i), f = refresh[b].f
        PROVE  WillPass(b, f, i)'
    <3>1. /\ refresh[b].at = "count" /\ refresh'[b].at = "count" /\ i \in refresh[b].rest
          /\ refresh'[b].f = refresh[b].f /\ refresh'[b].size = refresh[b].size
      BY <2>6 DEF Counts, Counting, SameFile
    <3>2. i \in grew[f] \/ 2 * i <= refresh[b].size
      BY <2>6, <3>1 DEF Once, CountedOnce
    <3> QED BY <2>3, <2>6, <3>1, <3>2 DEF WillPass
  <2>7. ASSUME WillPass(b, f, i) PROVE WillPass(b, f, i)'
    <3>1. CASE i \in grew[f] \/ Repeats(f)
      BY <2>3, <3>1 DEF WillPass
    <3>2. CASE refresh[b].at = "count" /\ refresh[b].f = f /\ 2 * i <= refresh[b].size
      <4>1. \/ refresh'[b].at = "count" /\ refresh'[b].f = f /\ refresh'[b].size = refresh[b].size
            \/ LeavesOpen(b)
            \/ tx'[b] = NoChanges
        <5>1. CASE UNCHANGED <<refresh, tx>>
          BY <3>2, <5>1
        <5>2. ASSUME NEW x \in Bridges, Steps(x), x # b
              PROVE  refresh'[b] = refresh[b]
          BY <5>2, WhoMoves
        <5>3. ASSUME NEW j \in Lines, Counts(b, j) \/ Loses(b, j)
              PROVE  refresh'[b].at = "count" /\ SameFile(b)
          BY <5>3 DEF Counts, Loses, Counting
        <5>4. CASE Steps(b)
          BY <3>2, <5>3, <5>4, WhoMoves DEF SameFile
        <5> QED BY <2>1, <3>2, <5>1, <5>2, <5>4 DEF Evolves, Appends
      <4>2. LeavesOpen(b) => <<f, refresh[b].size>> \in tx'[b].moves \/ Repeats(f)'
        BY <3>2 DEF LeavesOpen, Moving, Repeats
      <4>3. tx'[b] # NoChanges
        BY <1>4 DEF NoChanges
      <4> QED BY <3>2, <4>1, <4>2, <4>3 DEF WillPass
    <3>3. ASSUME NEW move \in tx[b].moves, move[1] = f, 2 * i <= move[2]
          PROVE  WillPass(b, f, i)'
      <4>1. move \in tx'[b].moves
        <5>1. tx'[b] # NoChanges
          BY <1>4 DEF NoChanges
        <5> QED BY <2>1, <5>1 DEF Evolves, Kept, Appends, Steps, Leaves, Stats, LooksUp, Panics, Reads,
               Counts, Loses, Counting, OnlyMoves, Committing, LeavesOpen, Moving
      <4> QED BY <3>3, <4>1 DEF WillPass
    <3> QED BY <2>7, <3>1, <3>2, <3>3 DEF WillPass
  <2> QED BY <2>4, <2>5, <2>6, <2>7
<1>5. RepeatedOnlyIfExplained'
  <2> SUFFICES ASSUME NEW f \in Files, NEW i \in Lines, counted'[f][i] > 1
               PROVE  i \in grew'[f] \/ Repeats(f)'
    BY DEF RepeatedOnlyIfExplained, Repeats
  <2>1. i \in grew[f] \/ Repeats(f)
    <3>1. CASE counted'[f][i] = counted[f][i]
      BY <3>1 DEF Once, CountedOnce, RepeatedOnlyIfExplained, Repeats
    <3>2. ASSUME NEW b \in Bridges, Commits(b), counted'[f][i] # counted[f][i]
          PROVE  i \in grew[f] \/ Repeats(f)
      <4>1. <<f, i>> \in tx[b].lines /\ counted'[f][i] = counted[f][i] + 1
        BY <3>2 DEF Commits
      <4>2. Fresh(f, i)
        BY <4>1 DEF Once, CountedOnce
      <4>3. counted[f][i] # 0
        BY <4>1
      <4> QED BY <4>2, <4>3 DEF Fresh
    <3> QED BY <3>1, <3>2, CountsKept
  <2> QED BY <1>1, <2>1, Monotone DEF Repeats
<1> QED BY <1>3, <1>4, <1>5 DEF CountedOnce

LEMMA OnceInit == Init => Once
<1> SUFFICES ASSUME Init PROVE Once
  OBVIOUS
<1>1. \A b \in Bridges, f \in Files : ~InHand(b, f)
  BY InitFacts DEF InHand, NoChanges
<1> QED BY <1>1, InitFacts
        DEF Once, Alone, CountedBefore, Before, CountedOnce, RepeatedOnlyIfExplained, NoChanges

LEMMA OnceInvariant == Spec => []Once
<1>1. Init => Once
  BY OnceInit
<1>2. Outgrown /\ Outgrown' /\ Once /\ [Next]_vars => Once'
  BY StepCases, AloneSteps, CountedBeforeSteps, CountedOnceSteps DEF Outgrown, Once
<1> QED BY <1>1, <1>2, OutgrownInvariant, PTL DEF Spec
-------------------------------------------------------------------------------
(* The types: files of any number, with lines of any number. *)
THEOREM IngestTypeCorrect == Spec => []TypeOK
<1>1. Outgrown => TypeOK
  BY DEF Outgrown, Typing
<1> QED BY <1>1, OutgrownInvariant, PTL

(* A slice that resumes a file inside a character does so only after the     *)
(* character was completed between the stat and the read of a refresh.      *)
THEOREM IngestPanicsExplained == Spec => []PanicsOnlyIfGrew
<1>1. Outgrown => PanicsOnlyIfGrew
  BY DEF Outgrown
<1> QED BY <1>1, OutgrownInvariant, PTL

(* "Incrementally ingest new events" (stats_cache.rs): an event that the      *)
(* offset of its file passed was counted, unless it was half written at a   *)
(* stat or its INSERT failed.                                               *)
THEOREM IngestMissesExplained == Spec => []MissedOnlyIfCutOrLost
<1>1. Outgrown /\ AllPassed => MissedOnlyIfCutOrLost
  <2> SUFFICES ASSUME Outgrown, AllPassed, NEW f \in Files, NEW i \in DOMAIN file[f].events,
                      2 * i <= offsets[f], counted[f][i] = 0
               PROVE  i \in cut[f] \cup lost[f]
    BY DEF MissedOnlyIfCutOrLost
  <2>1. i \in Lines
    BY DomainFacts DEF Outgrown, Typing
  <2>2. Passed(f, i)
    BY <2>1 DEF AllPassed, Up
  <2> QED BY <2>2 DEF Passed
<1> QED BY <1>1, OutgrownInvariant, AllPassedInvariant, PTL

(* "Only reads bytes AFTER the last known offset" (stats_cache.rs): an event *)
(* is counted twice only if it was completed between a stat and its read,    *)
(* two bridges had one offset in hand, or a statement that reads or stores   *)
(* the offset failed; crashes, COMMITs that fail, INSERTs of counts that    *)
(* fail and transactions left open repeat nothing.                          *)
THEOREM IngestRepeatsExplained == Spec => []RepeatedOnlyIfExplained
<1>1. Once => RepeatedOnlyIfExplained
  BY DEF Once, CountedOnce
<1> QED BY <1>1, OnceInvariant, PTL
===============================================================================
