------------------------ MODULE SessionRefinementProofs ------------------------
(***************************************************************************)
(* SessionManager implements SessionLifecycle: under the mapping PhaseOf    *)
(* every step of the tracker opens, tells or removes, or changes no phase.  *)
(***************************************************************************)
EXTENDS SessionManagerProofs

(* The phase of an inserted connection can be read off its channel alone.   *)
LEMMA PhaseByChannel ==
    ASSUME IInv, NEW c \in Conns
    PROVE  PhaseOf(c) = IF ~Inserted(c) THEN "absent"
                        ELSE IF ~watch[c].open THEN "removed"
                        ELSE IF watch[c].value THEN "told" ELSE "live"
BY DEF PhaseOf, IInv, WatchFollowsEntry

PhaseMap == [c \in Conns |-> PhaseOf(c)]

(* A connection whose channel and stage do not change keeps its phase. *)
LEMMA PhaseKept ==
    ASSUME IInv, IInv', NEW c \in Conns, watch'[c] = watch[c], Inserted(c)' <=> Inserted(c)
    PROVE  PhaseOf(c)' = PhaseOf(c)
<1>1. PhaseOf(c)' = IF ~Inserted(c)' THEN "absent"
                    ELSE IF ~watch'[c].open THEN "removed"
                    ELSE IF watch'[c].value THEN "told" ELSE "live"
  BY DEF PhaseOf, IInv, WatchFollowsEntry
<1> QED
  BY <1>1, PhaseByChannel

LEMMA AllKept ==
    ASSUME IInv, IInv', watch' = watch, \A c \in Conns : Inserted(c)' <=> Inserted(c)
    PROVE  PhaseMap' = PhaseMap
BY PhaseKept DEF PhaseMap

LEMMA RegisterOpens ==
    ASSUME IInv, IInv', NEW c \in Conns, Register(c)
    PROVE  Lifecycle!Open(c)
<1>1. ~Inserted(c) /\ ~At(c, "accepted") /\ conn' = [conn EXCEPT ![c].at = "registered"]
  BY DEF Register, At, Inserted, GoTo
<1>2. ~Holds(conn[c].id)
  BY <1>1, OwnEntry
<1>3. watch' = watch
  BY <1>2 DEF Register, insert
<1>4. watch[c] = [value |-> FALSE, open |-> TRUE]
  BY <1>1 DEF IInv, Untouched
<1>5. Inserted(c)' /\ \A d \in Conns \ {c} : Inserted(d)' <=> Inserted(d)
  BY <1>1 DEF IInv, TypeOK, Inserted
<1>6. \A d \in Conns \ {c} : PhaseOf(d)' = PhaseOf(d)
  BY <1>3, <1>5, PhaseKept
<1>7. PhaseOf(c) = "absent"
  BY <1>1 DEF PhaseOf
<1>8. PhaseOf(c)' = "live"
  <2>1. Holds(conn[c].id)'
    BY <1>3, <1>4, <1>5 DEF IInv, WatchFollowsEntry
  <2> QED
    BY <2>1, <1>3, <1>4, <1>5 DEF PhaseOf
<1> QED
  BY <1>6, <1>7, <1>8 DEF Lifecycle!Open

LEMMA RemoveRemoves ==
    ASSUME IInv, IInv', NEW id, remove(id), \A c \in Conns : Inserted(c)' <=> Inserted(c)
    PROVE  (\E c \in Conns : Lifecycle!Remove(c)) \/ PhaseMap' = PhaseMap
<1>1. CASE ~Holds(id)
  BY <1>1, AllKept DEF remove
<1>2. CASE Holds(id)
  <2>1. PICK c \in Conns : c = sessions[id].shutdown_tx /\ conn[c].id = id /\ Inserted(c)
    BY <1>2 DEF IInv, EntriesHaveOwners, TypeOK, Entry, Holds
  <2>2. watch' = [watch EXCEPT ![c].open = FALSE]
    BY <1>2, <2>1 DEF remove
  <2>3. watch'[c].open = FALSE /\ \A d \in Conns \ {c} : watch'[d] = watch[d]
    BY <2>1, <2>2 DEF IInv, TypeOK, Watch
  <2>4. PhaseOf(c) \in {"live", "told"}
    BY <2>1, <1>2 DEF PhaseOf
  <2>5. PhaseOf(c)' = "removed"
    <3>1. Inserted(c)' /\ ~watch'[c].open
      BY <2>1, <2>3
    <3> QED
      BY <2>1, <3>1 DEF PhaseOf, IInv, WatchFollowsEntry
  <2>6. \A d \in Conns \ {c} : PhaseOf(d)' = PhaseOf(d)
    BY <2>3, PhaseKept
  <2> QED
    BY <2>1, <2>4, <2>5, <2>6 DEF Lifecycle!Remove
<1> QED
  BY <1>1, <1>2

LEMMA ScanTells ==
    ASSUME IInv, IInv', DisconnectIdle
    PROVE  \E S \in SUBSET Conns : Lifecycle!Tell(S)
<1> DEFINE S == {c \in Conns : \E id \in IdleIds : sessions[id].shutdown_tx = c}
<1>1. \A c \in Conns : Inserted(c)' <=> Inserted(c)
  BY DEF DisconnectIdle, Inserted
<1>2. ASSUME NEW c \in S
      PROVE  PhaseOf(c) = "live" /\ PhaseOf(c)' = "told"
  <2>1. PICK id \in IdleIds : sessions[id].shutdown_tx = c
    OBVIOUS
  <2>2. /\ conn[c].id = id /\ Inserted(c) /\ Holds(id)
        /\ sessions[id].status = "Active"
    BY <2>1 DEF IInv, EntriesHaveOwners, IdleIds, Holds
  <2>3. ~watch[c].value
    BY <2>2 DEF IInv, StatusMatchesSignal, InMap
  <2>4. watch'[c].value
    BY <2>1 DEF DisconnectIdle, IInv, TypeOK, Watch
  <2>5. Holds(conn[c].id)'
    BY <2>2 DEF DisconnectIdle, Holds
  <2>6. Inserted(c)'
    BY <1>1, <2>2
  <2> QED
    BY <2>2, <2>3, <2>4, <2>5, <2>6 DEF PhaseOf
<1>3. ASSUME NEW c \in Conns \ S
      PROVE  PhaseOf(c)' = PhaseOf(c)
  <2>1. watch'[c] = watch[c]
    BY DEF DisconnectIdle
  <2> QED
    BY <1>1, <2>1, PhaseKept
<1> HIDE DEF S
<1>4. S \subseteq Conns
  BY DEF S
<1>5. Lifecycle!Tell(S)
  BY <1>2, <1>3, <1>4 DEF Lifecycle!Tell
<1> QED
  BY <1>4, <1>5

LEMMA StepRefines ==
    ASSUME IInv, IInv', [Next]_vars
    PROVE  Lifecycle!Next \/ PhaseMap' = PhaseMap
<1>1. ASSUME NEW c \in Conns, Handler(c)
      PROVE  Lifecycle!Next \/ PhaseMap' = PhaseMap
  <2>1. CASE Register(c)
    BY <2>1, RegisterOpens DEF Lifecycle!Next
  <2>2. CASE Unregister(c)
    <3>1. \A d \in Conns : Inserted(d)' <=> Inserted(d)
      BY <2>2 DEF Unregister, GoTo, At, Inserted, IInv, TypeOK
    <3> QED
      BY <2>2, <3>1, RemoveRemoves DEF Unregister, Lifecycle!Next
  <2>3. CASE FetchSeq(c)
    <3>1. \A d \in Conns : Inserted(d)' <=> Inserted(d)
      BY <2>3 DEF FetchSeq, At, Inserted, IInv, TypeOK
    <3> QED
      BY <2>3, <3>1, AllKept DEF FetchSeq
  <2>4. CASE Activate(c) \/ RelayReturns(c) \/ FinalTouch(c)
    <3>1. \A d \in Conns : Inserted(d)' <=> Inserted(d)
      BY <2>4 DEF Activate, RelayReturns, FinalTouch, GoTo, At, Inserted, IInv, TypeOK
    <3> QED
      BY <2>4, <3>1, AllKept DEF Activate, RelayReturns, FinalTouch, update_status, touch, GetMut
  <2>5. CASE RelayCalls(c) \/ ReaderCalls(c) \/ SpawnReader(c) \/ ReaderEnds(c)
    <3>1. UNCHANGED <<watch, conn>>
      BY <2>5 DEF RelayCalls, ReaderCalls, SpawnReader, ReaderEnds, touch, increment_prompts,
                  increment_messages, set_copilot_session_id, set_available_commands, GetMut
    <3> QED
      BY <3>1, AllKept DEF Inserted
  <2> QED
    BY <1>1, <2>1, <2>2, <2>3, <2>4, <2>5 DEF Handler
<1>2. CASE Rest
  <2>1. ASSUME NEW id \in 1..counter, delete_session(id)
        PROVE  Lifecycle!Next \/ PhaseMap' = PhaseMap
    BY <2>1, RemoveRemoves DEF delete_session, Inserted, Lifecycle!Next
  <2>2. ASSUME \/ \E id \in 1..counter : VerifySession(id)
               \/ AnswerCommands
        PROVE  PhaseMap' = PhaseMap
    BY <2>2, AllKept DEF VerifySession, AnswerCommands, Inserted
  <2> QED
    BY <1>2, <2>1, <2>2 DEF Rest
<1>3. CASE DisconnectIdle
  BY <1>3, ScanTells DEF Lifecycle!Next
<1>4. CASE ScanTick \/ Tick \/ UNCHANGED vars
  BY <1>4, AllKept DEF ScanTick, Tick, vars, Inserted
<1> QED
  BY <1>1, <1>2, <1>3, <1>4 DEF Next

(* Each session opens once, may be told to shut down, is removed at most     *)
(* once, and neither is taken back, whatever the handlers, their readers,    *)
(* the REST API and the idle checker do (session.rs).                        *)
THEOREM ImplementsLifecycle == Spec => LifecycleSpec
<1>1. Init => Lifecycle!Init
  BY DEF Init, Lifecycle!Init, PhaseOf, Inserted
<1>2. IInv /\ IInv' /\ [Next]_vars => [Lifecycle!Next]_PhaseMap
  BY StepRefines
<1> QED
  BY <1>1, <1>2, InductiveInvariant, PTL DEF Spec, LifecycleSpec, Lifecycle!Spec, PhaseMap
===============================================================================
