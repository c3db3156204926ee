-------------------------- MODULE SessionManagerProofs --------------------------
(***************************************************************************)
(* The invariants of SessionManager, for every set of connections, every   *)
(* timeout and every bound.                                                *)
(***************************************************************************)
EXTENDS SessionManager, TLAPS

(* What the four safety properties rest on.  An id is drawn once; the entry  *)
(* under it carries the sender of the connection that drew it; before the   *)
(* entry exists the channel is untouched; a session is still Connecting     *)
(* until its handler makes it Active, so no scan can have told it; the clock *)
(* of a scan is in the past; a reader is spawned after registration; and    *)
(* the id a request verified is that of the session's owner.                *)
IdsDrawn == \A c \in Conns : ~At(c, "accepted") => conn[c].id \in 1..counter

IdsDistinct ==
    \A c, d \in Conns :
        ~At(c, "accepted") /\ ~At(d, "accepted") /\ conn[c].id = conn[d].id => c = d

Untouched == \A c \in Conns : ~Inserted(c) => watch[c] = [value |-> FALSE, open |-> TRUE]

NotYetActive ==
    \A c \in Conns : At(c, "registered") /\ Holds(conn[c].id)
                        => sessions[conn[c].id].status = "Connecting"

ScanInPast == scan.now <= now

ReaderAfterId == \A c \in Conns : reader[c] # "none" => ~At(c, "accepted")

RequestOwned ==
    request.at = "verified" =>
        /\ request.owner \in Conns
        /\ ~At(request.owner, "accepted") /\ conn[request.owner].id = request.id

IInv ==
    /\ TypeOK /\ IdsDrawn /\ IdsDistinct /\ EntriesHaveOwners /\ Untouched
    /\ WatchFollowsEntry /\ StatusMatchesSignal /\ NotYetActive /\ ScanInPast
    /\ ReaderAfterId /\ RequestOwned
-------------------------------------------------------------------------------
(* Updating an entry in place keeps the ids, the senders and the types.     *)
LEMMA GetMutKeeps ==
    ASSUME TypeOK, NEW id, NEW e, GetMut(id, e),
           Holds(id) => e \in Entry /\ e.shutdown_tx = sessions[id].shutdown_tx
    PROVE  /\ DOMAIN sessions' = DOMAIN sessions
           /\ \A i \in DOMAIN sessions :
                 /\ sessions'[i] \in Entry
                 /\ sessions'[i].shutdown_tx = sessions[i].shutdown_tx
                 /\ i # id => sessions'[i] = sessions[i]
           /\ Holds(id) => sessions'[id] = e
           /\ watch' = watch
BY DEF GetMut, Holds, TypeOK

(* Every entry a connection finds under its own id is its own. *)
LEMMA OwnEntry ==
    ASSUME IInv, NEW c \in Conns, ~At(c, "accepted"), Holds(conn[c].id)
    PROVE  sessions[conn[c].id].shutdown_tx = c /\ Inserted(c)
<1> DEFINE d == sessions[conn[c].id].shutdown_tx
<1>1. d \in Conns /\ conn[d].id = conn[c].id /\ Inserted(d)
  BY DEF IInv, EntriesHaveOwners, TypeOK, Entry, Holds
<1>2. ~At(d, "accepted")
  BY <1>1 DEF Inserted, At
<1>3. d = c
  BY <1>1, <1>2 DEF IInv, IdsDistinct
<1> QED
  BY <1>1, <1>3

(* Updating an entry in place without its status or its sender keeps IInv.  *)
LEMMA GetMutPreserves ==
    ASSUME IInv, NEW c \in Conns, NEW e, GetMut(conn[c].id, e), ~At(c, "accepted"),
           Holds(conn[c].id) =>
               /\ e \in Entry
               /\ e.shutdown_tx = sessions[conn[c].id].shutdown_tx
               /\ e.status = sessions[conn[c].id].status,
           UNCHANGED <<counter, conn, reader, now, scan, request>>
    PROVE  IInv'
<1> USE DEF IInv
<1>1. /\ DOMAIN sessions' = DOMAIN sessions
      /\ \A i \in DOMAIN sessions :
            /\ sessions'[i] \in Entry
            /\ sessions'[i].shutdown_tx = sessions[i].shutdown_tx
            /\ sessions'[i].status = sessions[i].status
      /\ watch' = watch
  BY GetMutKeeps DEF Holds
<1>2. TypeOK'
  BY <1>1 DEF TypeOK
<1>3. IdsDrawn' /\ IdsDistinct' /\ Untouched' /\ ScanInPast' /\ ReaderAfterId' /\ RequestOwned'
  BY <1>1 DEF IdsDrawn, IdsDistinct, Untouched, ScanInPast, ReaderAfterId, RequestOwned, At, Inserted
<1>4. EntriesHaveOwners' /\ WatchFollowsEntry' /\ StatusMatchesSignal' /\ NotYetActive'
  BY <1>1 DEF EntriesHaveOwners, WatchFollowsEntry, StatusMatchesSignal, NotYetActive,
              At, Inserted, InMap, Holds
<1> QED
  BY <1>2, <1>3, <1>4

(* touch, the two counters and the two cached values are such updates. *)
LEMMA CallsPreserve ==
    ASSUME IInv, NEW c \in Conns, ~At(c, "accepted"),
           \/ touch(conn[c].id)
           \/ increment_prompts(conn[c].id)
           \/ increment_messages(conn[c].id)
           \/ \E cid \in CopilotIds : set_copilot_session_id(conn[c].id, cid)
           \/ \E cmds \in CommandLists : set_available_commands(conn[c].id, cmds),
           UNCHANGED <<counter, conn, reader, now, scan, request>>
    PROVE  IInv'
<1> DEFINE id == conn[c].id
           SameOwnerAndStatus(e) == Holds(id) =>
               /\ e \in Entry
               /\ e.shutdown_tx = sessions[id].shutdown_tx
               /\ e.status = sessions[id].status
<1>0. now \in Nat /\ (Holds(id) => sessions[id] \in Entry)
  BY DEF IInv, TypeOK, Holds
<1>1. CASE touch(id)
  <2>1. SameOwnerAndStatus([sessions[id] EXCEPT !.last_activity = now])
    BY <1>0 DEF Entry
  <2> QED
    BY <1>1, <2>1, GetMutPreserves DEF touch
<1>2. CASE increment_prompts(id)
  <2>1. SameOwnerAndStatus([sessions[id] EXCEPT !.prompt_count = @ + 1])
    BY <1>0 DEF Entry
  <2> QED
    BY <1>2, <2>1, GetMutPreserves DEF increment_prompts
<1>3. CASE increment_messages(id)
  <2>1. SameOwnerAndStatus([sessions[id] EXCEPT !.message_count = @ + 1])
    BY <1>0 DEF Entry
  <2> QED
    BY <1>3, <2>1, GetMutPreserves DEF increment_messages
<1>4. ASSUME NEW cid \in CopilotIds, set_copilot_session_id(id, cid)
      PROVE  IInv'
  <2>1. SameOwnerAndStatus([sessions[id] EXCEPT !.copilot_session_id = cid])
    BY <1>0 DEF Entry
  <2> QED
    BY <1>4, <2>1, GetMutPreserves DEF set_copilot_session_id
<1>5. ASSUME NEW cmds \in CommandLists, set_available_commands(id, cmds)
      PROVE  IInv'
  <2>1. SameOwnerAndStatus([sessions[id] EXCEPT !.available_commands = cmds])
    BY <1>0 DEF Entry
  <2> QED
    BY <1>5, <2>1, GetMutPreserves DEF set_available_commands
<1> QED
  BY <1>1, <1>2, <1>3, <1>4, <1>5
-------------------------------------------------------------------------------
LEMMA InitIInv == Init => IInv
BY IdleTimeoutAssumption
   DEF Init, IInv, TypeOK, IdsDrawn, IdsDistinct, EntriesHaveOwners, Untouched,
       WatchFollowsEntry, StatusMatchesSignal, NotYetActive, ScanInPast, ReaderAfterId, RequestOwned,
       At, Inserted, InMap, Holds, Watch, Steps, Ids, Entry, NoRequest

LEMMA FetchSeqPreserves ==
    ASSUME IInv, NEW c \in Conns, FetchSeq(c)
    PROVE  IInv'
<1> USE DEF FetchSeq, IInv
<1>1. TypeOK'
  BY DEF TypeOK, Steps
<1>2. IdsDrawn' /\ IdsDistinct' /\ ScanInPast' /\ ReaderAfterId' /\ RequestOwned'
  BY DEF TypeOK, IdsDrawn, IdsDistinct, ScanInPast, ReaderAfterId, RequestOwned, At
<1>3. EntriesHaveOwners' /\ Untouched'
  BY DEF TypeOK, EntriesHaveOwners, Untouched, Inserted, At, Entry
<1>4. WatchFollowsEntry' /\ StatusMatchesSignal' /\ NotYetActive'
  BY DEF TypeOK, WatchFollowsEntry, StatusMatchesSignal, NotYetActive, Inserted, InMap, At, Holds
<1> QED
  BY <1>1, <1>2, <1>3, <1>4

LEMMA RegisterPreserves ==
    ASSUME IInv, NEW c \in Conns, Register(c)
    PROVE  IInv'
<1> USE DEF IInv
<1> DEFINE id == conn[c].id
           e == [status |-> "Connecting", last_activity |-> conn[c].instant,
                 prompt_count |-> 0, message_count |-> 0,
                 copilot_session_id |-> None, available_commands |-> None,
                 shutdown_tx |-> c]
<1>1. ~Holds(id) /\ id \in Ids /\ ~At(c, "accepted") /\ ~Inserted(c)
  BY OwnEntry DEF Register, At, Inserted, IdsDrawn, TypeOK, Ids
<1>2. /\ DOMAIN sessions' = DOMAIN sessions \cup {id}
      /\ sessions'[id] = e
      /\ \A i \in DOMAIN sessions : sessions'[i] = sessions[i]
      /\ watch' = watch
      /\ conn' = [conn EXCEPT ![c].at = "registered"]
      /\ UNCHANGED <<counter, reader, now, scan, request>>
  BY <1>1 DEF Register, insert, GoTo, Holds
<1>3. e \in Entry
  BY DEF TypeOK, Entry, Status
<1>4. TypeOK'
  BY <1>1, <1>2, <1>3 DEF TypeOK, Steps
<1>5. IdsDrawn' /\ IdsDistinct' /\ ScanInPast' /\ ReaderAfterId' /\ RequestOwned' /\ Untouched'
  BY <1>1, <1>2
     DEF TypeOK, IdsDrawn, IdsDistinct, ScanInPast, ReaderAfterId, RequestOwned, Untouched, Inserted, At
<1>6. EntriesHaveOwners'
  BY <1>1, <1>2 DEF TypeOK, EntriesHaveOwners, Inserted, At, Entry
<1>7. WatchFollowsEntry' /\ StatusMatchesSignal' /\ NotYetActive'
  <2>1. \A d \in Conns : d # c /\ ~At(d, "accepted") => conn[d].id # id
    BY <1>1 DEF IdsDistinct
  <2>2. watch[c] = [value |-> FALSE, open |-> TRUE]
    BY <1>1 DEF Untouched
  <2> QED
    BY <1>1, <1>2, <2>1, <2>2
       DEF TypeOK, WatchFollowsEntry, StatusMatchesSignal, NotYetActive, Inserted, InMap, At, Holds
<1> QED
  BY <1>4, <1>5, <1>6, <1>7

LEMMA ActivatePreserves ==
    ASSUME IInv, NEW c \in Conns, Activate(c)
    PROVE  IInv'
<1> USE DEF IInv
<1> DEFINE id == conn[c].id
           e == [sessions[id] EXCEPT !.status = "Active", !.last_activity = now]
<1>1. At(c, "registered") /\ ~At(c, "accepted") /\ Inserted(c)
  BY DEF Activate, At, Inserted
<1>2. Holds(id) => e \in Entry /\ e.shutdown_tx = sessions[id].shutdown_tx /\ e.status = "Active"
  <2>1. now \in Nat /\ (Holds(id) => sessions[id] \in Entry)
    BY DEF TypeOK, Holds
  <2>2. "Active" \in Status
    BY DEF Status
  <2> QED
    BY <2>1, <2>2 DEF Entry
<1>3. GetMut(id, e) /\ conn' = [conn EXCEPT ![c].at = "relay"]
      /\ UNCHANGED <<counter, reader, now, scan, request>>
  BY DEF Activate, update_status, GoTo
<1>4. /\ DOMAIN sessions' = DOMAIN sessions
      /\ \A i \in DOMAIN sessions :
            /\ sessions'[i] \in Entry
            /\ sessions'[i].shutdown_tx = sessions[i].shutdown_tx
            /\ i # id => sessions'[i] = sessions[i]
      /\ Holds(id) => sessions'[id].status = "Active"
      /\ watch' = watch
  BY <1>2, <1>3, GetMutKeeps, ZenonT(30)
<1>5. TypeOK'
  BY <1>3, <1>4 DEF TypeOK, Steps
<1>6. /\ IdsDrawn' /\ IdsDistinct' /\ ScanInPast' /\ ReaderAfterId' /\ RequestOwned'
      /\ Untouched' /\ EntriesHaveOwners'
  BY <1>1, <1>3, <1>4
     DEF TypeOK, IdsDrawn, IdsDistinct, ScanInPast, ReaderAfterId, RequestOwned, Untouched, EntriesHaveOwners, Inserted, At, Entry
<1>7. WatchFollowsEntry' /\ StatusMatchesSignal' /\ NotYetActive'
  <2>1. \A d \in Conns : d # c /\ ~At(d, "accepted") => conn[d].id # id
    BY <1>1 DEF IdsDistinct
  <2>2. Holds(id) => sessions[id].status = "Connecting"
    BY <1>1 DEF NotYetActive
  <2> QED
    BY <1>1, <1>3, <1>4, <2>1, <2>2
       DEF TypeOK, WatchFollowsEntry, StatusMatchesSignal, NotYetActive, Inserted, InMap, At, Holds
<1> QED
  BY <1>5, <1>6, <1>7

(* Removing the entry of a connection closes the channel of that connection. *)
LEMMA RemovePreserves ==
    ASSUME IInv, NEW id \in Ids, remove(id),
           UNCHANGED <<counter, reader, now, scan, request>>,
           \/ UNCHANGED conn
           \/ \E c \in Conns : conn[c].id = id /\ At(c, "touched") /\ GoTo(c, "closed")
    PROVE  IInv'
<1> USE DEF IInv
<1>1. /\ DOMAIN sessions' = DOMAIN sessions \ {id}
      /\ \A i \in DOMAIN sessions \ {id} : sessions'[i] = sessions[i]
  BY DEF remove
<1>2. /\ conn' \in [Conns -> [at : Steps, id : Nat, instant : Nat]]
      /\ \A d \in Conns : conn'[d].id = conn[d].id
      /\ \A d \in Conns : conn'[d].at = conn[d].at
                          \/ (conn[d].id = id /\ conn[d].at = "touched" /\ conn'[d].at = "closed")
  <2>1. CASE UNCHANGED conn
    BY <2>1 DEF TypeOK
  <2>2. ASSUME NEW c \in Conns, conn[c].id = id, At(c, "touched"), GoTo(c, "closed")
        PROVE  /\ conn' \in [Conns -> [at : Steps, id : Nat, instant : Nat]]
               /\ \A d \in Conns : conn'[d].id = conn[d].id
               /\ \A d \in Conns \ {c} : conn'[d].at = conn[d].at
               /\ conn[c].at = "touched" /\ conn'[c].at = "closed"
    BY <2>2 DEF GoTo, At, TypeOK, Steps
  <2> QED
    BY <2>1, <2>2
<1>3. \A d \in Conns : /\ At(d, "accepted") <=> At(d, "accepted")'
                       /\ Inserted(d) <=> Inserted(d)'
                       /\ At(d, "registered") <=> At(d, "registered")'
  BY <1>2 DEF At, Inserted
<1>4. \A d \in Conns : /\ watch'[d].value = watch[d].value
                       /\ watch'[d] \in Watch
                       /\ watch'[d].open <=> watch[d].open /\ ~(Holds(id) /\ sessions[id].shutdown_tx = d)
                       /\ ~(Holds(id) /\ sessions[id].shutdown_tx = d) => watch'[d] = watch[d]
  <2>1. CASE Holds(id)
    <3>1. sessions[id].shutdown_tx \in Conns
      BY <2>1 DEF Holds, TypeOK, Entry
    <3> QED
      BY <2>1, <3>1, ZenonT(30) DEF remove, TypeOK, Watch
  <2>2. CASE ~Holds(id)
    BY <2>2 DEF remove, TypeOK, Watch
  <2> QED
    BY <2>1, <2>2
<1>5. watch' \in [Conns -> Watch]
  <2>1. CASE Holds(id)
    <3>1. sessions[id].shutdown_tx \in Conns
      BY <2>1 DEF Holds, TypeOK, Entry
    <3> QED
      BY <2>1, <3>1, ZenonT(30) DEF remove, TypeOK, Watch
  <2>2. CASE ~Holds(id)
    BY <2>2 DEF remove, TypeOK
  <2> QED
    BY <2>1, <2>2
<1>6. TypeOK'
  BY <1>1, <1>2, <1>5 DEF TypeOK
<1>7. IdsDrawn' /\ IdsDistinct' /\ ScanInPast' /\ ReaderAfterId' /\ RequestOwned'
  BY <1>2, <1>3 DEF IdsDrawn, IdsDistinct, ScanInPast, ReaderAfterId, RequestOwned
<1>8. EntriesHaveOwners'
  <2> SUFFICES ASSUME NEW i \in DOMAIN sessions \ {id}
               PROVE  LET c == sessions[i].shutdown_tx
                      IN /\ conn'[c].id = i
                         /\ conn'[c].at \notin {"accepted", "numbered", "closed"}
    BY <1>1 DEF EntriesHaveOwners, Inserted, At
  <2> DEFINE c == sessions[i].shutdown_tx
  <2>1. c \in Conns /\ conn[c].id = i /\ Inserted(c) /\ ~At(c, "closed")
    BY DEF EntriesHaveOwners, TypeOK, Entry
  <2> QED
    BY <2>1, <1>2 DEF At, Inserted
<1>9. Untouched'
  <2> SUFFICES ASSUME NEW d \in Conns, ~Inserted(d)
               PROVE  watch'[d] = [value |-> FALSE, open |-> TRUE]
    BY <1>3 DEF Untouched
  <2>1. watch[d] = [value |-> FALSE, open |-> TRUE]
    BY DEF Untouched
  <2>2. ~(Holds(id) /\ sessions[id].shutdown_tx = d)
    BY DEF EntriesHaveOwners, Holds
  <2> QED
    BY <1>4, <2>1, <2>2 DEF Watch
<1>10. WatchFollowsEntry'
  <2> SUFFICES ASSUME NEW d \in Conns, Inserted(d)
               PROVE  watch'[d].open <=> conn[d].id \in DOMAIN sessions \ {id}
    BY <1>1, <1>2, <1>3 DEF WatchFollowsEntry, Holds
  <2>1. watch[d].open <=> Holds(conn[d].id)
    BY DEF WatchFollowsEntry
  <2>2. ~At(d, "accepted")
    BY DEF Inserted, At
  <2>3. CASE conn[d].id = id
    BY <2>1, <2>2, <2>3, <1>4, OwnEntry DEF Holds
  <2>4. CASE conn[d].id # id
    BY <2>1, <2>4, <1>4 DEF Holds, EntriesHaveOwners
  <2> QED
    BY <2>3, <2>4
<1>11. StatusMatchesSignal' /\ NotYetActive'
  BY <1>1, <1>2, <1>3, <1>4 DEF StatusMatchesSignal, NotYetActive, InMap, Holds
<1> QED
  BY <1>6, <1>7, <1>8, <1>9, <1>10, <1>11

(* A scan tells exactly the connections whose sessions it disconnects. *)
LEMMA DisconnectIdlePreserves ==
    ASSUME IInv, DisconnectIdle
    PROVE  IInv'
<1> USE DEF IInv
<1>1. /\ DOMAIN sessions' = DOMAIN sessions
      /\ \A i \in DOMAIN sessions :
            /\ sessions'[i] \in Entry
            /\ sessions'[i].shutdown_tx = sessions[i].shutdown_tx
            /\ i \in IdleIds => sessions'[i].status = "Disconnected"
            /\ i \notin IdleIds => sessions'[i] = sessions[i]
  <2>1. "Disconnected" \in Status
    BY DEF Status
  <2> QED
    BY <2>1 DEF DisconnectIdle, TypeOK, Entry
<1>2. /\ watch' \in [Conns -> Watch]
      /\ \A c \in Conns : /\ watch'[c].open = watch[c].open
                          /\ watch'[c].value <=> watch[c].value
                                \/ \E i \in IdleIds : sessions[i].shutdown_tx = c
                          /\ ~(\E i \in IdleIds : sessions[i].shutdown_tx = c) => watch'[c] = watch[c]
  <2>1. watch' = [c \in Conns |->
                     IF \E i \in IdleIds : sessions[i].shutdown_tx = c
                     THEN [watch[c] EXCEPT !.value = TRUE] ELSE watch[c]]
    BY DEF DisconnectIdle
  <2>2. \A c \in Conns : watch[c] \in Watch
    BY DEF TypeOK
  <2>3. \A w \in Watch : /\ [w EXCEPT !.value = TRUE] \in Watch
                         /\ [w EXCEPT !.value = TRUE].open = w.open
                         /\ [w EXCEPT !.value = TRUE].value = TRUE
    BY DEF Watch
  <2> QED
    BY <2>1, <2>2, <2>3, Zenon
<1>3. TypeOK'
  BY <1>1, <1>2 DEF DisconnectIdle, TypeOK
<1>4. /\ IdsDrawn' /\ IdsDistinct' /\ ScanInPast' /\ ReaderAfterId' /\ RequestOwned'
      /\ EntriesHaveOwners'
  BY <1>1 DEF DisconnectIdle, TypeOK, IdsDrawn, IdsDistinct, ScanInPast, ReaderAfterId, RequestOwned, EntriesHaveOwners, Inserted, At
<1>5. \A i \in IdleIds : i \in DOMAIN sessions /\ sessions[i].status = "Active"
  BY DEF IdleIds
<1>6. \A i \in IdleIds : \A c \in Conns :
          Inserted(c) => (sessions[i].shutdown_tx = c <=> conn[c].id = i)
  <2> SUFFICES ASSUME NEW i \in IdleIds, NEW c \in Conns, Inserted(c)
               PROVE  sessions[i].shutdown_tx = c <=> conn[c].id = i
    OBVIOUS
  <2>1. ~At(c, "accepted")
    BY DEF Inserted, At
  <2> QED
    BY <1>5, <2>1, OwnEntry DEF EntriesHaveOwners, Holds
<1>7. Untouched'
  BY <1>2, <1>5 DEF DisconnectIdle, Untouched, Inserted, EntriesHaveOwners
<1>8. WatchFollowsEntry' /\ NotYetActive'
  BY <1>1, <1>2, <1>5 DEF DisconnectIdle, WatchFollowsEntry, NotYetActive, Inserted, At, Holds
<1>9. StatusMatchesSignal'
  <2> SUFFICES ASSUME NEW c \in Conns, InMap(c)
               PROVE  sessions'[conn[c].id].status = "Disconnected" <=> watch'[c].value
    BY <1>1 DEF DisconnectIdle, StatusMatchesSignal, InMap, Inserted, Holds
  <2>1. sessions[conn[c].id].status = "Disconnected" <=> watch[c].value
    BY DEF StatusMatchesSignal
  <2>2. CASE conn[c].id \in IdleIds
    BY <2>2, <1>1, <1>2, <1>5, <1>6 DEF InMap
  <2>3. CASE conn[c].id \notin IdleIds
    BY <2>1, <2>3, <1>1, <1>2, <1>6 DEF InMap, Holds
  <2> QED
    BY <2>2, <2>3
<1> QED
  BY <1>3, <1>4, <1>7, <1>8, <1>9

(* After the relay, the last touch and the way there. *)
LEMMA RelayReturnsPreserves ==
    ASSUME IInv, NEW c \in Conns, RelayReturns(c)
    PROVE  IInv'
<1> USE DEF IInv, RelayReturns
<1>1. TypeOK'
  BY DEF TypeOK, Steps, GoTo
<1>2. \A d \in Conns : /\ conn'[d].id = conn[d].id
                       /\ At(d, "accepted") <=> At(d, "accepted")'
                       /\ Inserted(d) <=> Inserted(d)'
                       /\ At(d, "registered") <=> At(d, "registered")'
                       /\ At(d, "closed") <=> At(d, "closed")'
  BY DEF TypeOK, GoTo, At, Inserted
<1>3. IdsDrawn' /\ IdsDistinct' /\ Untouched' /\ ScanInPast' /\ ReaderAfterId' /\ RequestOwned'
  BY <1>2 DEF IdsDrawn, IdsDistinct, Untouched, ScanInPast, ReaderAfterId, RequestOwned
<1>4. EntriesHaveOwners'
  BY <1>2 DEF EntriesHaveOwners, TypeOK, Entry
<1>5. WatchFollowsEntry' /\ StatusMatchesSignal' /\ NotYetActive'
  BY <1>2 DEF WatchFollowsEntry, StatusMatchesSignal, NotYetActive, InMap, Holds
<1> QED
  BY <1>1, <1>3, <1>4, <1>5

LEMMA FinalTouchPreserves ==
    ASSUME IInv, NEW c \in Conns, FinalTouch(c)
    PROVE  IInv'
<1> USE DEF IInv
<1> DEFINE id == conn[c].id
           e == [sessions[id] EXCEPT !.last_activity = now]
<1>1. /\ GetMut(id, e) /\ At(c, "returned") /\ conn' = [conn EXCEPT ![c].at = "touched"]
      /\ UNCHANGED <<counter, reader, now, scan, request>>
  BY DEF FinalTouch, touch, GoTo
<1>2. Holds(id) => /\ e \in Entry
                   /\ e.shutdown_tx = sessions[id].shutdown_tx
                   /\ e.status = sessions[id].status
  <2>1. now \in Nat /\ (Holds(id) => sessions[id] \in Entry)
    BY DEF TypeOK, Holds
  <2> QED
    BY <2>1 DEF Entry
<1>3. /\ DOMAIN sessions' = DOMAIN sessions
      /\ \A i \in DOMAIN sessions :
            /\ sessions'[i] \in Entry
            /\ sessions'[i].shutdown_tx = sessions[i].shutdown_tx
            /\ sessions'[i].status = sessions[i].status
      /\ watch' = watch
  <2>1. /\ DOMAIN sessions' = DOMAIN sessions
        /\ \A i \in DOMAIN sessions :
              /\ sessions'[i] \in Entry
              /\ sessions'[i].shutdown_tx = sessions[i].shutdown_tx
              /\ i # id => sessions'[i] = sessions[i]
        /\ Holds(id) => sessions'[id] = e
        /\ watch' = watch
    BY <1>1, <1>2, GetMutKeeps
  <2> QED
    BY <1>2, <2>1 DEF Holds
<1>4. TypeOK'
  BY <1>1, <1>3 DEF TypeOK, Steps
<1>5. \A d \in Conns : /\ conn'[d].id = conn[d].id
                       /\ At(d, "accepted") <=> At(d, "accepted")'
                       /\ Inserted(d) <=> Inserted(d)'
                       /\ At(d, "registered") <=> At(d, "registered")'
                       /\ At(d, "closed") <=> At(d, "closed")'
  BY <1>1 DEF TypeOK, At, Inserted
<1>6. IdsDrawn' /\ IdsDistinct' /\ Untouched' /\ ScanInPast' /\ ReaderAfterId' /\ RequestOwned'
  BY <1>1, <1>3, <1>5 DEF IdsDrawn, IdsDistinct, Untouched, ScanInPast, ReaderAfterId, RequestOwned
<1>7. EntriesHaveOwners'
  BY <1>3, <1>5 DEF EntriesHaveOwners, TypeOK, Entry
<1>8. WatchFollowsEntry' /\ StatusMatchesSignal' /\ NotYetActive'
  BY <1>3, <1>5 DEF WatchFollowsEntry, StatusMatchesSignal, NotYetActive, InMap, Holds
<1> QED
  BY <1>4, <1>6, <1>7, <1>8
-------------------------------------------------------------------------------
(* Steps that leave the map, the channels and the handlers alone. *)
LEMMA QuietPreserves ==
    ASSUME IInv, UNCHANGED <<sessions, watch, conn>>, TypeOK', RequestOwned',
           counter' = counter, now' >= now, scan'.now <= now',
           \A c \in Conns : reader'[c] # "none" => ~At(c, "accepted")
    PROVE  IInv'
BY DEF IInv, IdsDrawn, IdsDistinct, EntriesHaveOwners, Untouched, WatchFollowsEntry,
       StatusMatchesSignal, NotYetActive, ScanInPast, ReaderAfterId, RequestOwned, At, Inserted, InMap, Holds

LEMMA HandlerPreserves ==
    ASSUME IInv, NEW c \in Conns, Handler(c)
    PROVE  IInv'
<1>1. CASE FetchSeq(c)
  BY <1>1, FetchSeqPreserves
<1>2. CASE Register(c)
  BY <1>2, RegisterPreserves
<1>3. CASE Activate(c)
  BY <1>3, ActivatePreserves
<1>4. CASE RelayCalls(c)
  <2>1. ~At(c, "accepted")
    BY <1>4 DEF RelayCalls, At
  <2> QED
    BY <1>4, <2>1, CallsPreserve DEF RelayCalls
<1>5. CASE SpawnReader(c)
  <2>1. /\ TypeOK' /\ RequestOwned'
        /\ \A d \in Conns : reader'[d] # "none" => ~At(d, "accepted")
    BY <1>5 DEF SpawnReader, IInv, TypeOK, ReaderAfterId, RequestOwned, At
  <2> QED
    BY <1>5, <2>1, QuietPreserves DEF SpawnReader, IInv, ScanInPast, TypeOK
<1>6. CASE ReaderCalls(c)
  <2>1. ~At(c, "accepted")
    BY <1>6 DEF ReaderCalls, IInv, ReaderAfterId
  <2> QED
    BY <1>6, <2>1, CallsPreserve DEF ReaderCalls
<1>7. CASE ReaderEnds(c)
  <2>1. /\ TypeOK' /\ RequestOwned'
        /\ \A d \in Conns : reader'[d] # "none" => ~At(d, "accepted")
    BY <1>7 DEF ReaderEnds, IInv, TypeOK, ReaderAfterId, RequestOwned, At
  <2> QED
    BY <1>7, <2>1, QuietPreserves DEF ReaderEnds, IInv, ScanInPast, TypeOK
<1>8. CASE RelayReturns(c)
  BY <1>8, RelayReturnsPreserves
<1>9. CASE FinalTouch(c)
  BY <1>9, FinalTouchPreserves
<1>10. CASE Unregister(c)
  <2>1. conn[c].id \in Ids
    BY <1>10 DEF Unregister, IInv, IdsDrawn, TypeOK, At, Ids
  <2> QED
    BY <1>10, <2>1, RemovePreserves DEF Unregister
<1> QED
  BY <1>1, <1>2, <1>3, <1>4, <1>5, <1>6, <1>7, <1>8, <1>9, <1>10 DEF Handler

LEMMA RestPreserves ==
    ASSUME IInv, Rest
    PROVE  IInv'
<1>1. ASSUME NEW id \in 1..counter, delete_session(id)
      PROVE  IInv'
  <2>1. id \in Ids
    BY DEF IInv, TypeOK, Ids
  <2> QED
    BY <1>1, <2>1, RemovePreserves DEF delete_session
<1>2. ASSUME NEW id \in 1..counter, VerifySession(id)
      PROVE  IInv'
  <2>1. LET o == sessions[id].shutdown_tx
        IN o \in Conns /\ ~At(o, "accepted") /\ conn[o].id = id
    BY <1>2 DEF VerifySession, IInv, TypeOK, EntriesHaveOwners, Holds, Entry, Inserted, At
  <2>2. TypeOK' /\ RequestOwned'
    BY <1>2, <2>1 DEF VerifySession, IInv, TypeOK, RequestOwned, At
  <2> QED
    BY <1>2, <2>2, QuietPreserves DEF VerifySession, IInv, ScanInPast, ReaderAfterId, RequestOwned, TypeOK
<1>3. CASE AnswerCommands
  <2>1. TypeOK' /\ RequestOwned'
    BY <1>3 DEF AnswerCommands, IInv, TypeOK, RequestOwned, At, NoRequest
  <2> QED
    BY <1>3, <2>1, QuietPreserves DEF AnswerCommands, IInv, ScanInPast, ReaderAfterId, RequestOwned, TypeOK
<1> QED
  BY <1>1, <1>2, <1>3 DEF Rest

LEMMA NextPreserves ==
    ASSUME IInv, [Next]_vars
    PROVE  IInv'
<1>1. ASSUME NEW c \in Conns, Handler(c)
      PROVE  IInv'
  BY <1>1, HandlerPreserves
<1>2. CASE Rest
  BY <1>2, RestPreserves
<1>3. CASE ScanTick
  <2>1. TypeOK' /\ RequestOwned'
    BY <1>3 DEF ScanTick, IInv, TypeOK, RequestOwned, At
  <2> QED
    BY <1>3, <2>1, QuietPreserves DEF ScanTick, IInv, ReaderAfterId, TypeOK
<1>4. CASE DisconnectIdle
  BY <1>4, DisconnectIdlePreserves
<1>5. CASE Tick
  <2>1. TypeOK' /\ RequestOwned'
    BY <1>5 DEF Tick, IInv, TypeOK, RequestOwned, At
  <2>2. scan.now <= now /\ scan.now \in Nat /\ now \in Nat
    BY DEF IInv, ScanInPast, TypeOK
  <2> QED
    BY <1>5, <2>1, <2>2, QuietPreserves DEF Tick, IInv, ReaderAfterId
<1>6. CASE UNCHANGED vars
  <2>1. TypeOK' /\ RequestOwned'
    BY <1>6 DEF vars, IInv, TypeOK, RequestOwned, At
  <2> QED
    BY <1>6, <2>1, QuietPreserves DEF vars, IInv, ScanInPast, ReaderAfterId, RequestOwned, TypeOK
<1> QED
  BY <1>1, <1>2, <1>3, <1>4, <1>5, <1>6 DEF Next
-------------------------------------------------------------------------------
THEOREM InductiveInvariant == Spec => []IInv
BY InitIInv, NextPreserves, PTL DEF Spec

(* Every variable keeps its type. *)
THEOREM TypeCorrect == Spec => []TypeOK
BY InductiveInvariant, PTL DEF IInv

(* No two connections ever share an entry, and no entry outlives the         *)
(* connection that registered it (register, unregister, get_mut).            *)
THEOREM OwnersCorrect == Spec => []EntriesHaveOwners
BY InductiveInvariant, PTL DEF IInv

(* A relay's channel is open exactly as long as its session exists, so that  *)
(* removing the session by any path ends the relay (unregister,              *)
(* delete_session, insert).                                                  *)
THEOREM WatchCorrect == Spec => []WatchFollowsEntry
BY InductiveInvariant, PTL DEF IInv

(* A session reads "Disconnected" exactly when its relay has been told       *)
(* (disconnect_idle, update_status).                                         *)
THEOREM StatusCorrect == Spec => []StatusMatchesSignal
BY InductiveInvariant, PTL DEF IInv

(* The commands endpoint never answers with the commands of another session  *)
(* than the one it verified (get_session_commands).                          *)
THEOREM AnswersCorrect == Spec => []AnswersForVerified
<1>1. IInv => AnswersForVerified
  BY OwnEntry DEF IInv, RequestOwned, AnswersForVerified
<1> QED
  BY <1>1, InductiveInvariant, PTL
-------------------------------------------------------------------------------
(* Only a scan signals: every other step leaves the values of the channels.  *)
LEMMA OnlyScansSignal ==
    ASSUME IInv, [Next]_vars, ~DisconnectIdle, NEW c \in Conns
    PROVE  watch'[c].value = watch[c].value
<1>1. ASSUME NEW id, NEW e, GetMut(id, e)
      PROVE  watch' = watch
  BY <1>1 DEF GetMut
<1>2. ASSUME NEW id, remove(id)
      PROVE  watch'[c].value = watch[c].value
  BY <1>2 DEF remove, IInv, TypeOK, Watch
<1>3. ASSUME NEW d \in Conns, Handler(d)
      PROVE  watch'[c].value = watch[c].value
  <2>1. CASE Register(d)
    BY <2>1 DEF Register, insert, IInv, TypeOK, Watch
  <2>2. CASE Unregister(d)
    BY <2>2, <1>2 DEF Unregister
  <2>3. CASE Activate(d) \/ FinalTouch(d) \/ RelayCalls(d) \/ ReaderCalls(d)
    BY <2>3, <1>1
       DEF Activate, FinalTouch, RelayCalls, ReaderCalls, touch, update_status,
           increment_prompts, increment_messages, set_copilot_session_id, set_available_commands
  <2>4. CASE FetchSeq(d) \/ SpawnReader(d) \/ ReaderEnds(d) \/ RelayReturns(d)
    BY <2>4 DEF FetchSeq, SpawnReader, ReaderEnds, RelayReturns
  <2> QED
    BY <1>3, <2>1, <2>2, <2>3, <2>4 DEF Handler
<1>4. CASE Rest
  BY <1>4, <1>2 DEF Rest, delete_session, VerifySession, AnswerCommands
<1>5. CASE ScanTick \/ Tick \/ UNCHANGED vars
  BY <1>5 DEF ScanTick, Tick, vars
<1> QED
  BY <1>3, <1>4, <1>5 DEF Next

(* A session that is disconnected really has been idle for longer than the   *)
(* timeout at that moment, and its relay is running (disconnect_idle).       *)
THEOREM DisconnectCorrect == Spec => DisconnectOnlyIdle
<1> DEFINE Step ==
        \A c \in Conns :
          ~watch[c].value /\ watch'[c].value =>
              /\ At(c, "relay") \/ At(c, "returned") \/ At(c, "touched")
              /\ now - sessions[conn[c].id].last_activity > IdleTimeout
<1>1. IInv /\ [Next]_vars => Step
  <2> SUFFICES ASSUME IInv, [Next]_vars, NEW c \in Conns, ~watch[c].value, watch'[c].value
               PROVE  /\ At(c, "relay") \/ At(c, "returned") \/ At(c, "touched")
                      /\ now - sessions[conn[c].id].last_activity > IdleTimeout
    OBVIOUS
  <2>1. DisconnectIdle
    BY OnlyScansSignal
  <2>2. PICK id \in IdleIds : sessions[id].shutdown_tx = c
    BY <2>1 DEF DisconnectIdle
  <2>3. /\ conn[c].id = id /\ Inserted(c) /\ ~At(c, "closed")
        /\ Holds(id) /\ sessions[id].status = "Active"
    BY <2>2 DEF IInv, EntriesHaveOwners, IdleIds, Holds
  <2>4. ~At(c, "registered")
    BY <2>3 DEF IInv, NotYetActive
  <2>5. At(c, "relay") \/ At(c, "returned") \/ At(c, "touched")
    BY <2>3, <2>4 DEF IInv, TypeOK, Steps, Inserted, At
  <2>6. now - sessions[id].last_activity > IdleTimeout
    <3>1. /\ now \in Nat /\ scan.now \in Nat /\ scan.now <= now
          /\ sessions[id].last_activity \in Nat /\ IdleTimeout \in Nat
      BY <2>3, IdleTimeoutAssumption DEF IInv, TypeOK, ScanInPast, Holds, Entry
    <3>2. DurationSince(scan.now, sessions[id].last_activity) > IdleTimeout
      BY <2>2 DEF IdleIds
    <3> QED
      BY <3>1, <3>2 DEF DurationSince
  <2> QED
    BY <2>3, <2>5, <2>6
<1> QED
  BY <1>1, InductiveInvariant, PTL DEF Spec, DisconnectOnlyIdle
===============================================================================
