------------------------------ MODULE BridgeProofs ------------------------------
(***************************************************************************)
(* Proofs about Bridge, for every bound and every kind of traffic.  First    *)
(* that the composition implements the relay's specification (Base is all   *)
(* this needs), so that the relay's invariant holds in it; on top of that   *)
(* invariant ConnInv relates the calls still to be made to what the tasks   *)
(* hold (Fits), and what the tracker counted and noted to what went by      *)
(* (PromptCounts, MessageCounts, Listed); and from its counts, that the     *)
(* composition implements the tracker's specification.                     *)
(***************************************************************************)
EXTENDS Bridge, RelayPipeProofs

(* The connection. *)
LEMMA TheConnection == c \in Conns /\ Conns = {c}
  BY OneConnection DEF c

LEMMA ReaderTaskType == ReaderTask \in [Conns -> {"none", "up", "ended"}]
  BY DEF ReaderTask
-------------------------------------------------------------------------------
(* The tracker's types, and that an id that was drawn is one.               *)

Drawn == ~T!At(c, "accepted") => id \in T!Ids

TrackerTyped == T!TypeOK /\ Drawn

(* The relay has been told what its channel says. *)
Follows == told = Told

(* A record of changes to an entry that may be under an id. *)
LEMMA GetMutFacts ==
    ASSUME T!TypeOK, NEW i, NEW e, T!GetMut(i, e), T!Holds(i) => e \in T!Entry
    PROVE  /\ DOMAIN sessions' = DOMAIN sessions
           /\ \A j \in DOMAIN sessions : sessions'[j] \in T!Entry /\ (j # i => sessions'[j] = sessions[j])
           /\ T!Holds(i) => sessions'[i] = e
           /\ watch' = watch
  BY DEF T!GetMut, T!Holds, T!TypeOK

CallNames == {"touch", "prompt", "message", "id", "commands"}

(* What a call changes of the session's entry. *)
LEMMA CallFacts ==
    ASSUME T!TypeOK, NEW name \in CallNames, Call(name)
    PROVE  /\ DOMAIN sessions' = DOMAIN sessions
           /\ \A j \in DOMAIN sessions : sessions'[j] \in T!Entry /\ (j # id => sessions'[j] = sessions[j])
           /\ watch' = watch
           /\ UNCHANGED <<counter, conn, now, scan, request>>
           /\ T!Holds(id) =>
                /\ sessions'[id].prompt_count =
                     sessions[id].prompt_count + (IF name = "prompt" THEN 1 ELSE 0)
                /\ sessions'[id].message_count =
                     sessions[id].message_count + (IF name = "message" THEN 1 ELSE 0)
                /\ IF name = "id" THEN sessions'[id].copilot_session_id \in CopilotIds
                   ELSE sessions'[id].copilot_session_id = sessions[id].copilot_session_id
                /\ IF name = "commands" THEN sessions'[id].available_commands \in CommandLists
                   ELSE sessions'[id].available_commands = sessions[id].available_commands
<1>0. now \in Nat /\ (T!Holds(id) => sessions[id] \in T!Entry)
  BY DEF T!TypeOK, T!Holds
<1> PICK i : i = id
  OBVIOUS
<1>1. CASE name = "touch"
  <2> PICK e : e = [sessions[i] EXCEPT !.last_activity = now]
    OBVIOUS
  <2>1. T!GetMut(i, e)
    BY <1>1 DEF Call, T!touch
  <2>2. T!Holds(i) => e \in T!Entry /\ e = [sessions[i] EXCEPT !.last_activity = now]
    BY <1>0 DEF T!Entry
  <2> QED BY <1>0, <1>1, <2>1, <2>2, GetMutFacts DEF Call, T!Entry
<1>2. CASE name = "prompt"
  <2> PICK e : e = [sessions[i] EXCEPT !.prompt_count = @ + 1]
    OBVIOUS
  <2>1. T!GetMut(i, e)
    BY <1>2 DEF Call, T!increment_prompts
  <2>2. T!Holds(i) => e \in T!Entry /\ e = [sessions[i] EXCEPT !.prompt_count = @ + 1]
    BY <1>0 DEF T!Entry
  <2> QED BY <1>0, <1>2, <2>1, <2>2, GetMutFacts DEF Call, T!Entry
<1>3. CASE name = "message"
  <2> PICK e : e = [sessions[i] EXCEPT !.message_count = @ + 1]
    OBVIOUS
  <2>1. T!GetMut(i, e)
    BY <1>3 DEF Call, T!increment_messages
  <2>2. T!Holds(i) => e \in T!Entry /\ e = [sessions[i] EXCEPT !.message_count = @ + 1]
    BY <1>0 DEF T!Entry
  <2> QED BY <1>0, <1>3, <2>1, <2>2, GetMutFacts DEF Call, T!Entry
<1>4. CASE name = "id"
  <2> PICK cid \in CopilotIds : T!set_copilot_session_id(i, cid) /\ UNCHANGED <<counter, conn, now, scan, request>>
    BY <1>4 DEF Call
  <2> PICK e : e = [sessions[i] EXCEPT !.copilot_session_id = cid]
    OBVIOUS
  <2>1. T!GetMut(i, e)
    BY DEF T!set_copilot_session_id
  <2>2. T!Holds(i) => e \in T!Entry /\ e = [sessions[i] EXCEPT !.copilot_session_id = cid]
    BY <1>0 DEF T!Entry
  <2> QED BY <1>0, <1>4, <2>1, <2>2, GetMutFacts DEF T!Entry
<1>5. CASE name = "commands"
  <2> PICK cmds \in CommandLists : T!set_available_commands(i, cmds) /\ UNCHANGED <<counter, conn, now, scan, request>>
    BY <1>5 DEF Call
  <2> PICK e : e = [sessions[i] EXCEPT !.available_commands = cmds]
    OBVIOUS
  <2>1. T!GetMut(i, e)
    BY DEF T!set_available_commands
  <2>2. T!Holds(i) => e \in T!Entry /\ e = [sessions[i] EXCEPT !.available_commands = cmds]
    BY <1>0 DEF T!Entry
  <2> QED BY <1>0, <1>5, <2>1, <2>2, GetMutFacts DEF T!Entry
<1> QED BY <1>1, <1>2, <1>3, <1>4, <1>5 DEF CallNames

(* Closing a channel, sending over it. *)
LEMMA WatchFacts ==
    ASSUME NEW w \in T!Watch
    PROVE  /\ [w EXCEPT !.open = FALSE] \in T!Watch
           /\ [w EXCEPT !.open = FALSE].value = w.value /\ [w EXCEPT !.open = FALSE].open = FALSE
           /\ [w EXCEPT !.value = TRUE] \in T!Watch
           /\ [w EXCEPT !.value = TRUE].open = w.open /\ [w EXCEPT !.value = TRUE].value = TRUE
  BY DEF T!Watch

LEMMA CloseFacts ==
    ASSUME T!TypeOK, NEW d \in Conns, watch' = [watch EXCEPT ![d].open = FALSE]
    PROVE  watch' \in [Conns -> T!Watch] /\ (Told => Told')
<1> PICK w \in T!Watch : w = [watch[d] EXCEPT !.open = FALSE] /\ w.open = FALSE /\ w.value = watch[d].value
  BY WatchFacts DEF T!TypeOK
<1>1. watch' = [watch EXCEPT ![d] = w]
  OBVIOUS
<1> QED BY <1>1, TheConnection DEF T!TypeOK, Told

(* Dropping an entry. *)
LEMMA RemoveFacts ==
    ASSUME T!TypeOK, NEW i, T!remove(i)
    PROVE  /\ DOMAIN sessions' = DOMAIN sessions \ {i}
           /\ \A j \in DOMAIN sessions' : sessions'[j] = sessions[j]
           /\ watch' \in [Conns -> T!Watch] /\ (Told => Told')
<1>1. CASE T!Holds(i)
  <2> PICK d \in Conns : d = sessions[i].shutdown_tx
    BY <1>1 DEF T!TypeOK, T!Entry, T!Holds
  <2>1. watch' = [watch EXCEPT ![d].open = FALSE]
    BY <1>1 DEF T!remove
  <2> QED BY <2>1, CloseFacts DEF T!remove, T!TypeOK
<1>2. CASE ~T!Holds(i)
  BY <1>2, TheConnection DEF T!remove, T!TypeOK, Told
<1> QED BY <1>1, <1>2

LEMMA HandlerFacts ==
    ASSUME TrackerTyped, Handler
    PROVE  /\ TrackerTyped' /\ (Told => Told')
           /\ \/ UNCHANGED sessions
              \/ T!Register(c)
              \/ T!Activate(c) \/ T!FinalTouch(c) \/ T!Unregister(c)
<1>0. c \in Conns /\ Conns = {c} /\ ReaderTask' \in [Conns -> {"none", "up", "ended"}]
  BY TheConnection DEF ReaderTask
<1>1. CASE T!FetchSeq(c)
  BY <1>0, <1>1 DEF T!FetchSeq, TrackerTyped, T!TypeOK, T!Steps, Drawn, id, T!Ids, T!At, Told
<1>2. CASE T!Register(c)
  <2> PICK e : e = [status |-> "Connecting", last_activity |-> conn[c].instant,
               prompt_count |-> 0, message_count |-> 0,
               copilot_session_id |-> T!None, available_commands |-> T!None,
               shutdown_tx |-> c]
    OBVIOUS
  <2>1. e \in T!Entry
    BY <1>0 DEF TrackerTyped, T!TypeOK, T!Entry, T!Status
  <2>2. T!insert(id, e) /\ id \in T!Ids
    BY <1>2 DEF T!Register, T!At, TrackerTyped, Drawn, id
  <2>3. /\ DOMAIN sessions' = DOMAIN sessions \cup {id}
        /\ \A j \in DOMAIN sessions' : sessions'[j] \in T!Entry
    BY <2>1, <2>2 DEF T!insert, TrackerTyped, T!TypeOK
  <2>4. watch' \in [Conns -> T!Watch] /\ (Told => Told')
    <3>1. CASE T!Holds(id)
      <4> PICK d \in Conns : d = sessions[id].shutdown_tx
        BY <3>1 DEF TrackerTyped, T!TypeOK, T!Entry, T!Holds
      <4> QED BY <3>1, <2>2, CloseFacts DEF T!insert, TrackerTyped
    <3>2. CASE ~T!Holds(id)
      BY <1>0, <3>2, <2>2 DEF T!insert, TrackerTyped, T!TypeOK, Told
    <3> QED BY <3>1, <3>2
  <2>5. T!TypeOK'
    BY <1>0, <1>2, <2>2, <2>3, <2>4 DEF T!Register, T!GoTo, TrackerTyped, T!TypeOK, T!Steps
  <2>6. Drawn'
    BY <1>0, <1>2, <2>2 DEF T!Register, T!GoTo, TrackerTyped, T!TypeOK, Drawn, id, T!At
  <2> QED BY <1>2, <2>4, <2>5, <2>6 DEF TrackerTyped
<1>3. CASE T!Activate(c)
  <2> PICK i : i = id
    OBVIOUS
  <2> PICK e : e = [sessions[i] EXCEPT !.status = "Active", !.last_activity = now]
    OBVIOUS
  <2>1. T!Holds(i) => e \in T!Entry
    BY ZenonT(30) DEF TrackerTyped, T!TypeOK, T!Entry, T!Status, T!Holds
  <2>2. T!GetMut(i, e)
    BY <1>3 DEF T!Activate, T!update_status, id
  <2>3. /\ DOMAIN sessions' = DOMAIN sessions /\ watch' = watch
        /\ \A j \in DOMAIN sessions : sessions'[j] \in T!Entry
    BY <2>1, <2>2, GetMutFacts DEF TrackerTyped
  <2>4. T!TypeOK' /\ Drawn' /\ (Told => Told')
    BY <1>0, <1>3, <2>3
    DEF T!Activate, T!GoTo, T!At, TrackerTyped, T!TypeOK, T!Steps, Drawn, id, Told
  <2> QED BY <1>3, <2>4 DEF TrackerTyped
<1>4. CASE T!FinalTouch(c)
  <2> PICK i : i = id
    OBVIOUS
  <2> PICK e : e = [sessions[i] EXCEPT !.last_activity = now]
    OBVIOUS
  <2>1. T!Holds(i) => e \in T!Entry
    BY DEF TrackerTyped, T!TypeOK, T!Entry, T!Holds
  <2>2. T!GetMut(i, e)
    BY <1>4 DEF T!FinalTouch, T!touch, id
  <2>3. /\ DOMAIN sessions' = DOMAIN sessions /\ watch' = watch
        /\ \A j \in DOMAIN sessions : sessions'[j] \in T!Entry
    BY <2>1, <2>2, GetMutFacts DEF TrackerTyped
  <2>4. T!TypeOK' /\ Drawn' /\ (Told => Told')
    BY <1>0, <1>4, <2>3
    DEF T!FinalTouch, T!GoTo, T!At, TrackerTyped, T!TypeOK, T!Steps, Drawn, id, Told
  <2> QED BY <1>4, <2>4 DEF TrackerTyped
<1>5. CASE T!Unregister(c)
  <2>1. T!remove(id)
    BY <1>5 DEF T!Unregister, id
  <2>2. /\ DOMAIN sessions' = DOMAIN sessions \ {id}
        /\ \A j \in DOMAIN sessions' : sessions'[j] = sessions[j]
        /\ watch' \in [Conns -> T!Watch] /\ (Told => Told')
    BY <2>1, RemoveFacts DEF TrackerTyped
  <2>3. T!TypeOK'
    BY <1>0, <1>5, <2>2 DEF T!Unregister, T!GoTo, TrackerTyped, T!TypeOK, T!Steps
  <2>4. Drawn'
    BY <1>0, <1>5 DEF T!Unregister, T!GoTo, T!At, TrackerTyped, T!TypeOK, Drawn, id, T!Ids
  <2> QED BY <1>5, <2>2, <2>3, <2>4 DEF TrackerTyped
<1> QED BY <1>1, <1>2, <1>3, <1>4, <1>5 DEF Handler, T!FetchSeq

LEMMA OthersFacts ==
    ASSUME TrackerTyped, Others
    PROVE  /\ TrackerTyped' /\ (Told => Told')
           /\ UNCHANGED <<counter, conn>>
           /\ DOMAIN sessions' \subseteq DOMAIN sessions
           /\ \A j \in DOMAIN sessions' :
                /\ sessions'[j].prompt_count = sessions[j].prompt_count
                /\ sessions'[j].message_count = sessions[j].message_count
                /\ sessions'[j].copilot_session_id = sessions[j].copilot_session_id
                /\ sessions'[j].available_commands = sessions[j].available_commands
<1>0. c \in Conns /\ Conns = {c} /\ ReaderTask' \in [Conns -> {"none", "up", "ended"}]
  BY TheConnection DEF ReaderTask
<1>1. ASSUME NEW i \in 1..counter, T!delete_session(i)
      PROVE  /\ T!TypeOK' /\ (Told => Told') /\ UNCHANGED <<counter, conn>>
             /\ DOMAIN sessions' \subseteq DOMAIN sessions
             /\ \A j \in DOMAIN sessions' : sessions'[j] = sessions[j]
  BY <1>0, <1>1, RemoveFacts DEF T!delete_session, TrackerTyped, T!TypeOK
<1>2. CASE T!DisconnectIdle
  <2>1. /\ DOMAIN sessions' = DOMAIN sessions
        /\ \A j \in DOMAIN sessions :
             sessions'[j] \in {sessions[j], [sessions[j] EXCEPT !.status = "Disconnected"]}
    BY <1>2 DEF T!DisconnectIdle
  <2>2. \A j \in DOMAIN sessions :
          /\ sessions'[j] \in T!Entry
          /\ sessions'[j].prompt_count = sessions[j].prompt_count
          /\ sessions'[j].message_count = sessions[j].message_count
          /\ sessions'[j].copilot_session_id = sessions[j].copilot_session_id
          /\ sessions'[j].available_commands = sessions[j].available_commands
    BY <2>1 DEF TrackerTyped, T!TypeOK, T!Entry, T!Status
  <2>3. watch' \in [Conns -> T!Watch] /\ (Told => Told')
    <3>1. \A d \in Conns : watch'[d] \in {watch[d], [watch[d] EXCEPT !.value = TRUE]}
      BY <1>2 DEF T!DisconnectIdle
    <3>2. ASSUME NEW d \in Conns
          PROVE  /\ watch'[d] \in T!Watch /\ watch'[d].open = watch[d].open
                 /\ watch[d].value => watch'[d].value
      <4>1. watch[d] \in T!Watch
        BY DEF TrackerTyped, T!TypeOK
      <4>2. CASE watch'[d] = watch[d]
        BY <4>1, <4>2
      <4>3. CASE watch'[d] = [watch[d] EXCEPT !.value = TRUE]
        <5> PICK w \in T!Watch : w = watch[d]
          BY <4>1
        <5>1. watch'[d] = [w EXCEPT !.value = TRUE]
          BY <4>3
        <5>2. /\ [w EXCEPT !.value = TRUE] \in T!Watch
              /\ [w EXCEPT !.value = TRUE].open = w.open /\ [w EXCEPT !.value = TRUE].value = TRUE
          BY WatchFacts
        <5> QED BY <5>1, <5>2
      <4> QED BY <3>1, <4>2, <4>3
    <3>3. watch' = [d \in Conns |-> watch'[d]]
      BY <1>2 DEF T!DisconnectIdle
    <3> QED BY <1>0, <3>2, <3>3 DEF Told
  <2>4. T!TypeOK'
    BY <1>0, <1>2, <2>1, <2>2, <2>3 DEF T!DisconnectIdle, TrackerTyped, T!TypeOK
  <2> QED BY <1>2, <2>1, <2>2, <2>3, <2>4 DEF T!DisconnectIdle, TrackerTyped, Drawn, id, T!At
<1>3. CASE T!ScanTick \/ T!Tick
  <2>1. T!TypeOK'
    BY <1>0, <1>3 DEF T!ScanTick, T!Tick, TrackerTyped, T!TypeOK
  <2> QED BY <1>3, <2>1 DEF T!ScanTick, T!Tick, TrackerTyped, Drawn, id, T!At, Told
<1>4. CASE \E i \in 1..counter : T!delete_session(i)
  BY <1>1, <1>4 DEF TrackerTyped, Drawn, id, T!At
<1> QED BY <1>2, <1>3, <1>4 DEF Others, IdleChecker
-------------------------------------------------------------------------------
(* The calls that are still to be made.                                     *)

BranchPlans == {<<>>, <<"touch">>, <<"prompt">>, <<"touch", "prompt">>}

UpdatePlans == {<<"touch", "message", "commands">>, <<"message", "commands">>, <<"commands">>}

ReplyPlans == {<<"touch", "id">>, <<"id">>}

CallsTyped == calls \in [branch : BranchPlans, task : {<<>>} \cup UpdatePlans \cup ReplyPlans]

LEMMA PlanFacts ==
    /\ \A p \in BranchPlans \ {<<>>} :
          /\ Head(p) \in {"touch", "prompt"} /\ Tail(p) \in BranchPlans
          /\ Head(p) = "prompt" <=> p = <<"prompt">>
          /\ Tail(p) = IF p = <<"touch", "prompt">> THEN <<"prompt">> ELSE <<>>
    /\ \A p \in UpdatePlans :
          /\ Head(p) \in {"touch", "message", "commands"}
          /\ Head(p) = "commands" <=> p = <<"commands">>
          /\ Head(p) = "message" <=> p = <<"message", "commands">>
          /\ Tail(p) = IF p = <<"commands">> THEN <<>>
                       ELSE IF p = <<"message", "commands">> THEN <<"commands">>
                       ELSE <<"message", "commands">>
    /\ \A p \in ReplyPlans :
          /\ Head(p) \in {"touch", "id"}
          /\ Head(p) = "id" <=> p = <<"id">>
          /\ Tail(p) = IF p = <<"id">> THEN <<>> ELSE <<"id">>
    /\ \A x, y, z : <<x>> # <<>> /\ <<x, y>> # <<z>> /\ <<x, y>> # <<>> /\ <<x, y, z>> # <<>>
    /\ <<"prompt">> # <<"touch">>
<1>1. /\ Head(<<"touch", "prompt">>) = "touch" /\ Tail(<<"touch", "prompt">>) = <<"prompt">>
      /\ Head(<<"touch">>) = "touch" /\ Tail(<<"touch">>) = <<>>
      /\ Head(<<"prompt">>) = "prompt" /\ Tail(<<"prompt">>) = <<>>
      /\ <<"touch", "prompt">> # <<"prompt">> /\ <<"touch">> # <<"prompt">>
      /\ <<"touch", "prompt">> # <<"touch">>
  OBVIOUS
<1>2. /\ Head(<<"touch", "message", "commands">>) = "touch"
      /\ Tail(<<"touch", "message", "commands">>) = <<"message", "commands">>
      /\ Head(<<"message", "commands">>) = "message"
      /\ Tail(<<"message", "commands">>) = <<"commands">>
      /\ Head(<<"commands">>) = "commands" /\ Tail(<<"commands">>) = <<>>
      /\ <<"touch", "message", "commands">> # <<"message", "commands">>
      /\ <<"touch", "message", "commands">> # <<"commands">>
      /\ <<"message", "commands">> # <<"commands">>
  OBVIOUS
<1>3. /\ Head(<<"touch", "id">>) = "touch" /\ Tail(<<"touch", "id">>) = <<"id">>
      /\ Head(<<"id">>) = "id" /\ Tail(<<"id">>) = <<>>
      /\ <<"touch", "id">> # <<"id">>
  OBVIOUS
<1>4. \A p \in BranchPlans \ {<<>>} :
        /\ Head(p) \in {"touch", "prompt"} /\ Tail(p) \in BranchPlans
        /\ Head(p) = "prompt" <=> p = <<"prompt">>
        /\ Tail(p) = IF p = <<"touch", "prompt">> THEN <<"prompt">> ELSE <<>>
  BY <1>1, Zenon DEF BranchPlans
<1>5. \A p \in UpdatePlans :
        /\ Head(p) \in {"touch", "message", "commands"}
        /\ Head(p) = "commands" <=> p = <<"commands">>
        /\ Head(p) = "message" <=> p = <<"message", "commands">>
        /\ Tail(p) = IF p = <<"commands">> THEN <<>>
                     ELSE IF p = <<"message", "commands">> THEN <<"commands">>
                     ELSE <<"message", "commands">>
  BY <1>2, Zenon DEF UpdatePlans
<1>6. \A p \in ReplyPlans :
        /\ Head(p) \in {"touch", "id"}
        /\ Head(p) = "id" <=> p = <<"id">>
        /\ Tail(p) = IF p = <<"id">> THEN <<>> ELSE <<"id">>
  BY <1>3, Zenon DEF ReplyPlans
<1>7. \A x, y, z : <<x>> # <<>> /\ <<x, y>> # <<z>> /\ <<x, y>> # <<>> /\ <<x, y, z>> # <<>>
  OBVIOUS
<1> QED BY <1>1, <1>4, <1>5, <1>6, <1>7

(* The call that is made last is the one a client can see in the list. *)
LEMMA LastCalls ==
    /\ \A p \in UpdatePlans : Tail(p) = <<>> => Head(p) = "commands"
    /\ \A p \in ReplyPlans : Tail(p) = <<>> => Head(p) = "id"
<1>1. <<"message", "commands">> # <<>> /\ <<"commands">> # <<>> /\ <<"id">> # <<>>
  OBVIOUS
<1>2. ASSUME NEW p \in UpdatePlans, Tail(p) = <<>>
      PROVE  Head(p) = "commands"
  <2>1. p = <<"commands">>
    BY <1>1, <1>2, PlanFacts
  <2> QED BY <2>1
<1>3. ASSUME NEW p \in ReplyPlans, Tail(p) = <<>>
      PROVE  Head(p) = "id"
  <2>1. p = <<"id">>
    BY <1>1, <1>3, PlanFacts
  <2> QED BY <2>1
<1> QED BY <1>2, <1>3

LEMMA BranchTail ==
    ASSUME CallsTyped, BranchCall
    PROVE  /\ Head(calls.branch) \in CallNames /\ Call(Head(calls.branch))
           /\ CallsTyped' /\ calls'.branch = Tail(calls.branch) /\ calls'.task = calls.task
<1>0. PICK p \in BranchPlans \ {<<>>} : p = calls.branch
  BY DEF CallsTyped, BranchCall
<1>1. Head(p) \in {"touch", "prompt"} /\ Tail(p) \in BranchPlans
  BY <1>0, PlanFacts
<1>2. calls' = [calls EXCEPT !.branch = Tail(p)] /\ Call(Head(p))
  BY <1>0 DEF BranchCall
<1> QED BY <1>0, <1>1, <1>2 DEF CallsTyped, CallNames

LEMMA TaskTail ==
    ASSUME CallsTyped, ReaderCall
    PROVE  /\ Head(calls.task) \in CallNames \ {"prompt"} /\ Call(Head(calls.task))
           /\ CallsTyped' /\ calls'.task = Tail(calls.task) /\ calls'.branch = calls.branch
<1> PICK p \in UpdatePlans \cup ReplyPlans : p = calls.task
  BY DEF CallsTyped, ReaderCall
<1>1. Head(p) \in CallNames \ {"prompt"} /\ Tail(p) \in {<<>>} \cup UpdatePlans \cup ReplyPlans
  BY PlanFacts DEF CallNames, UpdatePlans, ReplyPlans
<1>2. calls' = [calls EXCEPT !.task = Tail(p)] /\ Call(Head(p))
  BY DEF ReaderCall
<1> QED BY <1>1, <1>2 DEF CallsTyped

LEMMA CallsStep ==
    ASSUME CallsTyped, [ConnNext]_connVars
    PROVE  CallsTyped'
<1>1. \A text, line : CallsOfText(text) \in BranchPlans /\ CallsOfLine(line) \in UpdatePlans \cup ReplyPlans
  BY DEF CallsOfText, CallsOfLine, BranchPlans, UpdatePlans, ReplyPlans
<1>2. <<>> \in BranchPlans
  BY DEF BranchPlans
<1>3. CASE Handler \/ Others \/ Returns \/ Sends \/ World \/ UNCHANGED connVars
  BY <1>3 DEF Handler, Others, IdleChecker, Beside, Returns, Sends, World, connVars, CallsTyped
<1>4. CASE Reads
  BY <1>1, <1>2, <1>4 DEF Reads, BranchCalls, CallsTyped
<1>5. CASE OtherBranches
  BY <1>2, <1>5 DEF OtherBranches, KeepBranchCalls, CallsTyped
<1>6. CASE ReaderMoves
  BY <1>1, <1>6 DEF ReaderMoves, CallsTyped
<1>7. CASE BranchCall \/ ReaderCall
  BY <1>7, BranchTail, TaskTail
<1> QED BY <1>3, <1>4, <1>5, <1>6, <1>7 DEF ConnNext
-------------------------------------------------------------------------------
(* The tracker keeps its types, and the relay is told what its channel says. *)

Base == TrackerTyped /\ CallsTyped /\ Follows

(* What the steps of the relay and the calls leave alone. *)
LEMMA Aside ==
    ASSUME Reads \/ OtherBranches \/ Returns \/ Sends \/ ReaderMoves \/ World
           \/ BranchCall \/ ReaderCall \/ UNCHANGED connVars
    PROVE  told' = told
<1>1. ReadBranch \/ PingBranch \/ ShutdownSeen \/ Finish \/ Sink \/ Reader \/ UNCHANGED vars
      \/ (\E kind \in ClientFrames : Asks(kind)) \/ (\E kind \in CliLines : Says(kind))
      \/ ClientReads \/ ClientLeaves \/ CliReads \/ CliExits \/ Tick
  BY DEF Reads, OtherBranches, Returns, Sends, ReaderMoves, World, BranchCall, ReaderCall, connVars,
         relay, ReadBranch, Finish, Reader
<1>2. ASSUME ReadBranch PROVE told' = told
  BY <1>2 DEF ReadBranch, RecvText, RecvPing, RecvPong, RecvClose, RecvEnd, CountText,
     OpenCli, OpenFails, SendError, SendPong, WriteInvalid, WriteLine, WriteFails, session
<1>3. ASSUME PingBranch \/ ShutdownSeen \/ Finish PROVE told' = told
  BY <1>3 DEF PingBranch, PingTick, SendPing, SendPongTimeout, ShutdownSeen,
     Finish, SendIdleClose, IdleSleepEnds, Return, session
<1>4. ASSUME Sink \/ Reader PROVE told' = told
  BY <1>4 DEF Sink, SinkRecv, SinkSend, SinkFails, SinkLoses, SinkEnds, Reader, ReadLine, ReadEof,
     SendLine, session
<1>5. ASSUME (\E kind \in ClientFrames : Asks(kind)) \/ (\E kind \in CliLines : Says(kind))
             \/ ClientReads \/ ClientLeaves \/ CliReads \/ CliExits \/ Tick
      PROVE  told' = told
  BY <1>5 DEF Asks, Says, ClientReads, ClientLeaves, CliReads, CliExits, Tick, session
<1> QED BY <1>1, <1>2, <1>3, <1>4, <1>5 DEF vars, session

LEMMA TypedKept ==
    ASSUME TrackerTyped, UNCHANGED tracker
    PROVE  TrackerTyped'
<1>1. ReaderTask' \in [Conns -> {"none", "up", "ended"}]
  BY DEF ReaderTask
<1> QED BY <1>1 DEF tracker, TrackerTyped, T!TypeOK, Drawn, id, T!At

LEMMA TypedByCall ==
    ASSUME TrackerTyped, NEW name \in CallNames, Call(name)
    PROVE  TrackerTyped' /\ watch' = watch
<1>1. ReaderTask' \in [Conns -> {"none", "up", "ended"}]
  BY DEF ReaderTask
<1> QED BY <1>1, CallFacts DEF TrackerTyped, T!TypeOK, Drawn, id, T!At

LEMMA BaseStep ==
    ASSUME Base, [ConnNext]_connVars
    PROVE  Base' /\ (told => told')
<1>0. CallsTyped'
  BY CallsStep DEF Base
<1>1. CASE Handler \/ Others
  <2>1. told' = Told' /\ TrackerTyped' /\ (Told => Told')
    BY <1>1, HandlerFacts, OthersFacts DEF Handler, Others, IdleChecker, Notices, Base
  <2> QED BY <1>0, <2>1 DEF Base, Follows
<1>2. CASE Reads \/ OtherBranches \/ Sends \/ ReaderMoves \/ World \/ UNCHANGED connVars
  <2>1. UNCHANGED tracker
    BY <1>2 DEF Reads, OtherBranches, Sends, ReaderMoves, World, connVars
  <2> QED BY <1>0, <1>2, <2>1, Aside, TypedKept DEF Base, Follows, Told, tracker
<1>3. CASE Returns
  <2>1. ReaderTask' \in [Conns -> {"none", "up", "ended"}]
    BY DEF ReaderTask
  <2>2. TrackerTyped'
    BY <1>3, <2>1, TheConnection
    DEF Returns, T!GoTo, Base, TrackerTyped, T!TypeOK, T!Steps, Drawn, id, T!At, Running
  <2> QED BY <1>0, <1>3, <2>2, Aside DEF Base, Follows, Told, Returns
<1>4. CASE BranchCall \/ ReaderCall
  <2> PICK name \in CallNames : Call(name)
    BY <1>4, BranchTail, TaskTail DEF Base
  <2> QED BY <1>0, <1>4, Aside, TypedByCall DEF Base, Follows, Told
<1> QED BY <1>1, <1>2, <1>3, <1>4 DEF ConnNext

LEMMA BaseInit == ConnInit => Base
<1> SUFFICES ASSUME ConnInit PROVE Base
  OBVIOUS
<1>1. T!TypeOK
  <2>1. ReaderTask \in [Conns -> {"none", "up", "ended"}]
    BY ReaderTaskType
  <2> QED BY <2>1 DEF ConnInit, T!Init, T!TypeOK, T!Watch, T!Steps, T!NoRequest
<1>2. Drawn
  BY TheConnection DEF ConnInit, T!Init, Drawn, T!At
<1>3. Follows
  BY TheConnection DEF ConnInit, Init, Follows, Told
<1> QED BY <1>1, <1>2, <1>3 DEF Base, TrackerTyped, CallsTyped, ConnInit, NoCalls, BranchPlans

LEMMA BaseHolds == ConnSpec => []Base
<1>1. Base /\ [ConnNext]_connVars => Base'
  BY BaseStep
<1> QED BY <1>1, BaseInit, PTL DEF ConnSpec

(* Every step of the composition is a step of the relay, or none. *)
LEMMA RelayStep ==
    ASSUME Base, [ConnNext]_connVars
    PROVE  [Next]_vars
<1>1. CASE Handler \/ Others
  <2>1. told \in BOOLEAN /\ told' \in BOOLEAN /\ (told => told')
    BY BaseStep, TheConnection DEF Base, Follows, Told, TrackerTyped, T!TypeOK, T!Watch
  <2>2. Beside
    BY <1>1 DEF Handler, Others, IdleChecker
  <2> QED BY <2>1, <2>2
    DEF Beside, Next, Environment, SessionTells, vars, session
<1>2. CASE Reads \/ OtherBranches \/ Returns \/ Sends \/ ReaderMoves \/ World
  BY <1>2 DEF Reads, OtherBranches, Returns, Sends, ReaderMoves, World, Next, ReadBranch, Finish,
     Reader, Environment
<1>3. CASE BranchCall \/ ReaderCall \/ UNCHANGED connVars
  BY <1>3 DEF BranchCall, ReaderCall, connVars, relay
<1> QED BY <1>1, <1>2, <1>3 DEF ConnNext

(* The tracker does to the shutdown channel only what the relay's model lets *)
(* it do, so whatever is proved of the relay holds in the composition.      *)
THEOREM RelayMeetsTracker == ConnSpec => RelaySpec
<1>1. ConnInit => Init
  BY DEF ConnInit
<1>2. Base /\ [ConnNext]_connVars => [Next]_vars
  BY RelayStep
<1> QED BY <1>1, <1>2, BaseHolds, PTL DEF ConnSpec, RelaySpec, Spec

(* The relay keeps its own invariant in the composition. *)
LEMMA RelayInvHolds == ConnSpec => []IInv
  BY RelayMeetsTracker, RelayInv, PTL DEF RelaySpec
-------------------------------------------------------------------------------
(* How much there is of what the counters count.                            *)

Volume ==
    /\ Number(wsIn, "prompt") <= Number(asked, "prompt")
    /\ Number(asked, "prompt") <= Len(asked) /\ Len(asked) <= MaxAsk
    /\ messages + Updates(stdout) = Updates(said)
    /\ Updates(said) <= Len(said) /\ Len(said) <= MaxSay

(* What a step does to the frames of the client on their way to the relay. *)
LEMMA WsInCases ==
    ASSUME [Next]_vars
    PROVE  \/ UNCHANGED <<wsIn, asked>>
           \/ wsIn # <<>> /\ wsIn' = Tail(wsIn) /\ asked' = asked
           \/ wsIn' = Append(wsIn, Ctl("pong")) /\ asked' = asked
           \/ \E kind \in ClientFrames : Asks(kind)
<1>1. CASE ReadBranch
  BY <1>1 DEF ReadBranch, RecvText, RecvPing, RecvPong, RecvClose, RecvEnd, CountText,
     OpenCli, OpenFails, SendError, SendPong, WriteInvalid, WriteLine, WriteFails, peer
<1>2. CASE PingBranch \/ ShutdownSeen \/ Finish
  BY <1>2 DEF PingBranch, PingTick, SendPing, SendPongTimeout, ShutdownSeen,
     Finish, SendIdleClose, IdleSleepEnds, Return, peer
<1>3. CASE Sink \/ Reader
  BY <1>3 DEF Sink, SinkRecv, SinkSend, SinkFails, SinkLoses, SinkEnds, Reader, ReadLine, ReadEof,
     SendLine, peer
<1>4. CASE Environment
  BY <1>4 DEF Environment, Says, ClientReads, ClientLeaves, CliReads, CliExits, SessionTells, Tick, peer
<1> QED BY <1>1, <1>2, <1>3, <1>4 DEF Next, vars, peer

(* ... and to the lines of the CLI on their way to the reader task. *)
LEMMA StdoutCases ==
    ASSUME [Next]_vars
    PROVE  \/ UNCHANGED <<stdout, said, messages>>
           \/ ReadLine
           \/ \E kind \in CliLines : Says(kind)
<1>1. CASE ReadBranch
  BY <1>1 DEF ReadBranch, RecvText, RecvPing, RecvPong, RecvClose, RecvEnd, CountText,
     OpenCli, OpenFails, SendError, SendPong, WriteInvalid, WriteLine, WriteFails, copilot, counts
<1>2. CASE PingBranch \/ ShutdownSeen \/ Finish
  BY <1>2 DEF PingBranch, PingTick, SendPing, SendPongTimeout, ShutdownSeen,
     Finish, SendIdleClose, IdleSleepEnds, Return, copilot, counts
<1>3. CASE Sink \/ Reader
  BY <1>3 DEF Sink, SinkRecv, SinkSend, SinkFails, SinkLoses, SinkEnds, Reader, ReadEof,
     SendLine, copilot, counts
<1>4. CASE Environment
  BY <1>4 DEF Environment, Asks, ClientReads, ClientLeaves, CliReads, CliExits, SessionTells, Tick,
     copilot, counts
<1> QED BY <1>1, <1>2, <1>3, <1>4 DEF Next, vars, copilot, counts

LEMMA OneFacts == \A x, kind : One(x, kind) \in {0, 1} /\ (One(x, kind) = 1 <=> x.kind = kind)
  BY DEF One

LEMMA VolumeStep ==
    ASSUME TypeOK, Volume, [Next]_vars
    PROVE  Volume'
<1> DEFINE W == Number(wsIn, "prompt")
           A == Number(asked, "prompt")
<1>1. /\ wsIn \in Seq(AnyFrame) /\ asked \in Seq(AnyFrame)
      /\ said \in Seq(AnyFrame) /\ stdout \in Seq(AnyFrame)
      /\ messages \in Nat /\ MaxAsk \in Nat /\ MaxSay \in Nat
  BY AllFrames, BoundsAssumption DEF TypeOK
<1>2. /\ W \in Nat /\ A \in Nat /\ Len(asked) \in Nat
      /\ Updates(stdout) \in Nat /\ Updates(said) \in Nat /\ Len(said) \in Nat
  <2>1. W \in Nat /\ A \in Nat
    BY <1>1, NumberFacts
  <2>2. Updates(stdout) \in Nat /\ Updates(said) \in Nat
    BY <1>1, CountFacts
  <2>3. Len(asked) \in Nat /\ Len(said) \in Nat
    BY <1>1
  <2> QED BY <2>1, <2>2, <2>3
<1>3. W' <= A' /\ A' <= Len(asked') /\ Len(asked') <= MaxAsk
  <2>1. CASE UNCHANGED <<wsIn, asked>>
    BY <2>1 DEF Volume
  <2>2. CASE wsIn # <<>> /\ wsIn' = Tail(wsIn) /\ asked' = asked
    <3>1. W = One(Head(wsIn), "prompt") + Number(Tail(wsIn), "prompt") /\ Number(Tail(wsIn), "prompt") \in Nat
      BY <1>1, <2>2, NumberFacts, HeadTail
    <3>2. W' <= W
      BY <1>2, <2>2, <3>1, OneFacts
    <3> QED BY <1>2, <2>2, <3>1, <3>2 DEF Volume
  <2>3. CASE wsIn' = Append(wsIn, Ctl("pong")) /\ asked' = asked
    <3>1. Ctl("pong") \in AnyFrame /\ Ctl("pong").kind # "prompt"
      BY DEF Ctl, AnyFrame, Frame
    <3>2. W' = W + One(Ctl("pong"), "prompt")
      BY <1>1, <2>3, <3>1, NumberFacts
    <3>3. W' = W
      BY <1>2, <3>1, <3>2, OneFacts
    <3> QED BY <1>2, <2>3, <3>3 DEF Volume
  <2>4. CASE \E kind \in ClientFrames : Asks(kind)
    <3>1. PICK kind \in ClientFrames : Asks(kind)
      BY <2>4
    <3> DEFINE x == [kind |-> kind, n |-> Len(asked) + 1]
    <3>2. x \in AnyFrame /\ wsIn' = Append(wsIn, x) /\ asked' = Append(asked, x) /\ Len(asked) < MaxAsk
      BY <1>2, <3>1, KindsAssumption DEF Asks, AnyFrame, Frame, TextKinds
    <3> HIDE DEF x
    <3>3. W' = W + One(x, "prompt") /\ A' = A + One(x, "prompt")
      BY <1>1, <3>2, NumberFacts
    <3>4. Len(asked') = Len(asked) + 1
      BY <1>1, <3>2
    <3> QED BY <1>1, <1>2, <3>2, <3>3, <3>4, OneFacts, SMTT(30) DEF Volume
  <2> QED BY <2>1, <2>2, <2>3, <2>4, WsInCases
<1>4. /\ messages' + Updates(stdout') = Updates(said')
      /\ Updates(said') <= Len(said') /\ Len(said') <= MaxSay
  <2>1. CASE UNCHANGED <<stdout, said, messages>>
    BY <2>1 DEF Volume
  <2>2. CASE ReadLine
    <3>1. /\ stdout # <<>> /\ stdout' = Tail(stdout) /\ said' = said
          /\ messages' = messages + Count(Head(stdout))
      BY <1>1, <2>2 DEF ReadLine, Count
    <3>2. /\ Updates(stdout) = Count(Head(stdout)) + Updates(Tail(stdout))
          /\ Updates(Tail(stdout)) \in Nat /\ Count(Head(stdout)) \in Nat
      BY <1>1, <3>1, CountFacts, HeadTail DEF Count
    <3>3. Updates(stdout') = Updates(Tail(stdout))
      BY <3>1
    <3> QED BY <1>1, <1>2, <3>1, <3>2, <3>3, SMTT(30) DEF Volume
  <2>3. CASE \E kind \in CliLines : Says(kind)
    <3>1. PICK kind \in CliLines : Says(kind)
      BY <2>3
    <3> DEFINE x == [kind |-> kind, n |-> Len(said) + 1]
    <3>2. /\ x \in AnyFrame /\ stdout' = Append(stdout, x) /\ said' = Append(said, x)
          /\ Len(said) < MaxSay /\ messages' = messages
      BY <1>2, <3>1, KindsAssumption DEF Says, AnyFrame, Frame, LineKinds, counts
    <3> HIDE DEF x
    <3>3. /\ Updates(stdout') = Updates(stdout) + Count(x) /\ Updates(said') = Updates(said) + Count(x)
          /\ Len(said') = Len(said) + 1 /\ Count(x) \in {0, 1}
      BY <1>1, <3>2, CountFacts DEF Count
    <3> QED BY <1>1, <1>2, <3>2, <3>3, SMTT(30) DEF Volume
  <2> QED BY <2>1, <2>2, <2>3, StdoutCases
<1> QED BY <1>3, <1>4 DEF Volume

LEMMA VolumeInit == Init => Volume
<1> SUFFICES ASSUME Init PROVE Volume
  OBVIOUS
<1>1. Number(<<>>, "prompt") = 0 /\ Updates(<<>>) = 0 /\ Len(<<>>) = 0
  BY NumberFacts, CountFacts
<1> QED BY <1>1, BoundsAssumption DEF Init, Volume
-------------------------------------------------------------------------------
(* The calls to be made are of the text, of the line in hand.               *)

Fits ==
    /\ calls.branch # <<>> => /\ InSelect /\ rd.at = "count"
                              /\ rd.frame.kind = "prompt" <=> calls.branch # <<"touch">>
    /\ calls.task # <<>> => reader.at = "send"
    /\ calls.task \in UpdatePlans => reader.line.kind = "update"
    /\ calls.task \in ReplyPlans => reader.line.kind = "reply"

LEMMA PlansDiffer ==
    /\ <<>> \notin UpdatePlans /\ <<>> \notin ReplyPlans
    /\ \A p \in UpdatePlans : p \notin ReplyPlans
  BY PlanFacts DEF UpdatePlans, ReplyPlans

(* The reader task and the frame it holds while the relay moves. *)
LEMMA ReadsKeepReader ==
    ASSUME IInv, Reads
    PROVE  \/ reader' = reader
           \/ reader.at = "none" /\ reader' = [reader EXCEPT !.at = "read"] /\ OpenCli
<1>1. ReadBranch /\ ~OpenCli => reader' = reader
  BY DEF ReadBranch, RecvText, RecvPing, RecvPong, RecvClose, RecvEnd, CountText,
     OpenFails, SendError, SendPong, WriteInvalid, WriteLine, WriteFails
<1>2. OpenCli => reader.at = "none" /\ reader' = [reader EXCEPT !.at = "read"]
  BY DEF OpenCli, Reading, IInv, Typing, CliState
<1>3. ReadBranch
  BY DEF Reads, ReadBranch
<1> QED BY <1>1, <1>2, <1>3

LEMMA ReaderKept ==
    ASSUME OtherBranches \/ Returns \/ Sends \/ World \/ Handler \/ Others \/ BranchCall \/ ReaderCall
           \/ UNCHANGED connVars
    PROVE  reader' = reader
<1>1. CASE OtherBranches \/ Returns
  BY <1>1 DEF OtherBranches, Returns, PingBranch, PingTick, SendPing, SendPongTimeout, ShutdownSeen,
     SendIdleClose, IdleSleepEnds, Return
<1>2. CASE Sends
  BY <1>2 DEF Sends, Sink, SinkRecv, SinkSend, SinkFails, SinkLoses, SinkEnds
<1>3. CASE World
  BY <1>3 DEF World, Asks, Says, ClientReads, ClientLeaves, CliReads, CliExits, Tick
<1>4. CASE Handler \/ Others \/ BranchCall \/ ReaderCall \/ UNCHANGED connVars
  BY <1>4 DEF Handler, Others, IdleChecker, Beside, BranchCall, ReaderCall, connVars, relay, vars
<1> QED BY <1>1, <1>2, <1>3, <1>4

(* The relay's task while others move. *)
LEMMA TaskKept ==
    ASSUME Sends \/ World \/ Handler \/ Others \/ BranchCall \/ ReaderCall \/ ReaderMoves
           \/ UNCHANGED connVars
    PROVE  UNCHANGED <<main, rd, prompts>>
<1>1. CASE Sends
  BY <1>1 DEF Sends, Sink, SinkRecv, SinkSend, SinkFails, SinkLoses, SinkEnds, task, counts
<1>2. CASE World
  BY <1>2 DEF World, Asks, Says, ClientReads, ClientLeaves, CliReads, CliExits, Tick, task, counts
<1>3. CASE Handler \/ Others \/ BranchCall \/ ReaderCall \/ UNCHANGED connVars
  BY <1>3 DEF Handler, Others, IdleChecker, Beside, BranchCall, ReaderCall, connVars, relay, vars,
     task, counts
<1>4. CASE ReaderMoves
  BY <1>4 DEF ReaderMoves, ReadLine, ReadEof, SendLine, task, counts
<1> QED BY <1>1, <1>2, <1>3, <1>4

(* What the read branch does to the text in hand. *)
LEMMA ReadsCases ==
    ASSUME IInv, Base, Fits, Reads
    PROVE  /\ UNCHANGED tracker /\ calls.branch = <<>> /\ calls'.task = calls.task
           /\ \/ /\ RecvText /\ wsIn # <<>> /\ wsIn' = Tail(wsIn)
                 /\ prompts' = prompts /\ main' = "select"
                 /\ \/ rd'.at = "count" /\ rd'.frame = Head(wsIn)
                       /\ calls'.branch = CallsOfText(Head(wsIn))
                    \/ rd'.at # "count" /\ calls'.branch = <<>> /\ Head(wsIn).kind # "prompt"
              \/ /\ Reading("count") /\ rd'.at # "count" /\ calls' = calls
                 /\ prompts' = IF rd.frame.kind = "prompt" THEN prompts + 1 ELSE prompts
              \/ /\ rd'.at # "count" /\ calls' = calls /\ prompts' = prompts
<1>1. UNCHANGED tracker
  BY DEF Reads
<1>2. CASE RecvText /\ BranchCalls(rd'.frame)
  <2>1. /\ Reading("next") /\ wsIn # <<>> /\ wsIn' = Tail(wsIn) /\ prompts' = prompts
        /\ \/ rd' = [at |-> "count", frame |-> Head(wsIn)]
           \/ rd' = [at |-> "next", frame |-> Ctl("none")] /\ Head(wsIn).kind = "blank"
    BY <1>2 DEF RecvText, Read, ReadNext, counts
  <2>2. main' = "select"
    BY <1>2 DEF RecvText, Read, ReadNext, Reading, InSelect
  <2>3. calls.branch = <<>>
    BY <2>1 DEF Fits, Reading
  <2>4. calls'.task = calls.task
        /\ calls'.branch = IF rd'.at = "count" THEN CallsOfText(rd'.frame) ELSE <<>>
    BY <1>2 DEF BranchCalls, Base, CallsTyped
  <2> QED BY <1>1, <1>2, <2>1, <2>2, <2>3, <2>4
<1>3. CASE calls.branch = <<>> /\ CountText /\ UNCHANGED calls
  BY <1>1, <1>3 DEF CountText, Read
<1>4. CASE /\ \/ RecvPing \/ RecvPong \/ RecvClose \/ RecvEnd
              \/ OpenCli \/ OpenFails \/ SendError \/ SendPong
              \/ WriteInvalid \/ WriteLine \/ WriteFails
           /\ UNCHANGED calls
  <2>1. rd.at # "count" /\ rd'.at # "count" /\ prompts' = prompts
    BY <1>4 DEF RecvPing, RecvPong, RecvClose, RecvEnd, OpenCli, OpenFails, SendError, SendPong,
       WriteInvalid, WriteLine, WriteFails, Reading, Read, ReadNext, EndSelect, NotReading, counts, task
  <2>2. calls.branch = <<>>
    BY <2>1 DEF Fits
  <2> QED BY <1>1, <1>4, <2>1, <2>2
<1> QED BY <1>2, <1>3, <1>4 DEF Reads

(* The other branches keep the text in hand, or drop it with its calls. *)
LEMMA OtherCases ==
    ASSUME Base, Fits, OtherBranches
    PROVE  /\ UNCHANGED tracker /\ calls'.task = calls.task /\ prompts' = prompts
           /\ \/ UNCHANGED <<main, rd>> /\ calls'.branch = calls.branch
              \/ (rd'.at # "count" \/ main' # "select") /\ calls'.branch = <<>>
<1>1. UNCHANGED tracker /\ calls'.task = calls.task
      /\ calls'.branch = IF rd'.at = "count" THEN calls.branch ELSE <<>>
  BY DEF OtherBranches, KeepBranchCalls, Base, CallsTyped
<1>2. prompts' = prompts
  BY DEF OtherBranches, PingBranch, PingTick, SendPing, SendPongTimeout, ShutdownSeen,
     SendIdleClose, IdleSleepEnds, counts
<1>3. CASE PingBranch \/ ShutdownSeen
  <2>1. rd'.at = "next" \/ UNCHANGED <<main, rd>>
    BY <1>3 DEF PingBranch, PingTick, SendPing, SendPongTimeout, ShutdownSeen, EndSelect, NotReading
  <2>2. CASE rd'.at = "next"
    BY <1>1, <1>2, <2>2
  <2>3. CASE UNCHANGED <<main, rd>>
    BY <1>1, <1>2, <2>3 DEF Fits
  <2> QED BY <2>1, <2>2, <2>3
<1>4. CASE SendIdleClose \/ IdleSleepEnds
  <2>1. ~InSelect /\ main' # "select" /\ rd' = rd
    BY <1>4 DEF SendIdleClose, IdleSleepEnds, InSelect
  <2>2. calls.branch = <<>>
    BY <2>1 DEF Fits
  <2> QED BY <1>1, <1>2, <2>1, <2>2
<1> QED BY <1>3, <1>4 DEF OtherBranches

(* What the reader task's steps do to its line and its calls. *)
LEMMA ReaderCases ==
    ASSUME IInv, Base, Fits, ReaderMoves
    PROVE  /\ UNCHANGED tracker /\ calls'.branch = calls.branch
           /\ \/ /\ ReadLine /\ reader.at = "read" /\ calls.task = <<>> /\ stdout # <<>>
                 /\ \/ /\ reader' = [at |-> "send", line |-> Head(stdout)]
                       /\ Head(stdout).kind \in {"update", "reply"}
                       /\ calls'.task = CallsOfLine(Head(stdout))
                       /\ messages' = messages + Count(Head(stdout))
                    \/ reader'.at # "send" /\ calls'.task = <<>> /\ messages' = messages
              \/ /\ calls.task = <<>> /\ calls' = calls /\ messages' = messages
                 /\ reader'.at # "send"
<1>1. UNCHANGED tracker
  BY DEF ReaderMoves
<1>2. CASE /\ ReadLine
           /\ calls' = [calls EXCEPT !.task = IF reader'.at = "send" THEN CallsOfLine(reader'.line)
                                             ELSE <<>>]
  <2>1. reader.at = "read" /\ stdout # <<>> /\ calls.task = <<>>
    BY <1>2 DEF ReadLine, Fits
  <2>2. Head(stdout).kind \in LineKinds
    BY <2>1, FrameFacts, HeadTail DEF IInv, Typing, TypeOK, CopilotOK
  <2>3. /\ messages' = messages + Count(Head(stdout))
        /\ Head(stdout).kind \in {"blank", "bad", "garbled"} => UNCHANGED reader \/ ReaderStops
        /\ Head(stdout).kind \in {"update", "reply"} =>
              reader' = [at |-> "send", line |-> Head(stdout)]
    <3>1. messages' = messages + Count(Head(stdout))
      BY <1>2 DEF ReadLine, Count, IInv, Typing, TypeOK
    <3>2. CASE Head(stdout).kind \in {"update", "reply"}
      BY <1>2, <3>1, <3>2 DEF ReadLine, Stops
    <3>3. CASE Head(stdout).kind \in Stops
      BY <1>2, <3>1, <3>3 DEF ReadLine, Stops
    <3>4. CASE Head(stdout).kind \in {"blank", "bad", "garbled"} \ Stops
      BY <1>2, <3>1, <3>4 DEF ReadLine, Stops
    <3> QED BY <2>2, <3>2, <3>3, <3>4 DEF LineKinds, Stops
  <2>4. calls'.branch = calls.branch
        /\ calls'.task = IF reader'.at = "send" THEN CallsOfLine(reader'.line) ELSE <<>>
    BY <1>2 DEF Base, CallsTyped
  <2>5. CASE Head(stdout).kind \in {"blank", "bad", "garbled"}
    <3>1. Count(Head(stdout)) = 0 /\ messages \in Nat
      BY <2>5 DEF Count, IInv, Typing, TypeOK
    <3>2. reader'.at # "send"
      BY <2>1, <2>3, <2>5 DEF ReaderStops
    <3> QED BY <1>1, <1>2, <2>1, <2>3, <2>4, <3>1, <3>2
  <2>6. CASE Head(stdout).kind \in {"update", "reply"}
    BY <1>1, <1>2, <2>1, <2>3, <2>4, <2>6
  <2> QED BY <2>2, <2>5, <2>6 DEF LineKinds
<1>3. CASE ReadEof /\ UNCHANGED calls
  BY <1>1, <1>3 DEF ReadEof, ReaderStops, Fits, counts
<1>4. CASE CallsMade /\ SendLine /\ UNCHANGED calls
  BY <1>1, <1>4 DEF CallsMade, SendLine, ReaderStops, counts
<1> QED BY <1>2, <1>3, <1>4 DEF ReaderMoves

LEMMA TextPlans ==
    \A x : CallsOfText(x) \in BranchPlans \ {<<>>} /\ (x.kind = "prompt" <=> CallsOfText(x) # <<"touch">>)
           /\ (x.kind = "prompt" <=> CallsOfText(x) = <<"touch", "prompt">>)
  BY PlanFacts DEF CallsOfText, BranchPlans

LEMMA LinePlans ==
    \A x : /\ x.kind = "update" => CallsOfLine(x) = <<"touch", "message", "commands">>
           /\ x.kind # "update" => CallsOfLine(x) = <<"touch", "id">>
  BY DEF CallsOfLine

LEMMA FitsStep ==
    ASSUME IInv, IInv', Base, Fits, [ConnNext]_connVars
    PROVE  Fits'
<1> DEFINE BranchFits ==
             calls.branch # <<>> => /\ InSelect /\ rd.at = "count"
                                    /\ rd.frame.kind = "prompt" <=> calls.branch # <<"touch">>
           TaskFits ==
             /\ calls.task # <<>> => reader.at = "send"
             /\ calls.task \in UpdatePlans => reader.line.kind = "update"
             /\ calls.task \in ReplyPlans => reader.line.kind = "reply"
<1>0. BranchFits /\ TaskFits
  BY DEF Fits
<1>1. CASE Reads
  <2>1. BranchFits'
    BY <1>1, ReadsCases, TextPlans DEF InSelect
  <2>2. TaskFits'
    <3>1. calls'.task = calls.task
      BY <1>1, ReadsCases
    <3>2. CASE reader' = reader
      BY <1>0, <3>1, <3>2
    <3>3. CASE reader.at = "none"
      BY <1>0, <3>1, <3>3, PlansDiffer
    <3> QED BY <1>1, <3>2, <3>3, ReadsKeepReader
  <2> QED BY <2>1, <2>2 DEF Fits
<1>2. CASE OtherBranches
  BY <1>0, <1>2, OtherCases, ReaderKept DEF Fits, InSelect
<1>3. CASE ReaderMoves
  <2>1. BranchFits'
    BY <1>0, <1>3, ReaderCases, TaskKept DEF InSelect
  <2>2. TaskFits'
    BY <1>0, <1>3, ReaderCases, LinePlans, PlansDiffer, PlanFacts DEF UpdatePlans, ReplyPlans
  <2> QED BY <2>1, <2>2 DEF Fits
<1>4. CASE BranchCall
  <2>1. calls'.branch = Tail(calls.branch) /\ calls'.task = calls.task /\ calls.branch \in BranchPlans \ {<<>>}
    BY <1>4, BranchTail DEF Base, CallsTyped, BranchCall
  <2>2. UNCHANGED <<main, rd, reader>>
    BY <1>4, TaskKept, ReaderKept
  <2>3. BranchFits'
    BY <1>0, <2>1, <2>2, PlanFacts, SMTT(30) DEF InSelect
  <2> QED BY <1>0, <2>1, <2>2, <2>3 DEF Fits
<1>5. CASE ReaderCall
  <2>1. calls'.task = Tail(calls.task) /\ calls'.branch = calls.branch
        /\ calls.task \in UpdatePlans \cup ReplyPlans
    BY <1>5, TaskTail DEF Base, CallsTyped, ReaderCall
  <2>2. UNCHANGED <<main, rd, reader>>
    BY <1>5, TaskKept, ReaderKept
  <2>3. TaskFits'
    <3>1. CASE calls.task \in UpdatePlans
      <4>1. calls'.task \in UpdatePlans \cup {<<>>}
        BY <2>1, <3>1, PlanFacts DEF UpdatePlans
      <4> QED BY <1>0, <2>2, <3>1, <4>1, PlansDiffer
    <3>2. CASE calls.task \in ReplyPlans
      <4>1. calls'.task \in ReplyPlans \cup {<<>>}
        BY <2>1, <3>2, PlanFacts DEF ReplyPlans
      <4> QED BY <1>0, <2>2, <3>2, <4>1, PlansDiffer
    <3> QED BY <2>1, <3>1, <3>2
  <2> QED BY <1>0, <2>1, <2>2, <2>3 DEF Fits, InSelect
<1>6. CASE Handler \/ Others \/ Returns \/ Sends \/ World \/ UNCHANGED connVars
  <2>1. calls' = calls
    BY <1>6 DEF Handler, Others, IdleChecker, Beside, Returns, Sends, World, connVars
  <2>2. TaskFits'
    BY <1>0, <1>6, <2>1, ReaderKept
  <2>3. BranchFits'
    <3>1. CASE Returns
      BY <1>0, <2>1, <3>1 DEF Returns, Return, InSelect
    <3> QED BY <1>0, <1>6, <2>1, <3>1, TaskKept DEF InSelect
  <2> QED BY <2>2, <2>3 DEF Fits
<1> QED BY <1>1, <1>2, <1>3, <1>4, <1>5, <1>6 DEF ConnNext
-------------------------------------------------------------------------------
(* Nothing has happened before the relay is called.                         *)

Early == conn[c].at \in {"accepted", "numbered", "registered"}

Before ==
    Early =>
        /\ calls = NoCalls /\ InSelect /\ rd.at = "next"
        /\ reader.at = "none" /\ cli = "none" /\ prompts = 0 /\ messages = 0
        /\ chan = <<>> /\ sink.at = "recv" /\ toClient = <<>>
        /\ ~T!At(c, "registered") => DOMAIN sessions = {}

LEMMA BeforeStep ==
    ASSUME IInv, Base, Before, [ConnNext]_connVars
    PROVE  Before'
<1> DEFINE Relaxed ==
             /\ calls = NoCalls /\ InSelect /\ rd.at = "next"
             /\ reader.at = "none" /\ cli = "none" /\ prompts = 0 /\ messages = 0
             /\ chan = <<>> /\ sink.at = "recv" /\ toClient = <<>>
           Empty == ~T!At(c, "registered") => DOMAIN sessions = {}
<1>0. Early => Relaxed /\ Empty
  BY DEF Before
<1>1. CASE Handler
  <2>1. UNCHANGED <<calls, main, rd, reader, cli, prompts, messages, chan, sink, toClient>>
    BY <1>1 DEF Handler, Beside, task, copilot, counts, outbound
  <2>2. Early' => Early /\ Empty'
    BY <1>0, <1>1, TheConnection
    DEF Handler, T!FetchSeq, T!Register, T!Activate, T!FinalTouch, T!Unregister, T!GoTo, T!At,
        Early, Base, TrackerTyped, T!TypeOK
  <2> QED BY <1>0, <2>1, <2>2 DEF Before, InSelect
<1>2. CASE Others
  <2>1. UNCHANGED <<calls, main, rd, reader, cli, prompts, messages, chan, sink, toClient>>
    BY <1>2 DEF Others, IdleChecker, Beside, task, copilot, counts, outbound
  <2>2. conn' = conn /\ DOMAIN sessions' \subseteq DOMAIN sessions
    BY <1>2, OthersFacts DEF Base
  <2> QED BY <1>0, <2>1, <2>2 DEF Before, InSelect, Early, T!At
<1>3. CASE Reads \/ OtherBranches \/ BranchCall \/ Returns
  <2>1. T!At(c, "relay")
    BY <1>3 DEF Reads, OtherBranches, BranchCall, Returns, Running
  <2>2. conn' = conn \/ T!GoTo(c, "returned")
    BY <1>3, BranchTail, CallFacts DEF Reads, OtherBranches, Returns, tracker, Base, TrackerTyped
  <2>3. ~Early'
    BY <2>1, <2>2, TheConnection DEF Early, T!At, T!GoTo, Base, TrackerTyped, T!TypeOK
  <2> QED BY <2>3 DEF Before
<1>4. CASE Sends
  BY <1>4 DEF Sends, Before, Early, tracker, T!Inserted, T!At
<1>5. CASE ReaderCall
  <2>1. ~Early
    BY <1>0, <1>5 DEF ReaderCall, NoCalls
  <2>2. conn' = conn
    BY <1>5, TaskTail, CallFacts DEF Base, TrackerTyped
  <2> QED BY <2>1, <2>2 DEF Before, Early
<1>6. CASE ReaderMoves
  <2>1. ~Early
    BY <1>0, <1>6 DEF ReaderMoves, ReadLine, ReadEof, SendLine
  <2> QED BY <1>6, <2>1 DEF Before, Early, ReaderMoves, tracker
<1>7. CASE World
  <2>1. UNCHANGED <<tracker, calls>>
    BY <1>7 DEF World
  <2>2. UNCHANGED <<main, rd, reader, prompts, messages, chan, sink, toClient>>
    BY <1>7 DEF World, Asks, Says, ClientReads, ClientLeaves, CliReads, CliExits, Tick, task, counts, outbound
  <2>3. cli = "none" => cli' = "none"
    BY <1>7 DEF World, Asks, Says, ClientReads, ClientLeaves, CliReads, CliExits, Tick, copilot
  <2> QED BY <1>0, <2>1, <2>2, <2>3 DEF Before, Early, InSelect, tracker, T!At
<1>8. CASE UNCHANGED connVars
  BY <1>0, <1>8 DEF connVars, tracker, relay, vars, task, copilot, counts, outbound, Before, Early,
     InSelect, T!At
<1> QED BY <1>1, <1>2, <1>3, <1>4, <1>5, <1>6, <1>7, <1>8 DEF ConnNext

LEMMA BeforeInit == ConnInit => Before
  BY TheConnection DEF ConnInit, Init, T!Init, Before, Early, InSelect, NotReading, T!At
-------------------------------------------------------------------------------
(* What a step does to the session's entry.                                 *)

(* What the tracker's entry says of the traffic stays as it is. *)
Quiet ==
    T!Holds(id)' =>
        /\ T!Holds(id) /\ id' = id
        /\ sessions'[id].prompt_count = sessions[id].prompt_count
        /\ sessions'[id].message_count = sessions[id].message_count
        /\ sessions'[id].copilot_session_id = sessions[id].copilot_session_id
        /\ sessions'[id].available_commands = sessions[id].available_commands

(* The entry is new. *)
Fresh ==
    /\ Early
    /\ sessions'[id'].prompt_count = 0 /\ sessions'[id'].message_count = 0

LEMMA RegisterFresh ==
    ASSUME Base, T!Register(c)
    PROVE  Fresh
<1> PICK e : e = [status |-> "Connecting", last_activity |-> conn[c].instant,
              prompt_count |-> 0, message_count |-> 0,
              copilot_session_id |-> T!None, available_commands |-> T!None,
              shutdown_tx |-> c]
  OBVIOUS
<1>1. T!insert(id, e) /\ id' = id /\ Early
  BY TheConnection DEF T!Register, T!GoTo, T!At, id, Base, TrackerTyped, T!TypeOK, Early
<1>2. sessions'[id] = e
  BY <1>1 DEF T!insert
<1> QED BY <1>1, <1>2 DEF Fresh

LEMMA HandlerEntry ==
    ASSUME Base, Before, Handler
    PROVE  Quiet \/ Fresh
<1>0. T!TypeOK /\ c \in Conns
  BY TheConnection DEF Base, TrackerTyped
<1>1. CASE T!FetchSeq(c)
  <2>1. DOMAIN sessions' = {}
    BY <1>1 DEF T!FetchSeq, T!At, Before, Early
  <2> QED BY <2>1 DEF Quiet, T!Holds
<1>2. CASE T!Register(c)
  BY <1>2, RegisterFresh
<1>3. CASE T!Activate(c)
  <2> PICK i : i = id
    OBVIOUS
  <2> PICK e : e = [sessions[i] EXCEPT !.status = "Active", !.last_activity = now]
    OBVIOUS
  <2>1. id' = id
    BY <1>0, <1>3 DEF T!Activate, T!GoTo, id, T!TypeOK
  <2>2. T!GetMut(i, e)
    BY <1>3 DEF T!Activate, T!update_status, id
  <2>3. T!Holds(i) => /\ e \in T!Entry
                      /\ e.prompt_count = sessions[i].prompt_count
                      /\ e.message_count = sessions[i].message_count
                      /\ e.copilot_session_id = sessions[i].copilot_session_id
                      /\ e.available_commands = sessions[i].available_commands
    BY <1>0, ZenonT(30) DEF T!TypeOK, T!Entry, T!Status, T!Holds
  <2>4. DOMAIN sessions' = DOMAIN sessions /\ (T!Holds(i) => sessions'[i] = e)
    BY <1>0, <2>2, <2>3, GetMutFacts
  <2> QED BY <2>1, <2>3, <2>4 DEF Quiet, T!Holds
<1>4. CASE T!FinalTouch(c)
  <2> PICK i : i = id
    OBVIOUS
  <2> PICK e : e = [sessions[i] EXCEPT !.last_activity = now]
    OBVIOUS
  <2>1. id' = id
    BY <1>0, <1>4 DEF T!FinalTouch, T!GoTo, id, T!TypeOK
  <2>2. T!GetMut(i, e)
    BY <1>4 DEF T!FinalTouch, T!touch, id
  <2>3. T!Holds(i) => /\ e \in T!Entry
                      /\ e.prompt_count = sessions[i].prompt_count
                      /\ e.message_count = sessions[i].message_count
                      /\ e.copilot_session_id = sessions[i].copilot_session_id
                      /\ e.available_commands = sessions[i].available_commands
    BY <1>0 DEF T!TypeOK, T!Entry, T!Holds
  <2> QED BY <1>0, <2>1, <2>2, <2>3, GetMutFacts, ZenonT(30) DEF Quiet, T!Holds
<1>5. CASE T!Unregister(c)
  <2>1. id' = id
    BY <1>0, <1>5 DEF T!Unregister, T!GoTo, id, T!TypeOK
  <2>2. ~T!Holds(id)'
    BY <1>0, <1>5, <2>1, RemoveFacts DEF T!Unregister, T!Holds, id
  <2> QED BY <2>2 DEF Quiet
<1> QED BY <1>1, <1>2, <1>3, <1>4, <1>5 DEF Handler

LEMMA OthersEntry ==
    ASSUME Base, Others
    PROVE  Quiet
  BY OthersFacts DEF Base, Quiet, T!Holds, id

(* A call reaches the entry, if it is still there. *)
LEMMA CallEntry ==
    ASSUME Base, NEW name \in CallNames, Call(name)
    PROVE  /\ id' = id /\ (T!Holds(id)' <=> T!Holds(id))
           /\ T!Holds(id) =>
                /\ sessions'[id].prompt_count =
                     sessions[id].prompt_count + (IF name = "prompt" THEN 1 ELSE 0)
                /\ sessions'[id].message_count =
                     sessions[id].message_count + (IF name = "message" THEN 1 ELSE 0)
                /\ IF name = "id" THEN sessions'[id].copilot_session_id \in CopilotIds
                   ELSE sessions'[id].copilot_session_id = sessions[id].copilot_session_id
                /\ IF name = "commands" THEN sessions'[id].available_commands \in CommandLists
                   ELSE sessions'[id].available_commands = sessions[id].available_commands
<1>1. id' = id
  BY CallFacts DEF Base, TrackerTyped, id
<1> QED BY <1>1, CallFacts DEF Base, TrackerTyped, T!Holds

LEMMA QuietOtherwise ==
    ASSUME Base, Reads \/ OtherBranches \/ Returns \/ Sends \/ ReaderMoves \/ World \/ UNCHANGED connVars
    PROVE  Quiet
<1>1. UNCHANGED sessions /\ (UNCHANGED conn \/ T!GoTo(c, "returned"))
  BY DEF Reads, OtherBranches, Returns, Sends, ReaderMoves, World, connVars, tracker
<1>2. id' = id
  BY <1>1, TheConnection DEF T!GoTo, id, Base, TrackerTyped, T!TypeOK
<1> QED BY <1>1, <1>2 DEF Quiet, T!Holds

LEMMA EntryTyped ==
    ASSUME Base, T!Holds(id)
    PROVE  sessions[id].prompt_count \in Nat /\ sessions[id].message_count \in Nat
  BY DEF Base, TrackerTyped, T!TypeOK, T!Holds, T!Entry
-------------------------------------------------------------------------------
(* What the session list says, and what was delivered and sent.             *)

Holding == T!Holds(id)

(* A prompt whose count is still to be made, one that is counted by the      *)
(* tracker and not yet by the relay, an update whose count is to be made.    *)
PromptDue == IF calls.branch \in {<<"prompt">>, <<"touch", "prompt">>} THEN 1 ELSE 0

PromptCounted ==
    IF Reading("count") /\ rd.frame.kind = "prompt" /\ calls.branch = <<>> THEN 1 ELSE 0

UpdateDue ==
    IF calls.task \in {<<"touch", "message", "commands">>, <<"message", "commands">>} THEN 1 ELSE 0

PromptCounts ==
    Holding =>
        /\ prompts + PromptCounted <= sessions[id].prompt_count
        /\ sessions[id].prompt_count + PromptDue + Number(wsIn, "prompt") <= Number(asked, "prompt")

MessageCounts == Holding => sessions[id].message_count + UpdateDue = messages

(* A line of the kind is on its way to the client, or may be sent to it. *)
Passed(kind) == OnItsWay(kind) \/ (reader.line.kind = kind /\ calls.task = <<>>)

Listed ==
    Holding =>
        /\ Passed("reply") => sessions[id].copilot_session_id # T!None
        /\ Passed("update") => sessions[id].available_commands # T!None

ConnInv ==
    /\ Base /\ Volume /\ Fits /\ Before
    /\ PromptCounts /\ MessageCounts /\ Listed

LEMMA FitsInit == ConnInit => Fits
<1> SUFFICES ASSUME ConnInit PROVE Fits
  OBVIOUS
<1>1. calls.branch = <<>> /\ calls.task = <<>>
  BY DEF ConnInit, NoCalls
<1> QED BY <1>1, PlansDiffer DEF Fits

(* The prompts that are with the relay are none but those the client sent. *)
LEMMA TrafficKept ==
    ASSUME TypeOK, [Next]_vars
    PROVE  /\ {Number(wsIn, "prompt"), Number(wsIn, "prompt")',
              Number(asked, "prompt"), Number(asked, "prompt")'} \subseteq Nat
           /\ Number(wsIn, "prompt")' + Number(asked, "prompt")
                <= Number(wsIn, "prompt") + Number(asked, "prompt")'
           /\ wsIn # <<>> => /\ Head(wsIn) \in AnyFrame
                             /\ Number(wsIn, "prompt") =
                                  One(Head(wsIn), "prompt") + Number(Tail(wsIn), "prompt")
<1> DEFINE W == Number(wsIn, "prompt")
           A == Number(asked, "prompt")
<1>1. wsIn \in Seq(AnyFrame) /\ asked \in Seq(AnyFrame)
  BY AllFrames DEF TypeOK
<1>2. W \in Nat /\ A \in Nat
  BY <1>1, NumberFacts
<1>3. wsIn # <<>> => /\ Head(wsIn) \in AnyFrame /\ Number(Tail(wsIn), "prompt") \in Nat
                     /\ W = One(Head(wsIn), "prompt") + Number(Tail(wsIn), "prompt")
  BY <1>1, NumberFacts, HeadTail
<1>4. W' \in Nat /\ A' \in Nat /\ W' + A <= W + A'
  <2>1. CASE UNCHANGED <<wsIn, asked>>
    BY <1>2, <2>1
  <2>2. CASE wsIn # <<>> /\ wsIn' = Tail(wsIn) /\ asked' = asked
    <3>1. W' = Number(Tail(wsIn), "prompt") /\ A' = A
      BY <2>2
    <3> QED BY <1>2, <1>3, <2>2, <3>1, OneFacts
  <2>3. CASE wsIn' = Append(wsIn, Ctl("pong")) /\ asked' = asked
    <3>1. Ctl("pong") \in AnyFrame /\ Ctl("pong").kind # "prompt"
      BY DEF Ctl, AnyFrame, Frame
    <3>2. W' = W + One(Ctl("pong"), "prompt") /\ A' = A
      BY <1>1, <2>3, <3>1, NumberFacts
    <3> QED BY <1>2, <3>1, <3>2, OneFacts
  <2>4. CASE \E kind \in ClientFrames : Asks(kind)
    <3>1. PICK kind \in ClientFrames : Asks(kind)
      BY <2>4
    <3> DEFINE x == [kind |-> kind, n |-> Len(asked) + 1]
    <3>2. Len(asked) \in Nat
      BY <1>1
    <3>3. x \in AnyFrame /\ wsIn' = Append(wsIn, x) /\ asked' = Append(asked, x)
      BY <3>1, <3>2, KindsAssumption DEF Asks, AnyFrame, Frame, TextKinds
    <3> HIDE DEF x
    <3>4. W' = W + One(x, "prompt") /\ A' = A + One(x, "prompt")
      BY <1>1, <3>3, NumberFacts
    <3> QED BY <1>2, <3>4, OneFacts
  <2> QED BY <2>1, <2>2, <2>3, <2>4, WsInCases
<1> QED BY <1>2, <1>3, <1>4

(* What no step but the reader task's changes of the updates' count. *)
LEMMA MessagesKept ==
    ASSUME Handler \/ Others \/ Reads \/ BranchCall \/ OtherBranches \/ Returns \/ Sends
           \/ ReaderCall \/ World \/ UNCHANGED connVars
    PROVE  messages' = messages
<1>1. CASE Reads
  BY <1>1 DEF Reads, RecvText, RecvPing, RecvPong, RecvClose, RecvEnd, CountText,
     OpenCli, OpenFails, SendError, SendPong, WriteInvalid, WriteLine, WriteFails, counts
<1>2. CASE OtherBranches \/ Returns
  BY <1>2 DEF OtherBranches, Returns, PingBranch, PingTick, SendPing, SendPongTimeout, ShutdownSeen,
     SendIdleClose, IdleSleepEnds, Return, counts
<1>3. CASE Sends \/ World
  BY <1>3 DEF Sends, Sink, SinkRecv, SinkSend, SinkFails, SinkLoses, SinkEnds,
     World, Asks, Says, ClientReads, ClientLeaves, CliReads, CliExits, Tick, counts
<1>4. CASE Handler \/ Others \/ BranchCall \/ ReaderCall \/ UNCHANGED connVars
  BY <1>4 DEF Handler, Others, IdleChecker, Beside, BranchCall, ReaderCall, connVars, relay, vars,
     counts
<1> QED BY <1>1, <1>2, <1>3, <1>4

LEMMA PromptStep ==
    ASSUME IInv, IInv', Base, Base', Volume', Fits, Before, PromptCounts, [ConnNext]_connVars
    PROVE  PromptCounts'
<1> DEFINE W == Number(wsIn, "prompt")
           A == Number(asked, "prompt")
           n == sessions[id].prompt_count
<1> SUFFICES ASSUME Holding'
             PROVE  /\ prompts' + PromptCounted' <= n'
                    /\ n' + PromptDue' + W' <= A'
  BY DEF PromptCounts
<1>0. TypeOK /\ TypeOK' /\ [Next]_vars
  BY RelayStep DEF IInv, Typing
<1>a. PICK w \in Nat, w2 \in Nat, a \in Nat, a2 \in Nat :
         /\ w = W /\ w2 = W' /\ a = A /\ a2 = A'
         /\ w2 + a <= w + a2 /\ w2 <= a2
  BY <1>0, TrafficKept DEF Volume
<1>b. PICK p \in Nat, p2 \in Nat : p = prompts /\ p2 = prompts'
  BY <1>0 DEF TypeOK
<1>c. PICK d \in Nat, d2 \in Nat : d = PromptDue /\ d2 = PromptDue'
  BY DEF PromptDue
<1>d. PICK q \in Nat, q2 \in Nat : q = PromptCounted /\ q2 = PromptCounted'
  BY DEF PromptCounted
<1>e. PICK m2 \in Nat : m2 = n'
  BY DEF Base, TrackerTyped, T!TypeOK, Holding, T!Holds, T!Entry
<1>f. PICK m \in Nat : Holding => m = n /\ p + q <= m /\ m + d + w <= a
  BY <1>a, <1>b, <1>c, <1>d, EntryTyped DEF Holding, PromptCounts
<1>g. /\ w \in Nat /\ w2 \in Nat /\ a \in Nat /\ a2 \in Nat
      /\ p \in Nat /\ p2 \in Nat /\ d \in Nat /\ d2 \in Nat
      /\ q \in Nat /\ q2 \in Nat /\ m \in Nat /\ m2 \in Nat
  BY <1>a, <1>b, <1>c, <1>d, <1>e, <1>f
<1>h. w2 + a <= w + a2 /\ w2 <= a2
  BY <1>a
<1> SUFFICES p2 + q2 <= m2 /\ m2 + d2 + w2 <= a2
  BY <1>a, <1>b, <1>c, <1>d, <1>e
<1>i. Quiet => Holding /\ m2 = m
  BY <1>e, <1>f DEF Quiet, Holding
<1> HIDE DEF n, W, A
<1>2. CASE Quiet /\ prompts' = prompts /\ d2 <= d /\ q2 <= q
  <2>1. p2 = p /\ m2 = m /\ p + q <= m /\ m + d + w <= a /\ d2 <= d /\ q2 <= q
    BY <1>b, <1>f, <1>i, <1>2
  <2> QED BY <1>g, <1>h, <2>1
<1>3. CASE Handler \/ Others
  <2>1. UNCHANGED <<task, calls, prompts>>
    BY <1>3 DEF Handler, Others, IdleChecker, Beside, counts
  <2>2. d2 = d /\ q2 = q
    BY <1>c, <1>d, <2>1 DEF PromptDue, PromptCounted, Reading, InSelect, task
  <2>3. CASE Fresh
    <3>1. m2 = 0 /\ p2 = 0
      BY <1>b, <1>e, <2>1, <2>3 DEF Fresh, Before, n
    <3>2. d2 = 0 /\ q2 = 0
      BY <1>c, <1>d, <2>2, <2>3, PlanFacts DEF Fresh, Before, NoCalls, PromptDue, PromptCounted, Reading
    <3> QED BY <1>g, <1>h, <3>1, <3>2
  <2>4. CASE Quiet
    <3>1. prompts' = prompts /\ d2 <= d /\ q2 <= q
      BY <1>g, <2>1, <2>2
    <3> QED BY <1>2, <2>4, <3>1
  <2> QED BY <1>3, <2>3, <2>4, HandlerEntry, OthersEntry
<1>4. CASE Returns \/ Sends \/ ReaderMoves \/ World \/ UNCHANGED connVars
  <2>1. Quiet
    BY <1>4, QuietOtherwise
  <2>2. calls'.branch = calls.branch
    BY <1>4, ReaderCases DEF Returns, Sends, World, connVars
  <2>3. rd' = rd /\ prompts' = prompts /\ (InSelect' => InSelect)
    BY <1>4, TaskKept DEF Returns, Return, InSelect, counts
  <2>4. d2 = d /\ q2 <= q
    BY <1>c, <1>d, <1>g, <2>2, <2>3 DEF PromptDue, PromptCounted, Reading
  <2>5. d2 <= d /\ q2 <= q
    BY <1>g, <2>4
  <2> QED BY <1>2, <2>1, <2>3, <2>5
<1>5. CASE OtherBranches
  <2>1. Quiet
    BY <1>5, QuietOtherwise
  <2>2. d2 <= d /\ q2 <= q
    BY <1>5, <1>c, <1>d, <1>g, OtherCases, PlanFacts DEF PromptDue, PromptCounted, Reading, InSelect
  <2> QED BY <1>2, <1>5, <2>1, <2>2, OtherCases
<1>6. CASE Reads
  <2>1. Quiet /\ calls.branch = <<>> /\ d = 0
    BY <1>6, <1>c, QuietOtherwise, ReadsCases, PlanFacts DEF PromptDue
  <2>2. CASE /\ wsIn # <<>> /\ wsIn' = Tail(wsIn) /\ prompts' = prompts /\ asked' = asked
             /\ \/ /\ rd'.at = "count" /\ rd'.frame = Head(wsIn)
                   /\ calls'.branch = CallsOfText(Head(wsIn))
                \/ rd'.at # "count" /\ calls'.branch = <<>> /\ Head(wsIn).kind # "prompt"
    <3>0. PICK o \in Nat : o = One(Head(wsIn), "prompt")
      BY DEF One
    <3>1. w = o + w2 /\ a2 = a
      <4>1. W = One(Head(wsIn), "prompt") + Number(Tail(wsIn), "prompt")
        BY <1>0, <2>2, TrafficKept DEF W
      <4> QED BY <1>a, <2>2, <3>0, <4>1 DEF W, A
    <3>2. q2 = 0
      BY <1>d, <2>2, TextPlans DEF PromptCounted, Reading
    <3>3. d2 = o
      BY <1>c, <2>2, <3>0, TextPlans, PlanFacts DEF PromptDue, One, BranchPlans
    <3>4. p2 = p /\ m2 = m /\ p + q <= m /\ m + d + w <= a /\ d = 0 /\ o \in Nat
      BY <1>b, <1>f, <1>i, <2>1, <2>2, <3>0
    <3> QED BY <1>g, <1>h, <3>1, <3>2, <3>3, <3>4
  <2>3. CASE /\ Reading("count") /\ rd'.at # "count" /\ calls' = calls
             /\ prompts' = IF rd.frame.kind = "prompt" THEN prompts + 1 ELSE prompts
    <3>1. q2 = 0 /\ d2 = d
      BY <1>c, <1>d, <2>3 DEF PromptCounted, PromptDue, Reading
    <3>2. p2 = p + q
      BY <1>b, <1>d, <1>g, <2>1, <2>3 DEF PromptCounted
    <3>3. m2 = m /\ p + q <= m /\ m + d + w <= a
      BY <1>f, <1>i, <2>1
    <3> QED BY <1>g, <1>h, <3>1, <3>2, <3>3
  <2>4. CASE rd'.at # "count" /\ calls' = calls /\ prompts' = prompts
    <3>1. q2 = 0 /\ d2 = d
      BY <1>c, <1>d, <2>4 DEF PromptCounted, PromptDue, Reading
    <3>2. d2 <= d /\ q2 <= q
      BY <1>g, <3>1
    <3> QED BY <1>2, <2>1, <2>4, <3>2
  <2>5. RecvText => asked' = asked
    BY DEF RecvText
  <2> QED BY <1>6, <2>2, <2>3, <2>4, <2>5, ReadsCases
<1>7. CASE BranchCall
  <2>1. /\ Head(calls.branch) \in CallNames /\ Call(Head(calls.branch))
        /\ calls'.branch = Tail(calls.branch) /\ calls.branch \in BranchPlans \ {<<>>}
    BY <1>7, BranchTail DEF Base, CallsTyped, BranchCall
  <2> PICK name \in CallNames : name = Head(calls.branch)
    BY <2>1
  <2>2. UNCHANGED <<main, rd, prompts>> /\ UNCHANGED <<wsIn, asked>>
    BY <1>7, TaskKept DEF BranchCall, relay, vars, peer
  <2>3. p2 = p /\ w2 = w /\ a2 = a
    BY <1>a, <1>b, <2>2 DEF W, A
  <2>4. Holding
    BY <2>1, CallEntry DEF Holding
  <2>5. p + q <= m /\ m + d + w <= a
    BY <1>f, <2>4
  <2>6. m2 = m + (IF name = "prompt" THEN 1 ELSE 0)
    BY <1>e, <1>f, <2>1, <2>4, CallEntry DEF Holding, n
  <2>7. Reading("count") /\ (rd.frame.kind = "prompt" <=> calls.branch # <<"touch">>)
    BY <2>1 DEF Fits, Reading
  <2>8. CASE calls.branch = <<"touch">>
    <3>1. name = "touch" /\ calls'.branch = <<>>
      BY <2>1, <2>8, PlanFacts
    <3>2. q2 = 0 /\ d2 = 0
      BY <1>c, <1>d, <2>2, <2>7, <2>8, <3>1, PlanFacts DEF PromptCounted, PromptDue
    <3>3. m2 = m + 0
      BY <2>6, <3>1
    <3> QED BY <1>g, <2>3, <2>5, <1>h, <3>2, <3>3
  <2>9. CASE calls.branch = <<"prompt">>
    <3>1. name = "prompt" /\ calls'.branch = <<>>
      BY <2>1, <2>9, PlanFacts
    <3>2. d = 1 /\ d2 = 0 /\ q = 0 /\ (q2 = 0 \/ q2 = 1)
      BY <1>c, <1>d, <2>9, <3>1, PlanFacts DEF PromptDue, PromptCounted
    <3>3. m2 = m + 1
      BY <2>6, <3>1
    <3> QED BY <1>g, <2>3, <2>5, <1>h, <3>2, <3>3
  <2>10. CASE calls.branch = <<"touch", "prompt">>
    <3>1. name = "touch" /\ calls'.branch = <<"prompt">>
      BY <2>1, <2>10, PlanFacts
    <3>2. d = 1 /\ d2 = 1 /\ q2 = 0
      BY <1>c, <1>d, <2>10, <3>1, PlanFacts DEF PromptDue, PromptCounted
    <3>3. m2 = m + 0
      BY <2>6, <3>1
    <3> QED BY <1>g, <2>3, <2>5, <1>h, <3>2, <3>3
  <2> QED BY <2>1, <2>8, <2>9, <2>10 DEF BranchPlans
<1>8. CASE ReaderCall
  <2> PICK name \in CallNames : Call(name) /\ name # "prompt" /\ calls'.branch = calls.branch
    BY <1>8, TaskTail DEF Base
  <2>1. Holding
    BY CallEntry DEF Holding
  <2>2. m2 = m + 0 /\ p + q <= m /\ m + d + w <= a
    BY <1>e, <1>f, <2>1, CallEntry DEF Holding, n
  <2>3. UNCHANGED <<main, rd, prompts>>
    BY <1>8, TaskKept
  <2>4. d2 = d /\ q2 = q
    BY <1>c, <1>d, <2>3 DEF PromptDue, PromptCounted, Reading, InSelect
  <2>5. p2 = p /\ w2 + a <= w + a2
    BY <1>b, <1>h, <2>3
  <2> QED BY <1>g, <2>2, <2>4, <2>5
<1> QED BY <1>3, <1>4, <1>5, <1>6, <1>7, <1>8 DEF ConnNext

LEMMA MessageStep ==
    ASSUME IInv, IInv', Base, Base', Fits, Before, MessageCounts, [ConnNext]_connVars
    PROVE  MessageCounts'
<1> DEFINE n == sessions[id].message_count
<1> SUFFICES ASSUME Holding' PROVE n' + UpdateDue' = messages'
  BY DEF MessageCounts
<1>a. PICK p \in Nat, p2 \in Nat : p = messages /\ p2 = messages'
  BY DEF IInv, Typing, TypeOK
<1>b. PICK d \in Nat, d2 \in Nat : d = UpdateDue /\ d2 = UpdateDue'
  BY DEF UpdateDue
<1>c. PICK m2 \in Nat : m2 = n'
  BY DEF Base, TrackerTyped, T!TypeOK, Holding, T!Holds, T!Entry
<1>d. PICK m \in Nat : Holding => m = n /\ m + d = p
  BY <1>a, <1>b, EntryTyped DEF Holding, MessageCounts
<1>e. p \in Nat /\ p2 \in Nat /\ d \in Nat /\ d2 \in Nat /\ m \in Nat /\ m2 \in Nat
  BY <1>a, <1>b, <1>c, <1>d
<1> SUFFICES m2 + d2 = p2
  BY <1>a, <1>b, <1>c
<1>f. Quiet => Holding /\ m2 = m
  BY <1>c, <1>d DEF Quiet, Holding
<1> HIDE DEF n
<1>1. CASE Quiet /\ messages' = messages /\ d2 = d
  <2>1. p2 = p /\ m2 = m /\ m + d = p /\ d2 = d
    BY <1>a, <1>d, <1>f, <1>1
  <2> QED BY <1>e, <2>1
<1>2. CASE Handler \/ Others
  <2>1. calls' = calls /\ messages' = messages
    BY <1>2, MessagesKept DEF Handler, Others, IdleChecker, Beside
  <2>2. d2 = d
    BY <1>b, <2>1 DEF UpdateDue
  <2>3. CASE Fresh
    <3>1. m2 = 0 /\ p2 = 0 /\ calls'.task = <<>>
      BY <1>a, <1>c, <2>1, <2>3 DEF Fresh, Before, NoCalls, n
    <3>2. d2 = 0
      BY <1>b, <3>1, PlanFacts DEF UpdateDue
    <3> QED BY <1>e, <3>1, <3>2
  <2>4. CASE Quiet
    BY <1>1, <2>1, <2>2, <2>4
  <2> QED BY <1>2, <2>3, <2>4, HandlerEntry, OthersEntry
<1>3. CASE Reads \/ OtherBranches \/ Returns \/ Sends \/ World \/ UNCHANGED connVars
  <2>1. Quiet /\ messages' = messages
    BY <1>3, QuietOtherwise, MessagesKept
  <2>2. calls'.task = calls.task
    BY <1>3, ReadsCases, OtherCases DEF Returns, Sends, World, connVars
  <2>3. d2 = d
    BY <1>b, <2>2 DEF UpdateDue
  <2> QED BY <1>1, <2>1, <2>3
<1>4. CASE ReaderMoves
  <2>1. Quiet /\ calls.task = <<>>
    BY <1>4, QuietOtherwise, ReaderCases
  <2>2. m2 = m /\ m + d = p /\ d = 0
    BY <1>b, <1>d, <1>f, <2>1, PlanFacts DEF UpdateDue
  <2>3. CASE calls'.task = <<>> /\ messages' = messages
    <3>1. d2 = 0 /\ p2 = p
      BY <1>a, <1>b, <2>3, PlanFacts DEF UpdateDue
    <3> QED BY <1>e, <2>2, <3>1
  <2>4. CASE /\ Head(stdout).kind \in {"update", "reply"}
             /\ calls'.task = CallsOfLine(Head(stdout))
             /\ messages' = messages + Count(Head(stdout))
    <3>1. CASE Head(stdout).kind = "update"
      <4>1. calls'.task = <<"touch", "message", "commands">> /\ Count(Head(stdout)) = 1
        BY <2>4, <3>1, LinePlans DEF Count
      <4>2. d2 = 1 /\ p2 = p + 1
        BY <1>a, <1>b, <2>4, <4>1 DEF UpdateDue
      <4> QED BY <1>e, <2>2, <4>2
    <3>2. CASE Head(stdout).kind = "reply"
      <4>1. calls'.task = <<"touch", "id">> /\ Count(Head(stdout)) = 0
        BY <2>4, <3>2, LinePlans DEF Count
      <4>2. <<"touch", "id">> \notin UpdatePlans
        BY PlansDiffer DEF ReplyPlans
      <4>3. d2 = 0
        BY <1>b, <4>1, <4>2 DEF UpdateDue, UpdatePlans
      <4>4. p2 = p + 0
        BY <1>a, <2>4, <4>1
      <4> QED BY <1>e, <2>2, <4>3, <4>4
    <3> QED BY <2>4, <3>1, <3>2
  <2> QED BY <1>4, <2>3, <2>4, ReaderCases
<1>5. CASE BranchCall
  <2>1. /\ Head(calls.branch) \in CallNames /\ Call(Head(calls.branch))
        /\ calls'.task = calls.task /\ calls.branch \in BranchPlans \ {<<>>}
    BY <1>5, BranchTail DEF Base, CallsTyped, BranchCall
  <2>2. Head(calls.branch) # "message"
    BY <2>1, PlanFacts
  <2>3. Holding
    BY <2>1, CallEntry DEF Holding
  <2>4. m2 = m + 0 /\ m + d = p
    BY <1>c, <1>d, <2>1, <2>2, <2>3, CallEntry DEF Holding, n
  <2>5. d2 = d /\ p2 = p
    BY <1>a, <1>b, <1>5, <2>1, MessagesKept DEF UpdateDue
  <2> QED BY <1>e, <2>4, <2>5
<1>6. CASE ReaderCall
  <2>1. /\ Head(calls.task) \in CallNames /\ Call(Head(calls.task))
        /\ calls'.task = Tail(calls.task) /\ calls.task \in UpdatePlans \cup ReplyPlans
    BY <1>6, TaskTail DEF Base, CallsTyped, ReaderCall
  <2> PICK name \in CallNames : name = Head(calls.task)
    BY <2>1
  <2>2. Holding
    BY <2>1, CallEntry DEF Holding
  <2>3. m + d = p /\ p2 = p
    BY <1>a, <1>d, <1>6, <2>2, MessagesKept
  <2>4. m2 = m + (IF name = "message" THEN 1 ELSE 0)
    BY <1>c, <1>d, <2>1, <2>2, CallEntry DEF Holding, n
  <2>5. CASE calls.task \in ReplyPlans
    <3>1. name # "message" /\ calls'.task \notin UpdatePlans /\ calls.task \notin UpdatePlans
      BY <2>1, <2>5, PlanFacts, PlansDiffer, ZenonT(30) DEF ReplyPlans
    <3>2. d = 0 /\ d2 = 0
      BY <1>b, <3>1 DEF UpdateDue, UpdatePlans
    <3>3. m2 = m + 0
      BY <2>4, <3>1
    <3> QED BY <1>e, <2>3, <3>2, <3>3
  <2>6. CASE calls.task = <<"touch", "message", "commands">>
    <3>1. name # "message" /\ calls'.task = <<"message", "commands">>
      BY <2>1, <2>6, PlanFacts DEF UpdatePlans
    <3>2. d = 1 /\ d2 = 1
      BY <1>b, <2>6, <3>1 DEF UpdateDue
    <3>3. m2 = m + 0
      BY <2>4, <3>1
    <3> QED BY <1>e, <2>3, <3>2, <3>3
  <2>7. CASE calls.task = <<"message", "commands">>
    <3>1. name = "message" /\ calls'.task = <<"commands">>
      BY <2>1, <2>7, PlanFacts DEF UpdatePlans
    <3>2. d = 1 /\ d2 = 0
      BY <1>b, <2>7, <3>1, PlanFacts DEF UpdateDue
    <3>3. m2 = m + 1
      BY <2>4, <3>1
    <3> QED BY <1>e, <2>3, <3>2, <3>3
  <2>8. CASE calls.task = <<"commands">>
    <3>1. name # "message" /\ calls'.task = <<>>
      BY <2>1, <2>8, PlanFacts DEF UpdatePlans
    <3>2. d = 0 /\ d2 = 0
      BY <1>b, <2>8, <3>1, PlanFacts DEF UpdateDue
    <3>3. m2 = m + 0
      BY <2>4, <3>1
    <3> QED BY <1>e, <2>3, <3>2, <3>3
  <2> QED BY <2>1, <2>5, <2>6, <2>7, <2>8 DEF UpdatePlans
<1> QED BY <1>2, <1>3, <1>4, <1>5, <1>6 DEF ConnNext

(* A line of the CLI gets on its way when the reader task sends it. *)
LEMMA WayStep ==
    ASSUME Typing, [Next]_vars, NEW kind \in {"reply", "update"}
    PROVE  OnItsWay(kind)' => OnItsWay(kind) \/ (SendLine /\ reader.line.kind = kind)
<1> USE OutCtl, CtlKind
        DEF Typing, OnItsWay, Reading, task, session, outbound, peer, copilot
<1>1. CASE UNCHANGED outbound
  BY <1>1
<1>2. CASE SendError \/ SendPong
  <2>1. rd.frame.kind = rd.at /\ rd.at \in {"error", "pong"}
    BY <1>2 DEF SendError, SendPong, FramesMatch
  <2>2. rd.frame \in OutFrames /\ Send(rd.frame) /\ rd.frame.kind # kind
    BY <1>2, <2>1, FrameFacts DEF SendError, SendPong, TypeOK, TaskOK, OutFrames
  <2> QED BY <2>2, SendFacts
<1>3. CASE SendPing \/ SendPongTimeout \/ SendIdleClose
  <2>1. PICK frame \in OutFrames : Send(frame) /\ frame.kind # kind
    BY <1>3 DEF SendPing, SendPongTimeout, SendIdleClose
  <2> QED BY <2>1, SendFacts
<1>4. CASE SendLine
  <2>1. reader.line \in OutFrames /\ Send(reader.line)
    BY <1>4, FrameFacts DEF SendLine, FramesMatch, TypeOK, OutFrames
  <2> QED BY <1>4, <2>1, SendFacts
<1>5. CASE SinkRecv
  BY <1>5, SinkRecvFacts DEF SinkRecv
<1>6. CASE SinkSend
  BY <1>6, SinkSendFacts DEF SinkSend
<1>7. CASE SinkFails \/ SinkLoses \/ SinkEnds
  <2>1. sink'.frame = Ctl("none") \/ sink'.frame = sink.frame
    BY <1>7 DEF SinkFails, SinkLoses, SinkEnds, TypeOK, OutboundOK
  <2>2. chan' = <<>> \/ chan' = chan
    BY <1>7 DEF SinkFails, SinkLoses, SinkEnds
  <2>3. toClient' = toClient
    BY <1>7 DEF SinkFails, SinkLoses, SinkEnds
  <2> QED BY <2>1, <2>2, <2>3, CarriesFacts
<1>8. CASE ClientReads
  BY <1>8 DEF ClientReads
<1>9. CASE RecvClose
  BY <1>9 DEF RecvClose
<1>10. CASE RecvText \/ RecvPing \/ RecvPong \/ RecvEnd \/ CountText \/ OpenCli \/ OpenFails
            \/ WriteInvalid \/ WriteLine \/ WriteFails \/ PingTick \/ ShutdownSeen \/ IdleSleepEnds
            \/ Return \/ ReadLine \/ ReadEof
  BY <1>1, <1>10
  DEF RecvText, RecvPing, RecvPong, RecvEnd, CountText, OpenCli, OpenFails, WriteInvalid, WriteLine,
      WriteFails, PingTick, ShutdownSeen, IdleSleepEnds, Return, ReadLine, ReadEof
<1>11. CASE ClientLeaves \/ CliReads \/ CliExits \/ SessionTells \/ Tick \/ UNCHANGED vars
            \/ (\E k \in ClientFrames : Asks(k)) \/ \E k \in CliLines : Says(k)
  BY <1>1, <1>11 DEF ClientLeaves, CliReads, CliExits, SessionTells, Tick, Asks, Says, vars
<1> HIDE DEF OnItsWay
<1> QED
  BY <1>2, <1>3, <1>4, <1>5, <1>6, <1>7, <1>8, <1>9, <1>10, <1>11
  DEF Next, ReadBranch, PingBranch, Finish, Sink, Reader, Environment

(* A line is on its way only once its calls are made. *)
LEMMA PassedStep ==
    ASSUME IInv, IInv', Base, Fits, [ConnNext]_connVars, NEW kind \in {"reply", "update"}
    PROVE  Passed(kind)' => \/ Passed(kind)
                            \/ ReaderCall /\ reader.line.kind = kind /\ calls'.task = <<>>
<1> SUFFICES ASSUME Passed(kind)', ~Passed(kind)
             PROVE  ReaderCall /\ reader.line.kind = kind /\ calls'.task = <<>>
  OBVIOUS
<1>0. Typing /\ Typing' /\ [Next]_vars
  BY RelayStep DEF IInv
<1>1. CASE ~OnItsWay(kind)'
  <2>1. reader'.line.kind = kind /\ calls'.task = <<>>
    BY <1>1 DEF Passed
  <2>2. CASE ReaderMoves
    <3>1. reader'.at = "send"
      BY <1>0, <2>1 DEF Typing, FramesMatch
    <3>2. calls'.task = CallsOfLine(Head(stdout))
      BY <2>2, <3>1, ReaderCases
    <3> QED BY <2>1, <3>2, PlanFacts DEF CallsOfLine
  <2>3. CASE ~ReaderMoves
    <3>1. reader.line = reader'.line
      BY <1>0, <2>3, ReadsKeepReader, ReaderKept DEF ConnNext, Typing, TypeOK
    <3>2. calls'.task = calls.task \/ ReaderCall
      BY <2>3, ReadsCases, OtherCases, BranchTail
      DEF ConnNext, Base, Handler, Others, IdleChecker, Beside, Returns, Sends, World, connVars
    <3> QED BY <2>1, <3>1, <3>2 DEF Passed
  <2> QED BY <2>2, <2>3
<1>2. CASE OnItsWay(kind)'
  <2>1. OnItsWay(kind) \/ (SendLine /\ reader.line.kind = kind)
    BY <1>0, <1>2, WayStep
  <2>2. reader'.at # "send" /\ reader.at = "send" => ReaderMoves
    BY ReadsKeepReader, ReaderKept DEF ConnNext
  <2>3. SendLine => reader.at = "send" /\ reader'.at # "send"
    BY DEF SendLine, ReaderStops
  <2>4. SendLine => calls.task = <<>>
    BY <2>2, <2>3, ReaderCases
  <2> QED BY <2>1, <2>4 DEF Passed
<1> QED BY <1>1, <1>2

LEMMA ListedStep ==
    ASSUME IInv, IInv', Base, Fits, Before, Listed, [ConnNext]_connVars
    PROVE  Listed'
<1> DEFINE cid == sessions[id].copilot_session_id
           cmds == sessions[id].available_commands
<1> SUFFICES ASSUME Holding'
             PROVE  (Passed("reply")' => cid' # T!None) /\ (Passed("update")' => cmds' # T!None)
  BY DEF Listed
<1>1. Holding => (Passed("reply") => cid # T!None) /\ (Passed("update") => cmds # T!None)
  BY DEF Listed
<1>2. \A kind \in {"reply", "update"} :
         Passed(kind)' => \/ Passed(kind)
                          \/ ReaderCall /\ reader.line.kind = kind /\ calls'.task = <<>>
  BY PassedStep
<1>3. Quiet => Holding /\ cid' = cid /\ cmds' = cmds
  BY DEF Quiet, Holding
<1>4. Fresh => ~Passed("reply") /\ ~Passed("update")
  <2> SUFFICES ASSUME Fresh PROVE ~Passed("reply") /\ ~Passed("update")
    OBVIOUS
  <2>1. chan = <<>> /\ toClient = <<>> /\ sink.at = "recv" /\ reader.at = "none"
    BY DEF Fresh, Before
  <2>2. sink.frame.kind = "none" /\ reader.line.kind = "none"
    BY <2>1, FrameFacts DEF IInv, Typing, FramesMatch, TypeOK, OutboundOK
  <2> QED BY <2>1, <2>2, CarriesFacts DEF Passed, OnItsWay
<1> HIDE DEF cid, cmds
<1>5. CASE ReaderCall
  <2>1. /\ Head(calls.task) \in CallNames /\ Call(Head(calls.task))
        /\ calls'.task = Tail(calls.task) /\ calls.task \in UpdatePlans \cup ReplyPlans
    BY <1>5, TaskTail DEF Base, CallsTyped, ReaderCall
  <2> PICK name \in CallNames : name = Head(calls.task)
    BY <2>1
  <2>2. /\ Holding
        /\ IF name = "id" THEN cid' \in CopilotIds ELSE cid' = cid
        /\ IF name = "commands" THEN cmds' \in CommandLists ELSE cmds' = cmds
    BY <2>1, CallEntry DEF Holding, cid, cmds
  <2>3. Passed("reply")' => Passed("reply") \/ name = "id"
    <3>1. calls.task \in ReplyPlans /\ calls'.task = <<>> => name = "id"
      BY <2>1, LastCalls
    <3>2. reader.line.kind = "reply" => calls.task \in ReplyPlans
      BY <2>1 DEF Fits
    <3> QED BY <1>2, <3>1, <3>2
  <2>4. Passed("update")' => Passed("update") \/ name = "commands"
    <3>1. calls.task \in UpdatePlans /\ calls'.task = <<>> => name = "commands"
      BY <2>1, LastCalls
    <3>2. reader.line.kind = "update" => calls.task \in UpdatePlans
      BY <2>1 DEF Fits
    <3> QED BY <1>2, <3>1, <3>2
  <2> QED BY <1>1, <2>2, <2>3, <2>4, SomeAssumption
<1>6. CASE BranchCall /\ ~ReaderCall
  <2>1. Head(calls.branch) \in {"touch", "prompt"} /\ Call(Head(calls.branch))
    BY <1>6, BranchTail, PlanFacts DEF Base, CallsTyped, BranchCall
  <2>2. Holding /\ cid' = cid /\ cmds' = cmds
    BY <2>1, CallEntry DEF Holding, cid, cmds, CallNames
  <2> QED BY <1>1, <1>2, <1>6, <2>2
<1>7. CASE ~BranchCall /\ ~ReaderCall
  <2>1. Quiet \/ Fresh
    BY <1>7, HandlerEntry, OthersEntry, QuietOtherwise DEF ConnNext
  <2> QED BY <1>1, <1>2, <1>3, <1>4, <1>7, <2>1
<1> QED BY <1>5, <1>6, <1>7

LEMMA CountsInit == ConnInit => PromptCounts /\ MessageCounts /\ Listed
<1>1. ConnInit => ~Holding
  BY DEF ConnInit, T!Init, Holding, T!Holds
<1> QED BY <1>1 DEF PromptCounts, MessageCounts, Listed

LEMMA ConnInvInit == ConnInit => ConnInv
<1>1. ConnInit => Init
  BY DEF ConnInit
<1> QED BY <1>1, BaseInit, VolumeInit, FitsInit, BeforeInit, CountsInit DEF ConnInv

LEMMA ConnInvStep ==
    ASSUME IInv, IInv', ConnInv, [ConnNext]_connVars
    PROVE  ConnInv'
<1>1. /\ Base /\ Volume /\ Fits /\ Before
      /\ PromptCounts /\ MessageCounts /\ Listed
  BY DEF ConnInv
<1>2. Base' /\ [Next]_vars
  BY <1>1, BaseStep, RelayStep
<1>3. Volume'
  BY <1>1, <1>2, VolumeStep DEF IInv, Typing
<1>4. Fits' /\ Before'
  BY <1>1, FitsStep, BeforeStep
<1>5. PromptCounts' /\ MessageCounts' /\ Listed'
  BY <1>1, <1>2, <1>3, PromptStep, MessageStep, ListedStep
<1> QED BY <1>2, <1>3, <1>4, <1>5 DEF ConnInv

LEMMA ConnInvHolds == ConnSpec => []ConnInv
<1>1. IInv /\ IInv' /\ ConnInv /\ [ConnNext]_connVars => ConnInv'
  BY ConnInvStep
<1> QED BY <1>1, ConnInvInit, RelayInvHolds, PTL DEF ConnSpec
-------------------------------------------------------------------------------
(* The handler, the relay, the tracker and the calls that are to be made     *)
(* keep their types.                                                        *)
THEOREM ConnTypeCorrect == ConnSpec => []ConnTypeOK
<1>1. ASSUME IInv, ConnInv PROVE ConnTypeOK
  BY <1>1 DEF IInv, Typing, ConnInv, Base, TrackerTyped, CallsTyped, ConnTypeOK,
              BranchPlans, UpdatePlans, ReplyPlans
<1> QED BY <1>1, RelayInvHolds, ConnInvHolds, PTL

(* prompt_count and message_count of a session that is listed lie between    *)
(* what was delivered and what was sent, whoever dropped what on the way.   *)
THEOREM CountsHold == ConnSpec => []CountsMatchTraffic
<1>1. ASSUME IInv, ConnInv PROVE CountsMatchTraffic
  <2> SUFFICES ASSUME Holding
               PROVE  /\ Number(toCli, "prompt") <= sessions[id].prompt_count
                      /\ sessions[id].prompt_count <= Number(asked, "prompt")
                      /\ Updates(toClient) <= sessions[id].message_count
                      /\ sessions[id].message_count <= Updates(said)
    BY DEF CountsMatchTraffic, Holding, Number, Updates
  <2>0. TypeOK
    BY <1>1 DEF IInv, Typing
  <2>a. PICK n \in Nat, m \in Nat : n = sessions[id].prompt_count /\ m = sessions[id].message_count
    BY <1>1, EntryTyped DEF ConnInv, Holding
  <2>b. PICK p \in Nat, k \in Nat, l \in Nat : p = prompts /\ k = messages /\ l = Number(toCli, "prompt")
    <3>1. prompts \in Nat /\ messages \in Nat
      BY <2>0 DEF TypeOK
    <3>2. Number(toCli, "prompt") \in Nat
      BY <2>0, NumberFacts DEF TypeOK, CopilotOK
    <3> QED BY <3>1, <3>2
  <2>c. PICK w \in Nat, a \in Nat : w = Number(wsIn, "prompt") /\ a = Number(asked, "prompt")
    BY <2>0, AllFrames, NumberFacts
  <2>d. PICK u \in Nat, v \in Nat, o \in Nat, s \in Nat :
          u = Updates(toClient) /\ v = Updates(chan) /\ o = Updates(stdout) /\ s = Updates(said)
    BY <2>0, AllFrames, CountFacts
  <2>e. PICK d \in Nat, q \in Nat, e \in Nat : d = PromptDue /\ q = PromptCounted /\ e = UpdateDue
    BY DEF PromptDue, PromptCounted, UpdateDue
  <2>f. PICK x \in Nat, y \in Nat : x = Count(sink.frame) /\ y = Count(reader.line)
    BY DEF Count
  <2>1. l <= p /\ k >= u + v + x + y
    BY <1>1, <2>b, <2>d, <2>f DEF IInv, CountsAhead
  <2>2. p + q <= n /\ n + d + w <= a
    BY <1>1, <2>a, <2>b, <2>c, <2>e DEF ConnInv, PromptCounts
  <2>3. m + e = k
    BY <1>1, <2>a, <2>b, <2>e DEF ConnInv, MessageCounts
  <2>4. k + o = s
    BY <1>1, <2>b, <2>d DEF ConnInv, Volume
  <2>5. e = 0 \/ (e = 1 /\ y = 1)
    BY <1>1, <2>e, <2>f DEF ConnInv, Fits, UpdateDue, UpdatePlans, Count
  <2>6. /\ n \in Nat /\ m \in Nat /\ p \in Nat /\ k \in Nat /\ l \in Nat /\ w \in Nat /\ a \in Nat
        /\ u \in Nat /\ v \in Nat /\ o \in Nat /\ s \in Nat /\ d \in Nat /\ q \in Nat /\ e \in Nat
        /\ x \in Nat /\ y \in Nat
    BY <2>a, <2>b, <2>c, <2>d, <2>e, <2>f
  <2>7. l <= n /\ n <= a /\ u <= m /\ m <= s
    BY <2>1, <2>2, <2>3, <2>4, <2>5, <2>6
  <2> QED BY <2>7, <2>a, <2>b, <2>c, <2>d
<1> QED BY <1>1, RelayInvHolds, ConnInvHolds, PTL

(* What a client has seen go by of its session is in the session list.       *)
THEOREM SeenHolds == ConnSpec => []SeenIsListed
<1>1. ConnInv => SeenIsListed
  BY DEF ConnInv, Listed, Holding, SeenIsListed, Passed, OnItsWay, Carries
<1> QED BY <1>1, ConnInvHolds, PTL
-------------------------------------------------------------------------------
(* The composition and the tracker.                                         *)

LEMMA ReaderTaskFacts ==
    /\ reader' = reader => ReaderTask' = ReaderTask
    /\ ReaderTask[c] = CASE reader.at = "none" -> "none" [] reader.at = "ended" -> "ended" [] OTHER -> "up"
    /\ (reader.at = "none" /\ reader'.at = "read") => ReaderTask' = [ReaderTask EXCEPT ![c] = "up"]
    /\ (reader.at \notin {"none", "ended"} /\ reader'.at \notin {"none", "ended"}) => ReaderTask' = ReaderTask
    /\ reader'.at = "ended" => ReaderTask' = [ReaderTask EXCEPT ![c] = "ended"]
  BY TheConnection DEF ReaderTask

(* A call that is made has room below the bound of the tracker's model. *)
LEMMA RoomToCount ==
    ASSUME IInv, ConnInv, Holding
    PROVE  /\ PromptDue = 1 => sessions[id].prompt_count < MaxCount
           /\ UpdateDue = 1 => sessions[id].message_count < MaxCount
<1>0. TypeOK
  BY DEF IInv, Typing
<1>1. PICK n \in Nat, m \in Nat : n = sessions[id].prompt_count /\ m = sessions[id].message_count
  BY EntryTyped DEF ConnInv, Holding
<1>2. PICK w \in Nat, a \in Nat : w = Number(wsIn, "prompt") /\ a = Number(asked, "prompt")
  BY <1>0, AllFrames, NumberFacts
<1>3. PICK o \in Nat, s \in Nat : o = Updates(stdout) /\ s = Updates(said)
  BY <1>0, AllFrames, CountFacts
<1>4. PICK k \in Nat, x \in Nat, y \in Nat : k = messages /\ x = Len(asked) /\ y = Len(said)
  <2>1. messages \in Nat
    BY <1>0 DEF TypeOK
  <2>2. Len(asked) \in Nat /\ Len(said) \in Nat
    BY <1>0, AllFrames, LenProperties
  <2> QED BY <2>1, <2>2
<1>5. /\ n \in Nat /\ m \in Nat /\ w \in Nat /\ a \in Nat /\ o \in Nat /\ s \in Nat
      /\ k \in Nat /\ x \in Nat /\ y \in Nat
      /\ MaxAsk \in Nat /\ MaxSay \in Nat /\ MaxCount \in Nat
      /\ MaxAsk <= MaxCount /\ MaxSay <= MaxCount
  BY <1>1, <1>2, <1>3, <1>4, BoundsAssumption, TrackerAssumption
<1>6. a <= x /\ x <= MaxAsk /\ k + o = s /\ s <= y /\ y <= MaxSay
  BY <1>2, <1>3, <1>4 DEF ConnInv, Volume
<1>7. ASSUME PromptDue = 1 PROVE n < MaxCount
  <2>1. n + 1 + w <= a
    BY <1>1, <1>2, <1>7 DEF ConnInv, PromptCounts
  <2> QED BY <1>5, <1>6, <2>1
<1>8. ASSUME UpdateDue = 1 PROVE m < MaxCount
  <2>1. m + 1 = k
    BY <1>1, <1>4, <1>8 DEF ConnInv, MessageCounts
  <2> QED BY <1>5, <1>6, <2>1
<1> QED BY <1>1, <1>7, <1>8

LEMMA TrackerStep ==
    ASSUME IInv, ConnInv, [ConnNext]_connVars
    PROVE  [T!Next]_(T!vars)
<1>0. c \in Conns /\ Base /\ Fits
  BY TheConnection DEF ConnInv
<1>1. CASE Handler
  BY <1>0, <1>1 DEF Handler, T!Next, T!Handler
<1>2. CASE Others
  BY <1>2 DEF Others, IdleChecker, T!Next, T!Rest
<1>3. CASE Reads
  <2>1. UNCHANGED tracker /\ T!At(c, "relay")
    BY <1>3 DEF Reads, Running
  <2>2. CASE reader' = reader
    BY <2>1, <2>2, ReaderTaskFacts DEF T!vars, tracker
  <2>3. CASE reader.at = "none" /\ reader' = [reader EXCEPT !.at = "read"]
    <3>1. reader'.at = "read"
      BY <2>3 DEF IInv, Typing, TypeOK
    <3>2. T!SpawnReader(c)
      BY <2>1, <2>3, <3>1, ReaderTaskFacts DEF T!SpawnReader, tracker
    <3> QED BY <1>0, <3>2 DEF T!Next, T!Handler
  <2> QED BY <1>3, <2>2, <2>3, ReadsKeepReader
<1>4. CASE BranchCall
  <2>1. /\ Head(calls.branch) \in {"touch", "prompt"} /\ Call(Head(calls.branch))
        /\ Head(calls.branch) = "prompt" => PromptDue = 1
    BY <1>0, <1>4, BranchTail, PlanFacts DEF Base, CallsTyped, BranchCall, PromptDue
  <2>2. reader' = reader /\ T!At(c, "relay")
    BY <1>4, ReaderKept DEF BranchCall, Running
  <2>3. T!RelayCalls(c)
    <3>1. UNCHANGED <<counter, conn, ReaderTask, now, scan, request>>
      BY <2>1, <2>2, ReaderTaskFacts DEF Call
    <3>2. CASE Head(calls.branch) = "touch"
      BY <2>1, <2>2, <3>1, <3>2 DEF Call, T!RelayCalls, id
    <3>3. CASE Head(calls.branch) = "prompt"
      <4>1. T!Holds(id) => sessions[id].prompt_count < MaxCount
        BY <2>1, <3>3, RoomToCount DEF Holding
      <4> QED BY <2>1, <2>2, <3>1, <3>3, <4>1 DEF Call, T!RelayCalls, id
    <3> QED BY <2>1, <3>2, <3>3
  <2> QED BY <1>0, <2>3 DEF T!Next, T!Handler
<1>5. CASE OtherBranches \/ Sends \/ World \/ UNCHANGED connVars
  <2>1. UNCHANGED tracker /\ reader' = reader
    BY <1>5, ReaderKept DEF OtherBranches, Sends, World, connVars
  <2> QED BY <2>1, ReaderTaskFacts DEF T!vars, tracker
<1>6. CASE Returns
  <2>1. T!RelayReturns(c)
    BY <1>6, ReaderKept, ReaderTaskFacts DEF Returns, Running, T!RelayReturns
  <2> QED BY <1>0, <2>1 DEF T!Next, T!Handler
<1>7. CASE ReaderCall
  <2>1. /\ Head(calls.task) \in CallNames \ {"prompt"} /\ Call(Head(calls.task))
        /\ calls.task \in UpdatePlans \cup ReplyPlans
    BY <1>0, <1>7, TaskTail DEF Base, CallsTyped, ReaderCall
  <2>2. Head(calls.task) = "message" => UpdateDue = 1
    BY <2>1, PlanFacts DEF UpdateDue
  <2>3. reader' = reader /\ ReaderTask[c] = "up"
    BY <1>0, <1>7, ReaderKept, ReaderTaskFacts DEF Fits, ReaderCall
  <2> PICK name \in CallNames : name = Head(calls.task) /\ name # "prompt"
    BY <2>1
  <2>4. T!ReaderCalls(c)
    <3>1. UNCHANGED <<counter, conn, ReaderTask, now, scan, request>>
      BY <2>1, <2>3, ReaderTaskFacts DEF Call
    <3>2. CASE name = "message"
      <4>1. T!Holds(id) => sessions[id].message_count < MaxCount
        BY <2>2, <3>2, RoomToCount DEF Holding
      <4> QED BY <2>1, <2>3, <3>1, <3>2, <4>1 DEF Call, T!ReaderCalls, id
    <3>3. CASE name # "message"
      BY <2>1, <2>3, <3>1, <3>3 DEF Call, T!ReaderCalls, CallNames, id
    <3> QED BY <3>2, <3>3
  <2> QED BY <1>0, <2>4 DEF T!Next, T!Handler
<1>8. CASE ReaderMoves
  <2>1. UNCHANGED tracker /\ reader.at \in {"read", "send"}
    BY <1>8 DEF ReaderMoves, ReadLine, ReadEof, SendLine
  <2>2. reader'.at \in {"read", "send", "ended"}
    BY <1>8 DEF ReaderMoves, ReadLine, ReadEof, SendLine, ReaderStops
  <2>3. CASE reader'.at = "ended"
    <3>1. T!ReaderEnds(c)
      BY <2>1, <2>3, ReaderTaskFacts DEF T!ReaderEnds, tracker
    <3> QED BY <1>0, <3>1 DEF T!Next, T!Handler
  <2>4. CASE reader'.at \in {"read", "send"}
    BY <2>1, <2>4, ReaderTaskFacts DEF T!vars, tracker
  <2> QED BY <2>2, <2>3, <2>4
<1> QED BY <1>1, <1>2, <1>3, <1>4, <1>5, <1>6, <1>7, <1>8 DEF ConnNext

(* Whatever the relay and its reader task do is among the things the         *)
(* tracker's model lets them do.                                            *)
THEOREM TrackerMeetsRelay == ConnSpec => TrackerSpec
<1>1. ConnInit => T!Init
  BY DEF ConnInit
<1>2. IInv /\ ConnInv /\ [ConnNext]_connVars => [T!Next]_(T!vars)
  BY TrackerStep
<1> QED BY <1>1, <1>2, RelayInvHolds, ConnInvHolds, PTL DEF ConnSpec, TrackerSpec, T!Spec

(* What is proved of the relay on its own holds with the real tracker beside *)
(* it: the last word arrives, answers are not cut off, a client is dropped   *)
(* for a pong timeout only when something held its answer up, and no message *)
(* is lost, doubled or reordered either way.                                *)
THEOREM RelayPromisesKept ==
    ConnSpec => [](ReturnLosesNothing /\ LastWordDelivered /\ ResponsiveNeverDropped)
                /\ UpwardSpec /\ DownwardSpec
  BY RelayMeetsTracker, AnswersBeforeReturn, LastWordBeforeReturn, OnlySilentClientsDropped,
     UpwardRefines, DownwardRefines, PTL DEF RelaySpec
===============================================================================
