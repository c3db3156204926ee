--------------------------- MODULE SessionLifecycle ---------------------------
(***************************************************************************)
(* What the session tracker promises about one session, without its map,   *)
(* its lock, its clock or its channels: a session opens once, may be told  *)
(* to shut down, is removed once, and neither the order to shut down nor   *)
(* the removal is ever taken back.  SessionManager implements this.        *)
(***************************************************************************)
CONSTANT Conns              \* the WebSocket connections, one session each

VARIABLE phase              \* phase[c]: what became of the session of c

Phases == {"absent", "live", "told", "removed"}

Init == phase = [c \in Conns |-> "absent"]

Open(c) ==
    /\ phase[c] = "absent"
    /\ phase' = [phase EXCEPT ![c] = "live"]

(* One scan of the idle checker tells several sessions at once. *)
Tell(S) ==
    /\ \A c \in S : phase[c] = "live"
    /\ phase' = [c \in Conns |-> IF c \in S THEN "told" ELSE phase[c]]

Remove(c) ==
    /\ phase[c] \in {"live", "told"}
    /\ phase' = [phase EXCEPT ![c] = "removed"]

Next == \/ \E c \in Conns : Open(c) \/ Remove(c)
        \/ \E S \in SUBSET Conns : Tell(S)

Spec == Init /\ [][Next]_phase
===============================================================================
