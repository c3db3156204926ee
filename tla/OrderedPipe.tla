------------------------------ MODULE OrderedPipe ------------------------------
(***************************************************************************)
(* What each direction of a relay promises: the messages accepted come out *)
(* once each, in the order they went in, with no gap; what has not come    *)
(* out when the pipe is dropped never does.                                *)
(***************************************************************************)
EXTENDS Sequences, Naturals

CONSTANT Message

VARIABLES accepted,     \* every message put in so far
          delivered     \* every message that came out so far

Init == accepted = <<>> /\ delivered = <<>>

Accept(m) ==
    /\ accepted' = Append(accepted, m)
    /\ UNCHANGED delivered

Deliver ==
    /\ Len(delivered) < Len(accepted)
    /\ delivered' = Append(delivered, accepted[Len(delivered) + 1])
    /\ UNCHANGED accepted

Next == (\E m \in Message : Accept(m)) \/ Deliver

Spec == Init /\ [][Next]_<<accepted, delivered>>
===============================================================================
