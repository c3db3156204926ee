---------------------------- MODULE MCEventIngest ----------------------------
(* Small instances of EventIngest.                                          *)
EXTENDS EventIngest

CONSTANTS b1, b2, f1, f2

(* One bridge with one file. *)
OneFile == {[bridges |-> {b1}, files |-> {f1}, kinds |-> {"plain"}]}

(* Two bridges share one file, whose lines are all of one kind, or one bridge *)
(* has two files with lines of both.                                        *)
SharedOrTwoFiles ==
    {[bridges |-> {b1, b2}, files |-> {f1}, kinds |-> {kind}] : kind \in Kinds}
        \cup {[bridges |-> {b1}, files |-> {f1, f2}, kinds |-> Kinds]}
===============================================================================
