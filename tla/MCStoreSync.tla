------------------------------ MODULE MCStoreSync ------------------------------
(* Two bridges and a client on one cache, and a client on the store.        *)
EXTENDS StoreSync

CONSTANTS b1, b2

SharedOrOwn == {[bridges |-> {b1, b2}, endpoints |-> {}],
                [bridges |-> {b1}, endpoints |-> {"usage"}],
                [bridges |-> {}, endpoints |-> {"history"}]}
===============================================================================
