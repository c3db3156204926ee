-------------------------------- MODULE MCRelay --------------------------------
(* Small instances of Relay; the .cfg files choose mode, kinds and bounds.  *)
EXTENDS Relay
===============================================================================
