---------------------------- MODULE MCStateStore ----------------------------
(* The small instance of StateStore; its bounds are in StateStore.cfg.        *)
EXTENDS StateStore

=============================================================================
