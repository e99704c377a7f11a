--------------------------- MODULE MCHostLifecycle ---------------------------
(* The small instances of HostLifecycle; their bounds are in the .cfg files.  *)
EXTENDS HostLifecycle

=============================================================================
