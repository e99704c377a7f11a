--------------------------- MODULE MCDirectMessage ---------------------------
(* Small instances of DirectMessage.  Messages are interchangeable.        *)
EXTENDS DirectMessage, TLC

Symmetry == Permutations(Messages)

=============================================================================
