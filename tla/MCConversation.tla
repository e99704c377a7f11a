---------------------------- MODULE MCConversation ----------------------------
(* Small instances of Conversation: the first two sends are one submission. *)
EXTENDS Conversation, TLC

CONSTANTS s1, s2, s3, s4, x, y, z

ThreeSends == s1 :> x @@ s2 :> x @@ s3 :> y
FourSends  == s1 :> x @@ s2 :> x @@ s3 :> y @@ s4 :> z

=============================================================================
