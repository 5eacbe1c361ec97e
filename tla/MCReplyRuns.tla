----------------------------- MODULE MCReplyRuns ----------------------------
(* ReplyRuns with two keys, one of which has two session ids. *)
EXTENDS ReplyRuns, TLC

CONSTANTS o1, o2, o3, k1, k2, s1, s2, s3

MCKeyOf == s1 :> k1 @@ s2 :> k1 @@ s3 :> k2

Symmetry == Permutations(Ops)
=============================================================================
