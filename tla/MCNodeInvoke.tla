----------------------------- MODULE MCNodeInvoke ---------------------------
(* NodeInvoke with one node on two connections, two requests that claim one *)
(* approval and one that claims none.                                       *)
EXTENDS NodeInvoke, TLC

CONSTANTS c1, c2, i1, i2, i3, n1, a1, client

MCNodeOf == c1 :> n1 @@ c2 :> n1
MCInvokeClient == i1 :> client @@ i2 :> client @@ i3 :> client
MCInvokeApproval == i1 :> a1 @@ i2 :> a1 @@ i3 :> NoApproval

(* The first two are made, or the last. *)
EitherKindInit ==
  Init /\ {i \in Invokes : answer[i] = "new"} \in {{i1, i2}, {i3}}

EitherKindSpec == EitherKindInit /\ [][Next]_vars /\ Fairness
=============================================================================
