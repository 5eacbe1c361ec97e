--------------------------- MODULE MCFollowupQueue --------------------------
(* Model-checking instances of FollowupQueue. *)
EXTENDS FollowupQueue, TLC

Setting(mode, cap, drop) == [mode |-> mode, cap |-> cap, dropPolicy |-> drop]

(* Mode and cap are switched at run time; overflow drops the oldest         *)
(* messages, two at a time when the cap was lowered, and owes a summary.    *)
Switching == {Setting("followup", 1, "summarize"), Setting("collect", 2, "summarize")}
(* Overflow drops the oldest messages and forgets them. *)
FollowupOld == {Setting("followup", 2, "old")}
(* Messages are collected in batches. *)
CollectNew == {Setting("collect", 2, "new")}

(* One message has a route that cannot be compared: while it is queued,     *)
(* collect mode gives messages to runs one by one, else in a batch.         *)
OneCrossInit ==
  /\ Init
  /\ route = [m \in Messages |->
                IF m = CHOOSE n \in Messages : TRUE THEN "cross" ELSE "none"]
OneCrossSpec == OneCrossInit /\ [][Next]_vars /\ Fairness

MessageSymmetry == Permutations(Messages) \cup Permutations(Objects)
=============================================================================
