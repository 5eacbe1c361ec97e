--------------------------- MODULE MCDeliveryQueue --------------------------
(* A model-checking instance of DeliveryQueue. *)
EXTENDS DeliveryQueue

Sent == {e \in Entries : live[e] = "new"}

(* Either an earlier process left a message and another one is sent live,   *)
(* or the only message is sent live with bestEffort.                        *)
TwoMessagesInit ==
  /\ Init /\ json \in [Entries -> {0, NoFile}]
  /\ \/ Pending = OnDisk /\ Sent = Entries \ (OnDisk \cup BestEffort)
     \/ Pending = {} /\ Sent = BestEffort

TwoMessagesSpec == TwoMessagesInit /\ [][Next]_vars /\ Fairness
=============================================================================
