------------------------------ MODULE NodeInvoke ----------------------------
(***************************************************************************)
(* node.invoke of system.run, src/gateway/server-methods/nodes.ts: the      *)
(* handler that composes the node registry with the approvals.  A request   *)
(* that claims an approval is checked against the approval's record, a      *)
(* one-time approval is consumed, and the request is sent to the node as    *)
(* approved.  One that claims none is sent too, with the approval flags     *)
(* stripped: whether it runs is then up to the node's own policy.           *)
(***************************************************************************)
EXTENDS NodeRegistry, ExecApprovals

CONSTANTS InvokeClient,   \* the device that makes each request
          ByApprover,     \* requests on a connection with the approver scopes
          InvokeApproval, \* the approval each request claims, if any
          NoApproval

ASSUME InvokesAssumption ==
  /\ ApprovalNodes = Nodes
  /\ InvokeClient \in [Invokes -> Clients]
  /\ ByApprover \subseteq Invokes
  /\ InvokeApproval \in [Invokes -> Approvals \cup {NoApproval}]
  /\ NoApproval \notin Approvals

VARIABLE forwarded  \* how each request was sent: by which verdict, or stripped

vars == <<registryVars, approvalVars, forwarded>>

Init ==
  /\ RegistryInit /\ ApprovalsInit
  /\ forwarded = [i \in Invokes |-> "no"]

(* The node is not listed: it is woken and awaited. *)
InvokeWakes(i) ==
  /\ answer[i] = "new"
  /\ nodesById[target[i]] = NoConn
  /\ answer' = [answer EXCEPT ![i] = "waking"]
  /\ UNCHANGED <<conn, nodesById, nodesByConn, pendingInvokes, target, inbox,
                 executed, lateClose, approvalVars, forwarded>>

(* The node did not come back: its user is notified. *)
WakeFails(i) ==
  /\ answer[i] = "waking"
  /\ nodesById[target[i]] = NoConn
  /\ answer' = [answer EXCEPT ![i] = "nudging"]
  /\ UNCHANGED <<conn, nodesById, nodesByConn, pendingInvokes, target, inbox,
                 executed, lateClose, approvalVars, forwarded>>

(* The notification was sent; whether the node is back is not asked again. *)
NotConnected(i) ==
  /\ answer[i] = "nudging"
  /\ answer' = [answer EXCEPT ![i] = "not_connected"]
  /\ UNCHANGED <<conn, nodesById, nodesByConn, pendingInvokes, target, inbox,
                 executed, lateClose, approvalVars, forwarded>>

(* The node is listed, perhaps after a wake: approval and send, without an  *)
(* await between them.                                                      *)
InvokeForwards(i) ==
  LET a == InvokeApproval[i] IN
  /\ answer[i] \in {"new", "waking"}
  /\ nodesById[target[i]] # NoConn
  /\ a # NoApproval
  /\ Approve(a, target[i], InvokeClient[i], i \in ByApprover)
  /\ SendInvoke(i)
  /\ forwarded' = [forwarded EXCEPT ![i] = verdict[a]]
  /\ UNCHANGED <<asker, waiter, verdict>>

(* The same for a request that asks for no approval override. *)
InvokeStripped(i) ==
  /\ answer[i] \in {"new", "waking"}
  /\ nodesById[target[i]] # NoConn
  /\ InvokeApproval[i] = NoApproval
  /\ SendInvoke(i)
  /\ forwarded' = [forwarded EXCEPT ![i] = "stripped"]
  /\ UNCHANGED approvalVars

(* The approval does not cover the request, its parameters do not match, or *)
(* the command is not on the node's allowlist.                              *)
InvokeRefused(i) ==
  /\ answer[i] \in {"new", "waking"}
  /\ nodesById[target[i]] # NoConn
  /\ answer' = [answer EXCEPT ![i] = "refused"]
  /\ UNCHANGED <<conn, nodesById, nodesByConn, pendingInvokes, target, inbox,
                 executed, lateClose, approvalVars, forwarded>>

InvokeNext ==
  \E i \in Invokes :
    \/ InvokeWakes(i) \/ WakeFails(i) \/ NotConnected(i)
    \/ InvokeForwards(i) \/ InvokeStripped(i) \/ InvokeRefused(i)

Next ==
  \/ RegistryNext /\ UNCHANGED <<approvalVars, forwarded>>
  \/ ApprovalsNext /\ UNCHANGED <<registryVars, forwarded>>
  \/ InvokeNext

Spec == Init /\ [][Next]_vars

(* Timers fire and handlers that wait for a node go on. *)
Fairness ==
  \A i \in Invokes :
    /\ WF_vars(InvokeTimesOut(i) /\ UNCHANGED <<approvalVars, forwarded>>)
    /\ WF_vars(WakeFails(i) \/ NotConnected(i) \/ InvokeForwards(i)
                 \/ InvokeStripped(i) \/ InvokeRefused(i))

FairSpec == Spec /\ Fairness

-----------------------------------------------------------------------------

(* "One-time approvals must be consumed atomically so the same runId cannot *)
(* be replayed during the resolved-entry grace window": an approval given   *)
(* once lets at most one request through.                                   *)
OnceMeansOnce ==
  \A i, j \in Invokes :
    forwarded[i] = "allow-once" /\ forwarded[j] = "allow-once"
      /\ InvokeApproval[i] = InvokeApproval[j] => i = j

(* A command that claims an approval runs on a node only after a decision   *)
(* that allows it, or after the approval timed out and the request has the  *)
(* approver scopes itself; never before a decision, and never against a     *)
(* denial.  A command that claims none, and only such a one, may reach the  *)
(* node without any decision, not marked as approved.                       *)
ApprovedOnlyIfAllowed ==
  \A i \in executed :
    \/ forwarded[i] = "stripped" /\ InvokeApproval[i] = NoApproval
    \/ forwarded[i] \in {"allow-once", "allow-always"}
    \/ forwarded[i] = "null" /\ i \in ByApprover

(* Every request is answered: no close, lost message or late result leaves  *)
(* its caller waiting.                                                      *)
InvokesReturn ==
  \A i \in Invokes : answer[i] \in {"waking", "nudging", "pending"} ~> answer[i] \in Answers
=============================================================================
