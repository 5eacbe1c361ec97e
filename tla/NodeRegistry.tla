---------------------------- MODULE NodeRegistry ----------------------------
(***************************************************************************)
(* The registry of connected nodes, src/gateway/node-registry.ts, with the  *)
(* connections that register and unregister in it and the requests that    *)
(* are sent to a node and answered by it, by a timeout or by the close of   *)
(* its connection.                                                          *)
(*                                                                          *)
(* A node uses one connection at a time.  The gateway learns that one is    *)
(* gone only when its close event is handled, possibly after the node has   *)
(* come back on another.  What is sent on a connection the node has dropped *)
(* is lost; a result reaches the gateway on any connection of its node.     *)
(***************************************************************************)
EXTENDS Naturals, FiniteSets

CONSTANTS Nodes, Conns, Invokes,
          NodeOf,    \* the node of each connection
          NoConn

ASSUME ConnsAssumption ==
  /\ NodeOf \in [Conns -> Nodes]
  /\ NoConn \notin Conns

VARIABLES conn,           \* what became of each connection
          nodesById,      \* the connection under which a node is listed
          nodesByConn,    \* registered connections
          pendingInvokes, \* requests with an entry and a timer
          target,         \* the node each request is for
          answer,         \* what the caller of each request was told
          inbox,          \* requests on their way, with their connection
          executed,       \* requests the node has executed
          lateClose       \* nodes unlisted by the close of an older connection

registryVars == <<conn, nodesById, nodesByConn, pendingInvokes, target, answer,
                  inbox, executed, lateClose>>

Answers == {"ok", "timeout", "disconnected", "not_connected", "unavailable", "refused"}

(* Every variable of the registry has the type the code gives it. *)
RegistryTypeOK ==
  /\ conn \in [Conns -> {"new", "open", "dropped", "closed"}]
  /\ nodesById \in [Nodes -> Conns \cup {NoConn}]
  /\ nodesByConn \subseteq Conns
  /\ pendingInvokes \subseteq Invokes
  /\ target \in [Invokes -> Nodes]
  /\ answer \in [Invokes -> Answers \cup {"new", "waking", "nudging", "pending"}]
  /\ inbox \subseteq Invokes \X Conns
  /\ executed \subseteq Invokes
  /\ lateClose \subseteq Nodes

(* A request may be rejected for what it says before any state is looked at. *)
RegistryInit ==
  /\ conn = [c \in Conns |-> "new"]
  /\ nodesById = [n \in Nodes |-> NoConn]
  /\ nodesByConn = {} /\ pendingInvokes = {}
  /\ target \in [Invokes -> Nodes]
  /\ answer \in [Invokes -> {"new", "refused"}]
  /\ inbox = {} /\ executed = {} /\ lateClose = {}

-----------------------------------------------------------------------------

Mut_RegisterOnce(c) ==
  LET n == NodeOf[c] IN
  /\ conn[c] = "new"
  /\ \A d \in Conns : NodeOf[d] = n => conn[d] # "open"
  /\ conn' = [conn EXCEPT ![c] = "open"]
  /\ nodesById' = [nodesById EXCEPT ![n] = IF @ = NoConn THEN c ELSE @]
  /\ nodesByConn' = nodesByConn \cup {c}
  /\ lateClose' = lateClose \ {n}
  /\ UNCHANGED <<pendingInvokes, target, answer, inbox, executed>>

(* A node connects: register replaces whatever was listed before. *)
Register(c) ==
  LET n == NodeOf[c] IN
  /\ conn[c] = "new"
  /\ \A d \in Conns : NodeOf[d] = n => conn[d] # "open"
  /\ conn' = [conn EXCEPT ![c] = "open"]
  /\ nodesById' = [nodesById EXCEPT ![n] = c]
  /\ nodesByConn' = nodesByConn \cup {c}
  /\ lateClose' = lateClose \ {n}
  /\ UNCHANGED <<pendingInvokes, target, answer, inbox, executed>>

(* The node's end of a connection goes away; what was on its way is lost. *)
Drop(c) ==
  /\ conn[c] = "open"
  /\ conn' = [conn EXCEPT ![c] = "dropped"]
  /\ inbox' = {m \in inbox : m[2] # c}
  /\ UNCHANGED <<nodesById, nodesByConn, pendingInvokes, target, answer,
                 executed, lateClose>>

Mut_ForgetPending(n) ==
  /\ pendingInvokes' = {i \in pendingInvokes : target[i] # n}
  /\ UNCHANGED answer

(* Every pending request of a node is rejected. *)
RejectPending(n) ==
  LET rejected == {i \in pendingInvokes : target[i] = n} IN
  /\ pendingInvokes' = pendingInvokes \ rejected
  /\ answer' = [i \in Invokes |-> IF i \in rejected THEN "disconnected" ELSE answer[i]]

(* nodesById.delete(nodeId), whichever connection is listed by now. *)
Unlist(n) == nodesById' = [nodesById EXCEPT ![n] = NoConn]

(* The close event: unregister(connId). *)
Unregister(c) ==
  LET n == NodeOf[c] IN
  /\ conn[c] = "dropped"
  /\ conn' = [conn EXCEPT ![c] = "closed"]
  /\ nodesByConn' = nodesByConn \ {c}
  /\ Unlist(n)
  /\ RejectPending(n)
  /\ lateClose' = IF nodesById[n] \in Conns \ {c} THEN lateClose \cup {n} ELSE lateClose
  /\ UNCHANGED <<target, inbox, executed>>

(* invoke, for a listed node: the request is sent on its connection and     *)
(* gets an entry and a timer, or the send throws.                           *)
SendInvoke(i) ==
  LET c == nodesById[target[i]] IN
  /\ \/ /\ inbox' = IF conn[c] = "open" THEN inbox \cup {<<i, c>>} ELSE inbox
        /\ pendingInvokes' = pendingInvokes \cup {i}
        /\ answer' = [answer EXCEPT ![i] = "pending"]
     \/ /\ answer' = [answer EXCEPT ![i] = "unavailable"]
        /\ UNCHANGED <<inbox, pendingInvokes>>
  /\ UNCHANGED <<conn, nodesById, nodesByConn, target, executed, lateClose>>

(* The node runs a request it has received. *)
NodeExecutes(i, c) ==
  /\ <<i, c>> \in inbox
  /\ inbox' = inbox \ {<<i, c>>}
  /\ executed' = executed \cup {i}
  /\ UNCHANGED <<conn, nodesById, nodesByConn, pendingInvokes, target, answer, lateClose>>

Mut_LateResultAnswers(i) ==
  /\ i \in executed
  /\ \E c \in Conns : conn[c] = "open" /\ NodeOf[c] = target[i]
  /\ pendingInvokes' = pendingInvokes \ {i}
  /\ answer' = [answer EXCEPT ![i] = "ok"]
  /\ UNCHANGED <<conn, nodesById, nodesByConn, target, inbox, executed, lateClose>>

(* handleInvokeResult: a late result finds no entry and is ignored. *)
HandleInvokeResult(i) ==
  /\ i \in executed
  /\ \E c \in Conns : conn[c] = "open" /\ NodeOf[c] = target[i]
  /\ i \in pendingInvokes
  /\ pendingInvokes' = pendingInvokes \ {i}
  /\ answer' = [answer EXCEPT ![i] = "ok"]
  /\ UNCHANGED <<conn, nodesById, nodesByConn, target, inbox, executed, lateClose>>

InvokeTimesOut(i) ==
  /\ i \in pendingInvokes
  /\ pendingInvokes' = pendingInvokes \ {i}
  /\ answer' = [answer EXCEPT ![i] = "timeout"]
  /\ UNCHANGED <<conn, nodesById, nodesByConn, target, inbox, executed, lateClose>>

RegistryNext ==
  \/ \E c \in Conns : Register(c) \/ Drop(c) \/ Unregister(c)
  \/ \E i \in Invokes :
       \/ HandleInvokeResult(i) \/ InvokeTimesOut(i)
       \/ \E c \in Conns : NodeExecutes(i, c)

-----------------------------------------------------------------------------

(* A node that is connected is listed; the one way to lose it is the close  *)
(* of an older connection of the same node, handled after the node came     *)
(* back.                                                                    *)
ConnectedIsListed ==
  \A c \in Conns :
    conn[c] = "open" => nodesById[NodeOf[c]] = c \/ NodeOf[c] \in lateClose

(* A caller is told ok only if the node executed its request. *)
OkMeansExecuted == \A i \in Invokes : answer[i] = "ok" => i \in executed

(* The registry is consistent: types, the listing of connected nodes across *)
(* reconnects, and answers that say ok only of requests that were executed. *)
RegistryConsistent == RegistryTypeOK /\ ConnectedIsListed /\ OkMeansExecuted

(* The first answer of a request is the last: no late result, timeout or    *)
(* close changes what its caller was told.                                  *)
AnsweredOnce ==
  [][\A i \in Invokes : answer[i] \in Answers => answer'[i] = answer[i]]_registryVars
=============================================================================
