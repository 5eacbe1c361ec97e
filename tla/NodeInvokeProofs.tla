-------------------------- MODULE NodeInvokeProofs --------------------------
(***************************************************************************)
(* Theorems about NodeInvoke and the two components it composes, for every  *)
(* set of nodes, connections, requests, approvals and clients.              *)
(***************************************************************************)
EXTENDS NodeInvoke, TLAPS

-----------------------------------------------------------------------------
(* The inductive invariant *)

(* A request has an entry only while its caller waits. *)
PendingUnanswered == \A i \in pendingInvokes : answer[i] = "pending"

(* The record of an approval says what its promise was resolved to; a       *)
(* consumed approval says nothing, and nobody has decided what was not      *)
(* asked for.                                                               *)
RecordsAgree ==
  \A a \in Approvals :
    /\ asker[a] = "new" => ~Known(a) /\ verdict[a] = "pending"
    /\ Pending(a) => verdict[a] = "pending" /\ record[a].decision = NoDecision
    /\ Known(a) /\ record[a].decision # NoDecision => verdict[a] = record[a].decision
    /\ Known(a) /\ record[a].resolvedBy = "null" => verdict[a] = "null"

(* A request was forwarded once, under a verdict that lets it through.      *)
ForwardedAllowed ==
  /\ forwarded \in [Invokes -> {"no", "stripped", "allow-once", "allow-always", "null"}]
  /\ \A i \in Invokes :
       /\ forwarded[i] = "null" => i \in ByApprover
       /\ forwarded[i] = "stripped" <=> forwarded[i] # "no" /\ InvokeApproval[i] = NoApproval
       /\ answer[i] \in {"new", "waking", "nudging"} => forwarded[i] = "no"

(* What is on its way to a node, or was executed, was forwarded. *)
SentWasForwarded ==
  /\ \A m \in inbox : forwarded[m[1]] # "no"
  /\ \A i \in executed : forwarded[i] # "no"

(* A one-time approval that let a request through is used up for good. *)
OnceIsUsedUp ==
  \A i \in Invokes : forwarded[i] = "allow-once" =>
    LET a == InvokeApproval[i] IN
    verdict[a] = "allow-once" /\ ~(Known(a) /\ record[a].decision = "allow-once")

RegistryInv == RegistryTypeOK /\ ConnectedIsListed /\ OkMeansExecuted /\ PendingUnanswered
ApprovalsInv == ApprovalsTypeOK /\ AnswersAgree /\ RecordsAgree
ForwardInv == ForwardedAllowed /\ SentWasForwarded /\ OnceIsUsedUp /\ OnceMeansOnce

IInv == RegistryInv /\ ApprovalsInv /\ ForwardInv

(* What went through under a one-time approval claimed one. *)
LEMMA OnceClaims ==
  ASSUME ForwardedAllowed, NEW i \in Invokes, forwarded[i] = "allow-once"
  PROVE  InvokeApproval[i] \in Approvals
BY InvokesAssumption DEF ForwardedAllowed

-----------------------------------------------------------------------------
(* The registry *)

(* A step of the registry keeps its part of the invariant, whoever calls it. *)
LEMMA RegistryStep == RegistryInv /\ RegistryNext => RegistryInv'
<1> SUFFICES ASSUME RegistryInv, RegistryNext PROVE RegistryInv'
  OBVIOUS
<1> USE ConnsAssumption
<1>1. ASSUME NEW c \in Conns, Register(c) PROVE RegistryInv'
  <2>1. RegistryTypeOK'
    BY <1>1 DEF Register, RegistryInv, RegistryTypeOK
  <2>2. ConnectedIsListed'
    BY <1>1 DEF Register, RegistryInv, RegistryTypeOK, ConnectedIsListed
  <2> QED BY <1>1, <2>1, <2>2 DEF Register, RegistryInv, OkMeansExecuted, PendingUnanswered
<1>2. ASSUME NEW c \in Conns, Drop(c) PROVE RegistryInv'
  <2>1. RegistryTypeOK'
    BY <1>2 DEF Drop, RegistryInv, RegistryTypeOK
  <2>2. ConnectedIsListed'
    BY <1>2 DEF Drop, RegistryInv, RegistryTypeOK, ConnectedIsListed
  <2> QED BY <1>2, <2>1, <2>2 DEF Drop, RegistryInv, OkMeansExecuted, PendingUnanswered
<1>3. ASSUME NEW c \in Conns, Unregister(c) PROVE RegistryInv'
  <2>1. RegistryTypeOK'
    BY <1>3 DEF Unregister, Unlist, RejectPending, RegistryInv, RegistryTypeOK, Answers
  <2>2. ConnectedIsListed'
    BY <1>3 DEF Unregister, Unlist, RegistryInv, RegistryTypeOK, ConnectedIsListed
  <2>3. OkMeansExecuted' /\ PendingUnanswered'
    BY <1>3 DEF Unregister, RejectPending, RegistryInv, RegistryTypeOK, OkMeansExecuted,
       PendingUnanswered
  <2> QED BY <2>1, <2>2, <2>3 DEF RegistryInv
<1>4. ASSUME NEW i \in Invokes, HandleInvokeResult(i) PROVE RegistryInv'
  BY <1>4 DEF HandleInvokeResult, RegistryInv, RegistryTypeOK, Answers, ConnectedIsListed,
     OkMeansExecuted, PendingUnanswered
<1>5. ASSUME NEW i \in Invokes, InvokeTimesOut(i) PROVE RegistryInv'
  BY <1>5 DEF InvokeTimesOut, RegistryInv, RegistryTypeOK, Answers, ConnectedIsListed,
     OkMeansExecuted, PendingUnanswered
<1>6. ASSUME NEW i \in Invokes, NEW c \in Conns, NodeExecutes(i, c) PROVE RegistryInv'
  BY <1>6 DEF NodeExecutes, RegistryInv, RegistryTypeOK, ConnectedIsListed,
     OkMeansExecuted, PendingUnanswered
<1> QED BY <1>1, <1>2, <1>3, <1>4, <1>5, <1>6 DEF RegistryNext

(* So do the steps of a node.invoke handler. *)
LEMMA SendKeepsRegistry ==
  ASSUME RegistryInv, NEW i \in Invokes, SendInvoke(i), answer[i] \in {"new", "waking"},
         nodesById[target[i]] # NoConn
  PROVE  RegistryInv'
<1>1. nodesById[target[i]] \in Conns /\ i \notin pendingInvokes
  BY DEF RegistryInv, RegistryTypeOK, PendingUnanswered
<1>2. RegistryTypeOK'
  BY <1>1 DEF SendInvoke, RegistryInv, RegistryTypeOK, Answers
<1>3. ConnectedIsListed' /\ OkMeansExecuted' /\ PendingUnanswered'
  BY <1>1 DEF SendInvoke, RegistryInv, RegistryTypeOK, ConnectedIsListed, OkMeansExecuted,
     PendingUnanswered
<1> QED BY <1>2, <1>3 DEF RegistryInv

LEMMA TellKeepsRegistry ==
  ASSUME RegistryInv, NEW i \in Invokes, answer[i] \in {"new", "waking", "nudging"},
         NEW told \in {"waking", "nudging", "not_connected", "refused"},
         answer' = [answer EXCEPT ![i] = told],
         UNCHANGED <<conn, nodesById, nodesByConn, pendingInvokes, target, inbox, executed,
                     lateClose>>
  PROVE  RegistryInv'
BY DEF RegistryInv, RegistryTypeOK, Answers, ConnectedIsListed, OkMeansExecuted,
   PendingUnanswered

-----------------------------------------------------------------------------
(* The approvals *)

(* A fresh record is a record. *)
LEMMA FreshRecord ==
  ASSUME NEW n \in ApprovalNodes, NEW c \in Clients
  PROVE  LET r == [node |-> n, client |-> c, decision |-> NoDecision,
                   resolvedBy |-> "pending", time |-> "before"]
         IN r \in Records
BY DEF Records

LEMMA RecordsAreKnown == NoRecord \notin Records
BY DEF Records, NoRecord

(* A step of the approvals keeps their part of the invariant. *)
LEMMA ApprovalsStep == ApprovalsInv /\ ApprovalsNext => ApprovalsInv'
<1> SUFFICES ASSUME ApprovalsInv, NEW a \in Approvals,
                    \/ \E n \in ApprovalNodes, c \in Clients : RequestApproval(a, n, c)
                    \/ \E d \in Decisions : Resolve(a, d)
                    \/ Expire(a) \/ Delivered(a) \/ TellAsker(a) \/ WaitDecision(a)
                    \/ TellWaiter(a) \/ GraceOver(a) \/ TimePasses(a)
             PROVE  ApprovalsInv'
  BY DEF ApprovalsNext
<1> USE RecordsAreKnown DEF ApprovalsInv, Known
<1>1. ASSUME NEW n \in ApprovalNodes, NEW c \in Clients, RequestApproval(a, n, c)
      PROVE  ApprovalsInv'
  <2>1. ApprovalsTypeOK'
    BY <1>1, FreshRecord DEF RequestApproval, ApprovalsTypeOK
  <2>2. record'[a] # NoRecord /\ record'[a].decision = NoDecision
        /\ record'[a].resolvedBy = "pending"
    BY <1>1, FreshRecord DEF RequestApproval, ApprovalsTypeOK
  <2>3. RecordsAgree'
    BY <1>1, <2>2 DEF RequestApproval, ApprovalsTypeOK, RecordsAgree, Pending
  <2>4. AnswersAgree'
    BY <1>1 DEF RequestApproval, ApprovalsTypeOK, AnswersAgree, Outcomes, Decisions
  <2> QED BY <2>1, <2>3, <2>4
<1>2. ASSUME Pending(a), NEW d \in Decisions \cup {NoDecision},
             NEW by \in {"null", "client", "no-route"}, NEW v \in Outcomes,
             Settle(a, d, by, v), d # NoDecision => v = d, by = "null" => v = "null",
             asker' = asker \/ asker' = [asker EXCEPT ![a] = "unrouted"], waiter' = waiter
      PROVE  ApprovalsInv'
  <2>1. record[a] \in Records
    BY <1>2 DEF ApprovalsTypeOK, Pending
  <2>2. record'[a] \in Records /\ record'[a].decision = d /\ record'[a].resolvedBy = by
    BY <1>2, <2>1 DEF Settle, ApprovalsTypeOK, Records
  <2>3. \A b \in Approvals \ {a} : record'[b] = record[b] /\ verdict'[b] = verdict[b]
    BY <1>2 DEF Settle, ApprovalsTypeOK
  <2>4. ApprovalsTypeOK'
    <3>1. record' \in [Approvals -> Records \cup {NoRecord}]
      BY <1>2, <2>2, <2>3 DEF Settle, ApprovalsTypeOK
    <3> QED BY <1>2, <3>1 DEF Settle, ApprovalsTypeOK
  <2>5. verdict'[a] = v /\ verdict[a] = "pending" /\ asker[a] # "new"
    BY <1>2 DEF Settle, ApprovalsTypeOK, RecordsAgree, Pending
  <2>6. RecordsAgree'
    BY <1>2, <2>2, <2>3, <2>5 DEF ApprovalsTypeOK, RecordsAgree, Pending
  <2>7. AnswersAgree'
    BY <1>2, <2>3, <2>5 DEF ApprovalsTypeOK, AnswersAgree, Outcomes, Decisions
  <2> QED BY <2>4, <2>6, <2>7
<1>3. ASSUME NEW d \in Decisions, Resolve(a, d) PROVE ApprovalsInv'
  BY <1>2, <1>3 DEF Resolve, Outcomes
<1>4. ASSUME Expire(a) PROVE ApprovalsInv'
  BY <1>2, <1>4 DEF Expire, Outcomes
<1>5. ASSUME Delivered(a) PROVE ApprovalsInv'
  <2>1. CASE Pending(a) /\ asker' = [asker EXCEPT ![a] = "unrouted"]
             /\ Settle(a, NoDecision, "no-route", "null")
    BY <1>2, <1>5, <2>1 DEF Delivered, Outcomes
  <2>2. CASE /\ asker[a] \in {"delivering", "no-route"}
             /\ \E at \in {"awaiting", "unrouted"} : asker' = [asker EXCEPT ![a] = at]
             /\ UNCHANGED <<record, verdict, waiter>>
    BY <2>2 DEF ApprovalsTypeOK, AnswersAgree, RecordsAgree, Pending, Outcomes, Decisions
  <2> QED BY <1>5, <2>1, <2>2 DEF Delivered
<1>6. ASSUME TellAsker(a) PROVE ApprovalsInv'
  BY <1>6 DEF TellAsker, ApprovalsTypeOK, AnswersAgree, RecordsAgree, Pending, Outcomes,
     Decisions
<1>7. ASSUME WaitDecision(a) \/ TellWaiter(a) PROVE ApprovalsInv'
  BY <1>7 DEF WaitDecision, TellWaiter, ApprovalsTypeOK, AnswersAgree, RecordsAgree, Pending,
     Outcomes, Decisions
<1>8. ASSUME GraceOver(a) PROVE ApprovalsInv'
  BY <1>8 DEF GraceOver, ApprovalsTypeOK, AnswersAgree, RecordsAgree, Pending
<1>9. ASSUME TimePasses(a) PROVE ApprovalsInv'
  <2>1. record[a] \in Records
    BY <1>9 DEF TimePasses, ApprovalsTypeOK
  <2>2. record'[a] \in Records /\ record'[a].decision = record[a].decision
        /\ record'[a].resolvedBy = record[a].resolvedBy
    BY <1>9, <2>1 DEF TimePasses, ApprovalsTypeOK, Records
  <2>3. \A b \in Approvals \ {a} : record'[b] = record[b]
    BY <1>9 DEF TimePasses, ApprovalsTypeOK
  <2>4. ApprovalsTypeOK'
    BY <1>9, <2>2, <2>3 DEF TimePasses, ApprovalsTypeOK
  <2> QED BY <1>9, <2>1, <2>2, <2>3, <2>4 DEF TimePasses, AnswersAgree, RecordsAgree, Pending
<1> QED BY <1>1, <1>3, <1>4, <1>5, <1>6, <1>7, <1>8, <1>9

(* Checking an approval keeps the approvals' part of the invariant, and     *)
(* says under which verdict a request goes through.                         *)
LEMMA ApproveKeeps ==
  ASSUME ApprovalsInv, NEW a \in Approvals, NEW n, NEW c, NEW approver,
         Approve(a, n, c, approver), UNCHANGED <<asker, waiter, verdict>>
  PROVE  /\ ApprovalsInv'
         /\ verdict[a] \in {"allow-once", "allow-always", "null"}
         /\ verdict[a] = "null" => approver
         /\ verdict[a] = "allow-once" =>
              /\ Known(a) /\ record[a].decision = "allow-once"
              /\ record'[a].decision = NoDecision
         /\ \A b \in Approvals : b # a => record'[b] = record[b]
<1> USE RecordsAreKnown DEF ApprovalsInv, Known
<1>1. record[a] \in Records /\ record[a] # NoRecord
  BY DEF Approve, Bound, ApprovalsTypeOK
<1>2. CASE record[a].decision = "allow-once" /\ ConsumeAllowOnce(a)
  <2>1. /\ record'[a] \in Records /\ record'[a].decision = NoDecision
        /\ record'[a].resolvedBy = record[a].resolvedBy
        /\ \A b \in Approvals : b # a => record'[b] = record[b]
        /\ record' \in [Approvals -> Records \cup {NoRecord}]
    BY <1>1, <1>2 DEF ConsumeAllowOnce, ApprovalsTypeOK, Records
  <2>2. verdict[a] = "allow-once"
    BY <1>1, <1>2 DEF RecordsAgree, NoDecision
  <2>3. ApprovalsInv'
    BY <1>1, <1>2, <2>1, <2>2 DEF ApprovalsTypeOK, AnswersAgree, RecordsAgree, Pending,
       NoDecision
  <2> QED BY <1>1, <1>2, <2>1, <2>2, <2>3
<1>3. CASE record[a].decision = "allow-always" /\ UNCHANGED record
  <2>1. verdict[a] = "allow-always"
    BY <1>1, <1>3 DEF RecordsAgree, NoDecision
  <2> QED BY <1>3, <2>1 DEF ApprovalsTypeOK, AnswersAgree, RecordsAgree, Pending
<1>4. CASE TimedOut(a) /\ approver /\ UNCHANGED record
  <2>1. verdict[a] = "null"
    BY <1>1, <1>4 DEF RecordsAgree, TimedOut
  <2> QED BY <1>4, <2>1 DEF ApprovalsTypeOK, AnswersAgree, RecordsAgree, Pending
<1> QED BY <1>2, <1>3, <1>4 DEF Approve

-----------------------------------------------------------------------------
(* The composition *)

LEMMA InitIInv == Init => IInv
<1> SUFFICES ASSUME Init PROVE IInv
  OBVIOUS
<1> USE DEF Init, RegistryInit, ApprovalsInit
<1>1. RegistryInv
  <2>1. RegistryTypeOK
    BY DEF RegistryTypeOK, Answers
  <2> QED BY <2>1, ConnsAssumption
          DEF RegistryInv, ConnectedIsListed, OkMeansExecuted, PendingUnanswered
<1>2. ApprovalsInv
  BY DEF ApprovalsInv, ApprovalsTypeOK, AnswersAgree, RecordsAgree, Known, Pending, Outcomes,
     Decisions
<1>3. ForwardInv
  BY DEF ForwardInv, ForwardedAllowed, SentWasForwarded, OnceIsUsedUp, OnceMeansOnce
<1> QED BY <1>1, <1>2, <1>3 DEF IInv

(* A step of the approvals alone: no used approval comes back. *)
LEMMA UsedUpStaysUsedUp ==
  ASSUME IInv, ApprovalsNext, UNCHANGED forwarded PROVE OnceIsUsedUp'
<1>1. PICK a \in Approvals :
         \/ \E n \in ApprovalNodes, c \in Clients : RequestApproval(a, n, c)
         \/ \E d \in Decisions : Resolve(a, d)
         \/ Expire(a) \/ Delivered(a) \/ TellAsker(a) \/ WaitDecision(a)
         \/ TellWaiter(a) \/ GraceOver(a) \/ TimePasses(a)
  BY DEF ApprovalsNext
<1>2. \A b \in Approvals : b # a => record'[b] = record[b] /\ verdict'[b] = verdict[b]
  BY <1>1 DEF RequestApproval, Resolve, Expire, Delivered, TellAsker, WaitDecision, TellWaiter,
     GraceOver, TimePasses, Settle, IInv, ApprovalsInv, ApprovalsTypeOK
<1>3. ASSUME verdict[a] = "allow-once", ~(Known(a) /\ record[a].decision = "allow-once")
      PROVE  verdict'[a] = "allow-once" /\ ~(Known(a)' /\ record'[a].decision = "allow-once")
  <2>1. ~Pending(a) /\ asker[a] # "new"
    BY <1>3 DEF IInv, ApprovalsInv, RecordsAgree
  <2>2. CASE TimePasses(a)
    <3>1. record[a] \in Records
      BY <2>2 DEF TimePasses, Known, IInv, ApprovalsInv, ApprovalsTypeOK
    <3> QED BY <1>3, <2>2, <3>1 DEF TimePasses, Known, IInv, ApprovalsInv, ApprovalsTypeOK, Records
  <2>3. CASE GraceOver(a)
    BY <1>3, <2>3 DEF GraceOver, Known, IInv, ApprovalsInv, ApprovalsTypeOK
  <2>4. CASE Delivered(a) \/ TellAsker(a) \/ WaitDecision(a) \/ TellWaiter(a)
    BY <1>3, <2>1, <2>4 DEF Delivered, TellAsker, WaitDecision, TellWaiter, Known
  <2> QED BY <1>1, <2>1, <2>2, <2>3, <2>4 DEF RequestApproval, Resolve, Expire
<1> QED BY <1>2, <1>3, OnceClaims DEF IInv, ForwardInv, OnceIsUsedUp, Known

(* A step of the registry alone sends nothing and forwards nothing. *)
LEMMA RegistryKeepsForwards ==
  ASSUME IInv, RegistryNext, UNCHANGED <<approvalVars, forwarded>> PROVE ForwardInv'
<1> USE DEF IInv, ForwardInv
<1>1. OnceIsUsedUp' /\ OnceMeansOnce'
  BY DEF OnceIsUsedUp, OnceMeansOnce, Known, approvalVars
<1>2. \A i \in Invokes : answer'[i] \in {"new", "waking", "nudging"} => answer[i] = answer'[i]
  BY DEF RegistryNext, Register, Drop, Unregister, RejectPending, HandleInvokeResult,
     InvokeTimesOut, NodeExecutes, RegistryInv, RegistryTypeOK
<1>3. ForwardedAllowed'
  BY <1>2 DEF ForwardedAllowed
<1>4. SentWasForwarded'
  <2>1. ASSUME NEW i \in Invokes, NEW c \in Conns, NodeExecutes(i, c) PROVE SentWasForwarded'
    <3>1. forwarded[<<i, c>>[1]] # "no"
      BY <2>1 DEF NodeExecutes, SentWasForwarded
    <3> QED BY <2>1, <3>1 DEF NodeExecutes, SentWasForwarded
  <2>2. CASE inbox' \subseteq inbox /\ executed' = executed
    BY <2>2 DEF SentWasForwarded
  <2> QED BY <2>1, <2>2 DEF RegistryNext, Register, Drop, Unregister, HandleInvokeResult,
         InvokeTimesOut
<1> QED BY <1>1, <1>3, <1>4

(* A request that is forwarded is the only one under a one-time approval. *)
LEMMA ForwardKeeps ==
  ASSUME IInv, NEW i \in Invokes, InvokeForwards(i) PROVE IInv'
<1> DEFINE a == InvokeApproval[i]
<1> USE InvokesAssumption DEF InvokeForwards
<1>1. a \in Approvals
  OBVIOUS
<1>2. RegistryInv'
  BY SendKeepsRegistry DEF IInv
<1>3. /\ ApprovalsInv'
      /\ verdict[a] \in {"allow-once", "allow-always", "null"}
      /\ verdict[a] = "null" => i \in ByApprover
      /\ verdict[a] = "allow-once" =>
           /\ Known(a) /\ record[a].decision = "allow-once"
           /\ record'[a].decision = NoDecision
      /\ \A b \in Approvals : b # a => record'[b] = record[b]
  BY <1>1, ApproveKeeps DEF IInv
<1>4. forwarded' = [forwarded EXCEPT ![i] = verdict[a]] /\ verdict' = verdict
      /\ forwarded \in [Invokes -> {"no", "stripped", "allow-once", "allow-always", "null"}]
  BY DEF IInv, ForwardInv, ForwardedAllowed
<1>5. /\ \A j \in Invokes : j # i => answer'[j] = answer[j]
      /\ answer'[i] \in {"pending", "unavailable"}
      /\ inbox' \subseteq inbox \cup {<<i, nodesById[target[i]]>>} /\ executed' = executed
  BY DEF SendInvoke, IInv, RegistryInv, RegistryTypeOK
<1>6. ForwardedAllowed'
  BY <1>3, <1>4, <1>5 DEF IInv, ForwardInv, ForwardedAllowed
<1>7. SentWasForwarded'
  <2>1. forwarded'[i] # "no" /\ \A j \in Invokes : j # i => forwarded'[j] = forwarded[j]
    BY <1>3, <1>4
  <2>2. \A m \in inbox : m[1] \in Invokes /\ executed \subseteq Invokes
    BY DEF IInv, RegistryInv, RegistryTypeOK
  <2>3. \A m \in inbox' : forwarded'[m[1]] # "no"
    BY <1>5, <2>1, <2>2 DEF IInv, ForwardInv, SentWasForwarded
  <2>4. \A j \in executed' : forwarded'[j] # "no"
    BY <1>5, <2>1 DEF IInv, ForwardInv, SentWasForwarded, RegistryInv, RegistryTypeOK
  <2> QED BY <2>3, <2>4 DEF SentWasForwarded
<1>8. ASSUME verdict[a] = "allow-once", NEW j \in Invokes, forwarded[j] = "allow-once",
             InvokeApproval[j] = a
      PROVE  FALSE
  BY <1>3, <1>8 DEF IInv, ForwardInv, OnceIsUsedUp
<1>9. OnceMeansOnce'
  BY <1>4, <1>8 DEF IInv, ForwardInv, OnceMeansOnce
<1>10. OnceIsUsedUp'
  <2> SUFFICES ASSUME NEW j \in Invokes, forwarded'[j] = "allow-once"
               PROVE  LET b == InvokeApproval[j] IN
                        verdict[b] = "allow-once"
                          /\ ~(record'[b] # NoRecord /\ record'[b].decision = "allow-once")
    BY DEF OnceIsUsedUp, Known
  <2>1. CASE InvokeApproval[j] = a
    <3>1. verdict[a] = "allow-once"
      BY <1>4, <2>1 DEF IInv, ForwardInv, OnceIsUsedUp
    <3> QED BY <1>3, <2>1, <3>1 DEF NoDecision
  <2>2. CASE InvokeApproval[j] # a
    <3>1. forwarded[j] = "allow-once"
      BY <1>4, <2>2
    <3> QED BY <1>3, <2>2, <3>1, OnceClaims DEF IInv, ForwardInv, OnceIsUsedUp, Known
  <2> QED BY <2>1, <2>2
<1> QED BY <1>2, <1>3, <1>6, <1>7, <1>9, <1>10 DEF IInv, ForwardInv

(* A request without an approval is sent and touches no approval. *)
LEMMA StripKeeps ==
  ASSUME IInv, NEW i \in Invokes, InvokeStripped(i) PROVE IInv'
<1> USE DEF InvokeStripped
<1>1. RegistryInv'
  BY SendKeepsRegistry DEF IInv
<1>2. ApprovalsInv'
  BY DEF IInv, ApprovalsInv, ApprovalsTypeOK, AnswersAgree, RecordsAgree, Known, Pending,
     approvalVars
<1>3. forwarded' = [forwarded EXCEPT ![i] = "stripped"]
      /\ forwarded \in [Invokes -> {"no", "stripped", "allow-once", "allow-always", "null"}]
  BY DEF IInv, ForwardInv, ForwardedAllowed
<1>4. /\ \A j \in Invokes : j # i => answer'[j] = answer[j]
      /\ answer'[i] \in {"pending", "unavailable"}
      /\ inbox' \subseteq inbox \cup {<<i, nodesById[target[i]]>>} /\ executed' = executed
  BY DEF SendInvoke, IInv, RegistryInv, RegistryTypeOK
<1>5. forwarded'[i] = "stripped" /\ \A j \in Invokes : j # i => forwarded'[j] = forwarded[j]
  BY <1>3
<1>6. ForwardedAllowed'
  BY <1>3, <1>4 DEF IInv, ForwardInv, ForwardedAllowed
<1>7. SentWasForwarded'
  <2>1. \A m \in inbox : m[1] \in Invokes
    BY DEF IInv, RegistryInv, RegistryTypeOK
  <2>2. \A m \in inbox' : forwarded'[m[1]] # "no"
    BY <1>4, <1>5, <2>1 DEF IInv, ForwardInv, SentWasForwarded
  <2>3. \A j \in executed' : forwarded'[j] # "no"
    BY <1>4, <1>5 DEF IInv, ForwardInv, SentWasForwarded, RegistryInv, RegistryTypeOK
  <2> QED BY <2>2, <2>3 DEF SentWasForwarded
<1>8. OnceMeansOnce' /\ OnceIsUsedUp'
  BY <1>5 DEF IInv, ForwardInv, OnceMeansOnce, OnceIsUsedUp, Known, approvalVars
<1> QED BY <1>1, <1>2, <1>6, <1>7, <1>8 DEF IInv, ForwardInv

LEMMA StepIInv == IInv /\ [Next]_vars => IInv'
<1> SUFFICES ASSUME IInv, [Next]_vars PROVE IInv'
  OBVIOUS
<1>1. CASE RegistryNext /\ UNCHANGED <<approvalVars, forwarded>>
  <2>1. RegistryInv' /\ ForwardInv'
    BY <1>1, RegistryStep, RegistryKeepsForwards DEF IInv
  <2>2. ApprovalsInv'
    BY <1>1 DEF IInv, ApprovalsInv, ApprovalsTypeOK, AnswersAgree, RecordsAgree, Known,
       Pending, approvalVars
  <2> QED BY <2>1, <2>2 DEF IInv
<1>2. CASE ApprovalsNext /\ UNCHANGED <<registryVars, forwarded>>
  <2>1. ApprovalsInv' /\ OnceIsUsedUp'
    BY <1>2, ApprovalsStep, UsedUpStaysUsedUp DEF IInv
  <2>2. RegistryInv'
    BY <1>2 DEF IInv, RegistryInv, RegistryTypeOK, ConnectedIsListed, OkMeansExecuted,
       PendingUnanswered, registryVars
  <2>3. ForwardedAllowed' /\ SentWasForwarded' /\ OnceMeansOnce'
    BY <1>2 DEF IInv, ForwardInv, ForwardedAllowed, SentWasForwarded, OnceMeansOnce,
       registryVars
  <2> QED BY <2>1, <2>2, <2>3 DEF IInv, ForwardInv
<1>3. ASSUME NEW i \in Invokes,
             InvokeWakes(i) \/ WakeFails(i) \/ NotConnected(i) \/ InvokeRefused(i)
      PROVE  IInv'
  <2>1. PICK told \in {"waking", "nudging", "not_connected", "refused"} :
          /\ answer' = [answer EXCEPT ![i] = told]
          /\ answer[i] \in {"new", "waking", "nudging"}
          /\ UNCHANGED <<conn, nodesById, nodesByConn, pendingInvokes, target, inbox,
                         executed, lateClose, approvalVars, forwarded>>
    BY <1>3 DEF InvokeWakes, WakeFails, NotConnected, InvokeRefused
  <2>2. RegistryInv'
    BY <2>1, TellKeepsRegistry DEF IInv
  <2>3. ApprovalsInv'
    BY <2>1 DEF IInv, ApprovalsInv, ApprovalsTypeOK, AnswersAgree, RecordsAgree, Known,
       Pending, approvalVars
  <2>4. ForwardInv'
    BY <2>1 DEF IInv, ForwardInv, ForwardedAllowed, SentWasForwarded, OnceMeansOnce,
       OnceIsUsedUp, Known, approvalVars, RegistryInv, RegistryTypeOK
  <2> QED BY <2>2, <2>3, <2>4 DEF IInv
<1>4. CASE UNCHANGED vars
  BY <1>4 DEF vars, registryVars, approvalVars, IInv, RegistryInv, ApprovalsInv, ForwardInv,
     RegistryTypeOK, ConnectedIsListed, OkMeansExecuted, PendingUnanswered, ApprovalsTypeOK,
     AnswersAgree, RecordsAgree, Known, Pending, ForwardedAllowed, SentWasForwarded,
     OnceMeansOnce, OnceIsUsedUp
<1> QED BY <1>1, <1>2, <1>3, <1>4, ForwardKeeps, StripKeeps DEF Next, InvokeNext

LEMMA Invariance == Spec => []IInv
BY InitIInv, StepIInv, PTL DEF Spec

-----------------------------------------------------------------------------
(* Theorems *)

(* A connected node is listed, but for the close of an older connection     *)
(* handled late, and a caller is told ok only of what was executed.         *)
THEOREM RegistryIsConsistent == Spec => []RegistryConsistent
<1>1. IInv => RegistryConsistent
  BY DEF IInv, RegistryInv, RegistryConsistent
<1> QED BY <1>1, Invariance, PTL

(* Everybody who is told a decision is told the same one. *)
THEOREM ApprovalsAreConsistent == Spec => []ApprovalsConsistent
<1>1. IInv => ApprovalsConsistent
  BY DEF IInv, ApprovalsInv, ApprovalsConsistent
<1> QED BY <1>1, Invariance, PTL

(* A one-time approval lets at most one request through. *)
THEOREM OnceOnly == Spec => []OnceMeansOnce
<1>1. IInv => OnceMeansOnce
  BY DEF IInv, ForwardInv
<1> QED BY <1>1, Invariance, PTL

(* Nothing that claims an approval runs on a node unless it was allowed,    *)
(* and only what claims none gets there without a decision.                 *)
THEOREM OnlyAllowedRuns == Spec => []ApprovedOnlyIfAllowed
<1>1. IInv => ApprovedOnlyIfAllowed
  BY DEF IInv, RegistryInv, RegistryTypeOK, ForwardInv, ForwardedAllowed, SentWasForwarded,
     ApprovedOnlyIfAllowed
<1> QED BY <1>1, Invariance, PTL

(* The first answer of a request is the last: no late result, timeout or    *)
(* close changes what its caller was told.                                  *)
THEOREM OneAnswer == Spec => AnsweredOnce
<1>1. IInv /\ [Next]_vars =>
        [\A i \in Invokes : answer[i] \in Answers => answer'[i] = answer[i]]_registryVars
  <2> SUFFICES ASSUME IInv, [Next]_vars, NEW i \in Invokes, answer[i] \in Answers
               PROVE  answer'[i] = answer[i]
    OBVIOUS
  <2> USE DEF IInv, RegistryInv, RegistryTypeOK, Answers
  <2>1. answer[i] \notin {"new", "waking", "nudging", "pending"} /\ i \notin pendingInvokes
    BY DEF PendingUnanswered
  <2>2. CASE RegistryNext
    BY <2>1, <2>2 DEF RegistryNext, Register, Drop, Unregister, RejectPending,
       HandleInvokeResult, InvokeTimesOut, NodeExecutes
  <2>3. CASE InvokeNext
    BY <2>1, <2>3 DEF InvokeNext, InvokeWakes, WakeFails, NotConnected, InvokeForwards,
       InvokeStripped, SendInvoke, InvokeRefused
  <2>4. CASE UNCHANGED registryVars
    BY <2>4 DEF registryVars
  <2> QED BY <2>2, <2>3, <2>4 DEF Next, vars
<1> QED BY <1>1, Invariance, PTL DEF Spec, AnsweredOnce
=============================================================================
