---------------------------- MODULE ExecApprovals ---------------------------
(***************************************************************************)
(* Approvals of commands, src/gateway/exec-approval-manager.ts with the     *)
(* handlers of server-methods/exec-approval.ts: a client asks for an        *)
(* approval of a command on a node, an approver decides or the request      *)
(* expires, and the record stays for a grace period in which the approval   *)
(* can be used and late callers can learn the decision.                     *)
(*                                                                          *)
(* An id is asked for once: it is a fresh UUID or the client's own, and a   *)
(* request with an id that is in use is refused and changes nothing; one    *)
(* whose record is gone begins anew, as another member of Approvals.  Time  *)
(* is kept per record: before, at or after expiresAtMs.  Forwarding, push   *)
(* delivery and the broadcast of events are left out, but not whether they  *)
(* reached anyone.                                                          *)
(***************************************************************************)
EXTENDS Naturals, FiniteSets

CONSTANTS Approvals,       \* approval ids
          ApprovalNodes,   \* nodes a command may run on
          Clients          \* devices that ask and invoke

VARIABLES record,   \* the manager's entries
          asker,    \* the exec.approval.request handler of each id
          waiter,   \* an exec.approval.waitDecision handler of each id
          verdict   \* what the promise of each id was resolved to

approvalVars == <<record, asker, waiter, verdict>>

Decisions == {"allow-once", "allow-always", "deny"}
NoDecision == "undefined"
Outcomes == Decisions \cup {"null"}

NoRecord == [node |-> "none"]
Records == [node : ApprovalNodes, client : Clients, decision : Decisions \cup {NoDecision},
            resolvedBy : {"pending", "null", "client", "no-route"},
            time : {"before", "at", "after"}]

(* Every variable of the approvals has the type the code gives it. *)
ApprovalsTypeOK ==
  /\ record \in [Approvals -> Records \cup {NoRecord}]
  /\ asker \in [Approvals -> {"new", "delivering", "no-route", "awaiting", "unrouted"} \cup Outcomes]
  /\ waiter \in [Approvals -> {"new", "awaiting", "unknown"} \cup Outcomes]
  /\ verdict \in [Approvals -> Outcomes \cup {"pending"}]

ApprovalsInit ==
  /\ record = [a \in Approvals |-> NoRecord]
  /\ asker = [a \in Approvals |-> "new"]
  /\ waiter = [a \in Approvals |-> "new"]
  /\ verdict = [a \in Approvals |-> "pending"]

Known(a) == record[a] # NoRecord
Pending(a) == Known(a) /\ record[a].resolvedBy = "pending"

-----------------------------------------------------------------------------

(* exec.approval.request: register, and look for someone to ask. *)
RequestApproval(a, n, c) ==
  /\ asker[a] = "new"
  /\ record' = [record EXCEPT ![a] =
       [node |-> n, client |-> c, decision |-> NoDecision, resolvedBy |-> "pending",
        time |-> "before"]]
  /\ \E route \in {"delivering", "no-route"} : asker' = [asker EXCEPT ![a] = route]
  /\ UNCHANGED <<waiter, verdict>>

(* The record and the promise of an id are resolved. *)
Settle(a, decision, by, outcome) ==
  /\ record' = [record EXCEPT ![a].decision = decision, ![a].resolvedBy = by]
  /\ verdict' = [verdict EXCEPT ![a] = outcome]

(* exec.approval.resolve *)
Resolve(a, d) ==
  /\ Pending(a)
  /\ Settle(a, d, "client", d)
  /\ UNCHANGED <<asker, waiter>>

(* The timer of the record. *)
Expire(a) ==
  /\ Pending(a) /\ record[a].time # "before"
  /\ Settle(a, NoDecision, "null", "null")
  /\ UNCHANGED <<asker, waiter>>

(* The request could be delivered to someone after all, or not: then it     *)
(* expires and its client is told null, even if an approver who connected   *)
(* meanwhile has just decided.                                              *)
Delivered(a) ==
  /\ \/ /\ asker[a] \in {"delivering", "no-route"}
        /\ asker' = [asker EXCEPT ![a] = "awaiting"]
        /\ UNCHANGED <<record, verdict>>
     \/ /\ asker[a] = "no-route"
        /\ asker' = [asker EXCEPT ![a] = "unrouted"]
        /\ IF Pending(a) THEN Settle(a, NoDecision, "no-route", "null")
           ELSE UNCHANGED <<record, verdict>>
  /\ UNCHANGED waiter

Mut_TellRecord(a) ==
  /\ asker[a] = "awaiting" /\ verdict[a] # "pending"
  /\ asker' = [asker EXCEPT ![a] =
       IF Known(a) /\ record[a].decision # NoDecision THEN record[a].decision ELSE "null"]
  /\ UNCHANGED <<record, waiter, verdict>>

(* await decisionPromise *)
TellAsker(a) ==
  /\ asker[a] = "awaiting" /\ verdict[a] # "pending"
  /\ asker' = [asker EXCEPT ![a] = verdict[a]]
  /\ UNCHANGED <<record, waiter, verdict>>

(* exec.approval.waitDecision: unknown once the grace period is over. *)
WaitDecision(a) ==
  /\ waiter[a] = "new" /\ asker[a] # "new"
  /\ waiter' = [waiter EXCEPT ![a] = IF Known(a) THEN "awaiting" ELSE "unknown"]
  /\ UNCHANGED <<record, asker, verdict>>

TellWaiter(a) ==
  /\ waiter[a] = "awaiting" /\ verdict[a] # "pending"
  /\ waiter' = [waiter EXCEPT ![a] = verdict[a]]
  /\ UNCHANGED <<record, asker, verdict>>

(* RESOLVED_ENTRY_GRACE_MS after the decision. *)
GraceOver(a) ==
  /\ Known(a) /\ ~Pending(a)
  /\ record' = [record EXCEPT ![a] = NoRecord]
  /\ UNCHANGED <<asker, waiter, verdict>>

(* The clock reaches, then passes, expiresAtMs. *)
TimePasses(a) ==
  /\ Known(a) /\ record[a].time # "after"
  /\ record' = [record EXCEPT ![a].time = IF @ = "before" THEN "at" ELSE "after"]
  /\ UNCHANGED <<asker, waiter, verdict>>

ApprovalsNext ==
  \E a \in Approvals :
    \/ \E n \in ApprovalNodes, c \in Clients : RequestApproval(a, n, c)
    \/ \E d \in Decisions : Resolve(a, d)
    \/ Expire(a) \/ Delivered(a) \/ TellAsker(a) \/ WaitDecision(a)
    \/ TellWaiter(a) \/ GraceOver(a) \/ TimePasses(a)

-----------------------------------------------------------------------------
(* sanitizeSystemRunParamsForForwarding *)

(* The record is known, not past expiresAtMs, and bound to this node and    *)
(* this client.                                                             *)
Bound(a, n, c) ==
  /\ Known(a) /\ record[a].time # "after"
  /\ record[a].node = n /\ record[a].client = c

Mut_NothingConsumed(a) == UNCHANGED record

(* consumeAllowOnce *)
ConsumeAllowOnce(a) == record' = [record EXCEPT ![a].decision = NoDecision]

TimedOut(a) == record[a].decision = NoDecision /\ record[a].resolvedBy = "null"

Mut_AnyScope(a, n, c, approver) ==
  /\ Bound(a, n, c)
  /\ \/ record[a].decision = "allow-once" /\ ConsumeAllowOnce(a)
     \/ record[a].decision = "allow-always" /\ UNCHANGED record
     \/ TimedOut(a) /\ UNCHANGED record

(* The decision of the record lets the request through, or the approval     *)
(* timed out and the request comes from a connection with                   *)
(* operator.approvals or operator.admin.                                    *)
Approve(a, n, c, approver) ==
  /\ Bound(a, n, c)
  /\ \/ record[a].decision = "allow-once" /\ ConsumeAllowOnce(a)
     \/ record[a].decision = "allow-always" /\ UNCHANGED record
     \/ TimedOut(a) /\ approver /\ UNCHANGED record

-----------------------------------------------------------------------------

(* Every caller that is told a decision is told the same one, however late  *)
(* it asks and whatever became of the record; only a client whose request   *)
(* found nobody to ask may be told null in place of a decision made in the  *)
(* meantime.                                                                *)
AnswersAgree ==
  \A a \in Approvals :
    /\ waiter[a] \in Outcomes => waiter[a] = verdict[a]
    /\ asker[a] \in Outcomes => asker[a] = verdict[a]

(* The approvals have their types and nobody hears a decision that was not  *)
(* made.                                                                    *)
ApprovalsConsistent == ApprovalsTypeOK /\ AnswersAgree
=============================================================================
