--------------------------- MODULE ManualCredits ---------------------------
(* Credits of a member's wallet by hand (services/manualcredit.ts): one super
   admin asks, another approves with a PIN.

   A handler is one transaction. What it reads before it waits for the credit's
   row can be stale when it writes. *)
EXTENDS Naturals

CONSTANTS
    Supers,     \* super admins; each may also be the member credited
    Credits,    \* ManualCredit rows that may come to exist
    Clerks,     \* concurrent handlers
    Nobody, NoCredit

VARIABLES
    credit,     \* ManualCredit: status, initiator, member, approver
    credited,   \* how often a credit was added to the wallet, with its ledger entry
    clerk       \* an approval or rejection between its read and its commit

vars == <<credit, credited, clerk>>

NewCredit == [status |-> "none", initiator |-> Nobody, member |-> Nobody, approver |-> Nobody]
IdleClerk == [pc |-> "idle", who |-> Nobody, c |-> NoCredit]

Init ==
    /\ credit = [c \in Credits |-> NewCredit]
    /\ credited = [c \in Credits |-> 0]
    /\ clerk = [k \in Clerks |-> IdleClerk]

\* Nobody asks for a credit of his own wallet.
RequestManualCredit(a, m, c) ==
    /\ credit[c].status = "none"
    /\ m # a
    /\ credit' = [credit EXCEPT ![c] =
            [status |-> "pending", initiator |-> a, member |-> m, approver |-> Nobody]]
    /\ UNCHANGED <<credited, clerk>>

Open(k, pc, s, c) ==
    /\ clerk[k].pc = "idle"
    /\ \A j \in Clerks : clerk[j].who # s
    /\ credit[c].status = "pending"
    /\ clerk' = [clerk EXCEPT ![k] = [pc |-> pc, who |-> s, c |-> c]]
    /\ UNCHANGED <<credit, credited>>

\* approveManualCredit up to the PIN: not by the initiator; who it credits does not matter.
ReadApprove(k, s, c) == credit[c].initiator # s /\ Open(k, "approve", s, c)
ReadReject(k, s, c) == Open(k, "reject", s, c)

\* Mutant: the claim does not look at the status.
StillPendingAny(c) == credit[c].status # "none"

StillPending(c) == credit[c].status = "pending"

(* The claim, the wallet, the contribution and the ledger entry. *)
ApproveManualCredit(k) ==
    /\ clerk[k].pc = "approve"
    /\ LET c == clerk[k].c IN
        IF StillPending(c)
        THEN /\ credit' = [credit EXCEPT ![c].status = "approved", ![c].approver = clerk[k].who]
             /\ credited' = [credited EXCEPT ![c] = @ + 1]
        ELSE UNCHANGED <<credit, credited>>
    /\ clerk' = [clerk EXCEPT ![k] = IdleClerk]

\* The rejection writes whatever the status has become.
RejectManualCredit(k) ==
    /\ clerk[k].pc = "reject"
    /\ credit' = [credit EXCEPT ![clerk[k].c].status = "rejected"]
    /\ clerk' = [clerk EXCEPT ![k] = IdleClerk]
    /\ UNCHANGED credited

\* The transaction is rolled back, or the PIN was wrong.
Abandon(k) ==
    /\ clerk[k].pc # "idle"
    /\ clerk' = [clerk EXCEPT ![k] = IdleClerk]
    /\ UNCHANGED <<credit, credited>>

Next ==
    \/ \E a, m \in Supers, c \in Credits : RequestManualCredit(a, m, c)
    \/ \E k \in Clerks, s \in Supers, c \in Credits : ReadApprove(k, s, c)
    \/ \E k \in Clerks, s \in Supers, c \in Credits : ReadReject(k, s, c)
    \/ \E k \in Clerks : ApproveManualCredit(k)
    \/ \E k \in Clerks : RejectManualCredit(k)
    \/ \E k \in Clerks : Abandon(k)

Spec == Init /\ [][Next]_vars

-----------------------------------------------------------------------------
(* Properties *)

TypeOK ==
    /\ credit \in [Credits -> [status : {"none", "pending", "approved", "rejected"},
                               initiator : Supers \cup {Nobody}, member : Supers \cup {Nobody},
                               approver : Supers \cup {Nobody}]]
    /\ credited \in [Credits -> Nat]
    /\ clerk \in [Clerks -> [pc : {"idle", "approve", "reject"}, who : Supers \cup {Nobody},
                             c : Credits \cup {NoCredit}]]

(* A wallet is credited at most once per request, and only after two different
   super admins, whatever approvals and rejections race for it. *)
CreditedOnceByTwo ==
    \A c \in Credits :
        /\ credited[c] <= 1
        /\ credited[c] = 1 =>
            credit[c].approver \notin {Nobody, credit[c].initiator}

(* manualcredit.ts, rejectManualCredit: "rejected. No balance was changed." *)
RejectedMovedNothing ==
    \A c \in Credits : credit[c].status = "rejected" => credited[c] = 0
=============================================================================
