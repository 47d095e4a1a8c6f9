------------------------- MODULE WithdrawalContract -------------------------
(***************************************************************************)
(* What a withdrawal promises, seen from the committed rows alone: a       *)
(* request is asked for, approved, rejected or decided, and a decision     *)
(* moves its status, its claimant, the wallet and the books in one step.   *)
(* Nothing is said of handlers, locks or the provider: the saga of         *)
(* Withdrawals implements this when it runs inside one transaction.        *)
(***************************************************************************)
EXTENDS Integers

CONSTANTS Members, Admins, Supers, Requests, Nobody

VARIABLES rows, accounts
cvars == <<rows, accounts>>

Open == {"pending", "admin_approved", "processing"}
Decidable == {"pending", "admin_approved", "aml_review"}
Unasked == [status |-> "none", owner |-> Nobody, amount |-> 0, adminBy |-> Nobody,
            finalBy |-> Nobody, taken |-> 0, booked |-> 0]

MemberRows == [bal : Nat, hot : BOOLEAN, waived : BOOLEAN, blocked : BOOLEAN]

CInit ==
    /\ rows = [r \in Requests |-> Unasked]
    /\ accounts \in [Members -> MemberRows]

\* A member with no open request asks for a positive amount.
Ask(r) ==
    LET new == rows'[r] IN
    /\ rows[r].status = "none"
    /\ new.owner \in Members /\ new.amount \in Nat \ {0}
    /\ \A q \in Requests : rows[q].owner = new.owner => rows[q].status \notin Open
    /\ rows' = [rows EXCEPT ![r] = [Unasked EXCEPT !.status = "pending", !.owner = new.owner,
                                               !.amount = new.amount]]
    /\ UNCHANGED accounts

Approve(r) ==
    /\ rows[r].status = "pending"
    /\ \E a \in Admins \ {rows[r].owner} :
         rows' = [rows EXCEPT ![r].status = "admin_approved", ![r].adminBy = a]
    /\ UNCHANGED accounts

Turndown(r) ==
    /\ rows[r].status \in Decidable
    /\ rows' = [rows EXCEPT ![r].status = "rejected"]
    /\ UNCHANGED accounts

\* Another super admin decides: the money goes and the wallet pays, or neither.
Decide(r) ==
    /\ rows[r].status \in Decidable
    /\ \E s \in Supers \ {rows[r].owner},
          st \in {"paid", "investigating", "admin_approved", "rejected", "aml_review"} :
        LET goes == st \in {"paid", "investigating"}
            cost == IF goes THEN rows[r].amount ELSE 0
            m == rows[r].owner
        IN
        /\ rows' = [rows EXCEPT ![r].status = st, ![r].finalBy = s, ![r].taken = cost,
                            ![r].booked = IF st = "paid" THEN 1 ELSE 0]
        /\ accounts' = IF st = "paid"
                  THEN [accounts EXCEPT ![m].bal = @ - cost, ![m].hot = TRUE, ![m].waived = FALSE]
                  ELSE [accounts EXCEPT ![m].bal = @ - cost]
        /\ goes => accounts[m].bal >= cost

\* Everything else that happens to one member's rows leaves the requests alone.
OtherChange(m) ==
    /\ accounts'[m] \in MemberRows
    /\ accounts' = [accounts EXCEPT ![m] = accounts'[m]]
    /\ UNCHANGED rows

CNext ==
    \/ \E r \in Requests : Ask(r) \/ Approve(r) \/ Turndown(r) \/ Decide(r)
    \/ \E m \in Members : OtherChange(m)

CSpec == CInit /\ [][CNext]_cvars
=============================================================================
