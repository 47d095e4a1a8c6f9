---------------------------- MODULE BankTransfer ----------------------------
(* What a caller of sendToBank (services/disbursements.ts) can meet: the
   answer it gets, and what remains at the provider and in the Payout table
   under the transfer's reference.

   A transfer is [sent, row]: the provider has taken it under the reference;
   the Payout row with that key exists. *)
EXTENDS FiniteSets

NoTransfer == [sent |-> FALSE, row |-> FALSE]
Transfers == [sent : BOOLEAN, row : BOOLEAN]

\* Nothing leaves: the account or its holder's name cannot be confirmed, a
\* screening match, or the provider declines. The reference stays free.
Refused(t) == {[answer |-> "failed", bank |-> t]}

\* The provider takes the transfer and says so: the Payout row is written.
Paid == {[answer |-> "successful", bank |-> [sent |-> TRUE, row |-> TRUE]]}

\* Taken, but it waits for an authorization at the provider.
Unconfirmed == {[answer |-> "unsure", bank |-> [sent |-> TRUE, row |-> FALSE]]}

\* Taken, but the answer is lost on its way: the adapters report a refusal.
AnswerLost == {[answer |-> "failed", bank |-> [sent |-> TRUE, row |-> FALSE]]}

(* The outcomes of a call for the reference of t. A row, or a provider that
   knows the reference, blocks the second transfer; both are answered like a
   refusal. *)
SendToBank(t) ==
    IF t.row \/ t.sent
    THEN Refused(t)
    ELSE Refused(t) \cup Paid \cup Unconfirmed \cup AnswerLost

(* A caller that dies, or whose transaction is rolled back, after the call:
   the provider keeps what it took, the row is gone with the transaction. *)
RolledBack(t) == {[t EXCEPT !.sent = o.bank.sent] : o \in SendToBank(t)}
=============================================================================
