----------------------------- MODULE Commodity -----------------------------
(* Seasonal purchase schemes (services/commodity-schemes.ts, commodity-credit.ts):
   members reserve goods against the payroll deduction that is expected of them,
   the cooperative buys, every reservation becomes a loan paid back by payroll,
   and the goods are handed over.

   One item per scheme. A chat handler is a transaction at READ COMMITTED: every
   statement sees what is committed then, and a row is written whatever it has
   become since it was read. *)
EXTENDS Integers, FiniteSetsExt

CONSTANTS
    Members,
    Schemes,
    Subs,        \* CommoditySubscription rows that may come to exist
    Staff,       \* concurrent handlers of admins and super admins, and runs of the scheduler
    Units,       \* totalUnits of an item
    MaxQty,      \* maxQtyPerMember
    Cap,         \* capKobo of a member, at a price of 1
    Cash0,       \* bankCashKobo
    Cost,        \* what a purchase costs
    NoOne, NoScheme

VARIABLES
    scheme,      \* CommodityScheme.status, its window, its items, what was bought
    sub,         \* CommoditySubscription
    loans,       \* Loan(kind "commodity") rows made for a subscription
    batchOpen,   \* there is a draft or submitted deduction batch
    buyer,       \* a member's "subscribe" between its reads
    staff        \* an officer's handler between its reads and its commit

vars == <<scheme, sub, loans, batchOpen, buyer, staff>>

Draft == [status |-> "draft", window |-> "before", item |-> FALSE, source |-> "none"]
NoSub == [status |-> "none", scheme |-> NoScheme, by |-> NoOne, qty |-> 0,
          dispatched |-> FALSE, collected |-> FALSE]
NotBuying == [pc |-> "idle", scheme |-> NoScheme, qty |-> 0, owed |-> 0, subs |-> {}]
Free == [pc |-> "idle", scheme |-> NoScheme, subs |-> {}, batch |-> FALSE, source |-> "none"]

Init ==
    /\ scheme = [s \in Schemes |-> Draft]
    /\ sub = [r \in Subs |-> NoSub]
    /\ loans = [r \in Subs |-> 0]
    /\ batchOpen = FALSE
    /\ buyer = [m \in Members |-> NotBuying]
    /\ staff = [c \in Staff |-> Free]

Active == {"reserved", "converted"}
Sum(S) == SumFunction([r \in S |-> sub[r].qty])
Of(m) == {r \in Subs : sub[r].by = m}

-----------------------------------------------------------------------------
(* The scheme. createScheme is where a scheme starts: in draft. *)

Reads(c, pc, s) ==
    /\ staff[c] = Free
    /\ staff' = [staff EXCEPT ![c] = [Free EXCEPT !.pc = pc, !.scheme = s]]
    /\ UNCHANGED <<scheme, sub, loans, batchOpen, buyer>>

Writes(c, pc) == staff[c].pc = pc /\ staff' = [staff EXCEPT ![c] = Free]

AddSchemeItem(s) ==
    /\ scheme[s].status = "draft" /\ ~scheme[s].item
    /\ scheme' = [scheme EXCEPT ![s].item = TRUE]
    /\ UNCHANGED <<sub, loans, batchOpen, buyer, staff>>

OpenRead(c, s) == scheme[s].status = "draft" /\ scheme[s].item /\ Reads(c, "open", s)
CloseRead(c, s) == scheme[s].status = "open" /\ Reads(c, "closed", s)

OpenOrCloseScheme(c, pc) ==
    /\ Writes(c, pc)
    /\ scheme' = [scheme EXCEPT ![staff[c].scheme].status = pc]
    /\ UNCHANGED <<sub, loans, batchOpen, buyer>>

\* The dates opensAt and closesAt pass.
WindowMoves(s) ==
    /\ scheme[s].window # "after"
    /\ scheme' = [scheme EXCEPT ![s].window = IF @ = "before" THEN "in" ELSE "after"]
    /\ UNCHANGED <<sub, loans, batchOpen, buyer, staff>>

\* The scheduler lists what is open after its date and closes each by its id, whatever
\* an admin has made of it since.
ExpiredRead(c, s) == scheme[s].status = "open" /\ scheme[s].window = "after" /\ Reads(c, "expired", s)

RunSchemeWindows(c) ==
    /\ Writes(c, "expired")
    /\ scheme' = [scheme EXCEPT ![staff[c].scheme].status = "closed"]
    /\ UNCHANGED <<sub, loans, batchOpen, buyer>>

\* Cash that no other purchase has committed, or the supplier's credit with a note.
PurchaseRead(c, s) ==
    LET committed == Cost * Cardinality({t \in Schemes \ {s} : scheme[t].status \in {"purchased", "converted"}})
    IN  /\ scheme[s].status = "closed"
        /\ \E source \in {"cash", "supplier_credit"} :
              /\ source = "cash" => Cash0 - committed >= Cost
              /\ staff[c] = Free
              /\ staff' = [staff EXCEPT ![c] = [Free EXCEPT !.pc = "purchase", !.scheme = s, !.source = source]]
        /\ UNCHANGED <<scheme, sub, loans, batchOpen, buyer>>

PurchaseScheme(c) ==
    /\ Writes(c, "purchase")
    /\ scheme' = [scheme EXCEPT ![staff[c].scheme].status = "purchased",
                                ![staff[c].scheme].source = staff[c].source]
    /\ UNCHANGED <<sub, loans, batchOpen, buyer>>

-----------------------------------------------------------------------------
(* Subscriptions. The phone's mutex keeps a member to one handler. The credit is
   two sums, read one after the other: the loans, then the reservations. *)

\* Mutant: only what the member has on the scheme is looked at, not that he has it.
NoneYetAny(m, s, n) == n <= MaxQty

NoneYet(m, s, n) == n <= MaxQty /\ ~\E r \in Of(m) : sub[r].scheme = s /\ sub[r].status \in Active

SubscribeRead(m, s, n) ==
    /\ buyer[m] = NotBuying
    /\ scheme[s].status = "open" /\ scheme[s].window = "in" /\ NoneYet(m, s, n)
    /\ n <= Units - Sum({r \in Subs : sub[r].scheme = s /\ sub[r].status \in Active})
    /\ buyer' = [buyer EXCEPT ![m] = [pc |-> "loans", scheme |-> s, qty |-> n, subs |-> {},
                                      owed |-> SumFunction([r \in Of(m) |-> loans[r] * sub[r].qty])]]
    /\ UNCHANGED <<scheme, sub, loans, batchOpen, staff>>

CreditRead(m) ==
    LET reserved == Sum({r \in Of(m) : sub[r].status = "reserved"})
    IN  /\ buyer[m].pc = "loans"
        /\ buyer' = IF buyer[m].owed + reserved + buyer[m].qty <= Cap
                    THEN [buyer EXCEPT ![m].pc = "create"]
                    ELSE [buyer EXCEPT ![m] = NotBuying]
        /\ UNCHANGED <<scheme, sub, loans, batchOpen, staff>>

SubscribeCommodity(m, r) ==
    /\ buyer[m].pc = "create" /\ sub[r] = NoSub
    /\ sub' = [sub EXCEPT ![r] = [status |-> "reserved", scheme |-> buyer[m].scheme, by |-> m,
                                  qty |-> buyer[m].qty, dispatched |-> FALSE, collected |-> FALSE]]
    /\ buyer' = [buyer EXCEPT ![m] = NotBuying]
    /\ UNCHANGED <<scheme, loans, batchOpen, staff>>

Owns(m, r) == buyer[m] = NotBuying /\ sub[r].by = m

\* The member's read and commit: what an officer decides in between is overwritten.
CancelRead(m, r) ==
    /\ Owns(m, r) /\ sub[r].status = "reserved" /\ scheme[sub[r].scheme].status = "open"
    /\ buyer' = [buyer EXCEPT ![m] = [NotBuying EXCEPT !.pc = "cancel", !.subs = {r}]]
    /\ UNCHANGED <<scheme, sub, loans, batchOpen, staff>>

CancelCommoditySubscription(m) ==
    /\ buyer[m].pc = "cancel"
    /\ \E r \in buyer[m].subs : sub' = [sub EXCEPT ![r].status = "cancelled"]
    /\ buyer' = [buyer EXCEPT ![m] = NotBuying]
    /\ UNCHANGED <<scheme, loans, batchOpen, staff>>

-----------------------------------------------------------------------------
(* What officers do to a subscription *)

SubRead(c, pc, r) ==
    /\ staff[c] = Free
    /\ staff' = [staff EXCEPT ![c] = [Free EXCEPT !.pc = pc, !.subs = {r}]]
    /\ UNCHANGED <<scheme, sub, loans, batchOpen, buyer>>

RejectRead(c, r) == sub[r].status = "reserved" /\ SubRead(c, "reject", r)

DispatchRead(c, r) == sub[r].status = "converted" /\ ~sub[r].dispatched /\ SubRead(c, "dispatch", r)

CollectRead(c, r) ==
    sub[r].status = "converted" /\ sub[r].dispatched /\ ~sub[r].collected /\ SubRead(c, "collect", r)

SubWrite(c) ==
    /\ \E r \in staff[c].subs :
          \/ Writes(c, "reject") /\ sub' = [sub EXCEPT ![r].status = "rejected"]
          \/ Writes(c, "dispatch") /\ sub' = [sub EXCEPT ![r].dispatched = TRUE]
          \/ Writes(c, "collect") /\ sub' = [sub EXCEPT ![r].collected = TRUE]
    /\ UNCHANGED <<scheme, loans, batchOpen, buyer>>

-----------------------------------------------------------------------------
(* convertScheme: a loan and a deduction for every reservation that was read. *)

ConvertRead(c, s) ==
    LET S == {r \in Subs : sub[r].scheme = s /\ sub[r].status = "reserved"}
    IN  /\ staff[c] = Free /\ scheme[s].status = "purchased" /\ S # {}
        /\ staff' = [staff EXCEPT ![c] = [Free EXCEPT !.pc = "convert", !.scheme = s,
                                                      !.subs = S, !.batch = batchOpen]]
        /\ UNCHANGED <<scheme, sub, loans, batchOpen, buyer>>

(* Two conversions into the same batch meet in the unique key of its items, where
   the second may fail as a whole or find the item and add to it. *)
ConvertScheme(c) ==
    /\ Writes(c, "convert")
    /\ LET S == staff[c].subs
       IN  \/ /\ loans' = [r \in Subs |-> IF r \in S THEN loans[r] + 1 ELSE loans[r]]
              /\ sub' = [r \in Subs |-> IF r \in S THEN [sub[r] EXCEPT !.status = "converted"] ELSE sub[r]]
              /\ scheme' = [scheme EXCEPT ![staff[c].scheme].status = "converted"]
              /\ batchOpen' = TRUE
           \/ /\ staff[c].batch /\ \E r \in S : sub[r].status = "converted"
              /\ UNCHANGED <<scheme, sub, loans, batchOpen>>
    /\ UNCHANGED buyer

\* The batch that was open is approved; its items become repayments elsewhere.
BatchCloses == batchOpen /\ batchOpen' = FALSE /\ UNCHANGED <<scheme, sub, loans, buyer, staff>>

Next ==
    \/ \E s \in Schemes : AddSchemeItem(s) \/ WindowMoves(s)
    \/ \E m \in Members, s \in Schemes, n \in 1..MaxQty : SubscribeRead(m, s, n)
    \/ \E m \in Members : CreditRead(m) \/ CancelCommoditySubscription(m)
    \/ \E m \in Members, r \in Subs : SubscribeCommodity(m, r) \/ CancelRead(m, r)
    \/ \E c \in Staff, s \in Schemes : 
          \/ OpenRead(c, s) \/ CloseRead(c, s) \/ ExpiredRead(c, s)
          \/ PurchaseRead(c, s) \/ ConvertRead(c, s)
    \/ \E c \in Staff, pc \in {"open", "closed"} : OpenOrCloseScheme(c, pc)
    \/ \E c \in Staff : RunSchemeWindows(c) \/ PurchaseScheme(c) \/ SubWrite(c) \/ ConvertScheme(c)
    \/ \E c \in Staff, r \in Subs : RejectRead(c, r) \/ DispatchRead(c, r) \/ CollectRead(c, r)
    \/ BatchCloses

Spec == Init /\ [][Next]_vars

-----------------------------------------------------------------------------
(* Properties *)

\* The records keep to the columns of the schema.
TypeOK ==
    /\ \A s \in Schemes : scheme[s].status \in {"draft", "open", "closed", "purchased", "converted"}
    /\ \A r \in Subs : sub[r].status \in {"none", "reserved", "cancelled", "rejected", "converted"}
    /\ loans \in [Subs -> Nat] /\ batchOpen \in BOOLEAN

(* commodity-schemes.ts:239-247, 612, 646: stale writes may reopen a scheme,
   reject a reservation that became a loan or convert it twice. Still goods go
   out only after they were bought and financed, are collected only after they
   went out, and a member reserves an item of a scheme once at a time. *)
HandedOverOnDebt ==
    /\ \A r \in Subs : sub[r].dispatched => loans[r] > 0 /\ scheme[sub[r].scheme].source # "none"
    /\ \A r \in Subs : sub[r].collected => sub[r].dispatched
    /\ \A r, t \in Subs : /\ r # t /\ sub[r].by = sub[t].by /\ sub[r].scheme = sub[t].scheme
                          /\ sub[r].status = "reserved"
                          => sub[t].status # "reserved"

\* Design of the credit: one loan per subscription. Two super admins convert at once.
ConvertedOnce == \A r \in Subs : loans[r] <= 1

\* Design of the credit: a member's commitments stay below the cap.
CapHolds ==
    \A m \in Members : SumFunction([r \in Of(m) |-> loans[r] * sub[r].qty])
                        + Sum({r \in Of(m) : sub[r].status = "reserved"}) <= Cap
=============================================================================
