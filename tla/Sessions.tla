------------------------------ MODULE Sessions ------------------------------
(* The chat session of one phone: src/src/services/conversation.ts (the    *)
(* dispatch of a message), handlers/session.ts (one case per state),       *)
(* handlers/money.ts, join.ts and admin-actions.ts (the commands that      *)
(* start a flow).                                                          *)
(*                                                                         *)
(* A flow collects the fields of one operation over several messages in a  *)
(* JSON object of the session row; the last step runs the operation with   *)
(* whatever is in it.  The model keeps which fields are there and whether  *)
(* each was given since the command that began the present flow ("now") or *)
(* is a remainder of an earlier one ("old").                               *)
EXTENDS Naturals, FiniteSets, TLC

CONSTANT Channels       \* the channels a phone may write from

VARIABLES
    channel,    \* where the phone writes from
    state,      \* Session.state, without the prefix awaiting_
    data,       \* Session.data: a function from the fields given
    aged,       \* the state has waited longer than SESSION_TTL_MS
    who,        \* what the member's row says
    owed,       \* a bonus payment queued for after the commit
    ran         \* the operation the last message ran

vars == <<channel, state, data, aged, who, owed, ran>>
-----------------------------------------------------------------------------
\* SECRET_STATES: an answer here may come from a card that carries the token
\* of the prompt it was shown with.
SecretStates == {"pin", "pin_confirm", "withdraw_pin", "bonus_pin", "repay_pin",
    "buyshares_pin", "shop_pin", "mandate_pin", "cancelmandate_pin",
    "delete_account_pin", "insurance_product", "insurance_plan", "insurance_confirm"}

BotState == SecretStates \cup {"idle", "coop_code", "name", "referral", "consent",
    "phone", "otp", "changephone_otp", "email", "birthday", "nok_name", "nok_phone",
    "loan_amount", "loan_months", "loan_bank_account", "loan_bank_code",
    "loan_bank_confirm", "guarantor_1", "guarantor_2", "withdraw_amount",
    "bank_account", "bank_choice", "bank_confirm", "bonus_amount",
    "bonus_destination", "bonus_phone", "death_cert", "literacy_quiz",
    "literacy_optin", "optin", "ai_consent", "ai_confirm", "dividend_confirm",
    "sharedividend_confirm", "ai_query_confirm", "onboard_name", "onboard_code",
    "onboard_state", "onboard_phone"}

Intents == {"mandate", "withdraw", "payee"}
FlowData == Intents \cup {"joinCode", "referrerCode", "name", "consentGiven", "contactPhone", "otp",
    "phoneVerified", "nok", "pinHash", "loanAmount", "loanMonths", "loanAccount",
    "loanBankCode", "pendingGuarantors", "loanId", "withdrawAmount", "withdrawAccount",
    "bankAccount", "bankCode", "payeeName", "mandateCap", "mandateId", "shareCount",
    "shopItemId", "bonusAmount", "bonusDestination", "airtime", "bonusPhone",
    "insuranceProduct", "insurancePlan", "deathClaimId", "memberId", "quiz",
    "aiCommand", "dividendRate", "shareDividendRate", "coopName", "coopCode",
    "newPhone"}

\* What an operation takes from the session.  The code reads each of these as
\* data.field ?? 0 or ?? "": a field that is not there goes unnoticed.
Needs == [register |-> {"joinCode", "name", "pinHash"},
    loan |-> {"loanAmount", "loanMonths", "loanAccount", "loanBankCode"},
    guarantor |-> {"loanId"}, withdraw |-> {"withdrawAmount"}, repay |-> {},
    buyshares |-> {"shareCount"}, shop |-> {"shopItemId"},
    bonus |-> {"bonusAmount", "bonusDestination"},
    mandate |-> {"mandateCap", "bankAccount", "bankCode"},
    cancelmandate |-> {"mandateId"}, payee |-> {"payeeName", "bankAccount", "bankCode"},
    policy |-> {"insuranceProduct", "insurancePlan"},
    certificate |-> {"deathClaimId"}, delete |-> {},
    dividend |-> {"dividendRate"}, sharedividend |-> {"shareDividendRate"},
    phonechange |-> {"newPhone"}, provision |-> {"coopName", "coopCode"}]

\* Used when they are there: the account of a withdrawal, and the guarantors
\* to ask for a loan.
May == [op \in DOMAIN Needs |->
    CASE op = "withdraw" -> {"withdrawAccount"}
      [] op = "loan" -> {"pendingGuarantors"}
      [] OTHER -> {}]

NoRun == [op |-> "none"]
Only(fields) == [f \in fields |-> "now"]
Plus(d, fields) == [f \in DOMAIN d \cup fields |-> IF f \in fields THEN "now" ELSE d[f]]
Minus(d, fields) == [f \in DOMAIN d \ fields |-> d[f]]
Old(d) == [f \in DOMAIN d |-> "old"]

\* The record of an operation run now, with the answer that let it run.
Run(op, answer) ==
    LET need == Needs[op] \cup (IF op = "bonus" /\ "airtime" \in DOMAIN data
                                THEN {"bonusPhone"} ELSE {})
    IN  [op |-> op, answer |-> answer, missing |-> need \ DOMAIN data,
         stale |-> {f \in (need \cup May[op]) \cap DOMAIN data : data[f] = "old"}]

Init ==
    /\ channel \in Channels
    /\ state = "idle" /\ data = Only({}) /\ aged = FALSE
    /\ who \in [joined : {FALSE}, bank : {FALSE}, asked : {FALSE}, agreed : {FALSE},
                moving : {FALSE}]
           \cup [joined : {TRUE}, bank : BOOLEAN, asked : {TRUE}, agreed : {TRUE},
                 moving : {FALSE}]
    /\ owed = NoRun /\ ran = NoRun
-----------------------------------------------------------------------------
\* Every write of the session row sets its state and its data and renews its
\* age; a prompt also carries a new token.
Stage(s, d) == state' = s /\ data' = d /\ aged' = FALSE
Clear == Stage("idle", Only({}))
\* An answer the handler does not take: it asks again.  (A message that is
\* handled though the session is over age is a fifth one, see Expire.)
AskAgain == aged' = FALSE /\ UNCHANGED <<state, data>>
\* A state that takes one field and goes on to the next.
Take(s, field, next) == state = s /\ (AskAgain \/ Stage(next, Plus(data, {field})))

\* What a step leaves alone when it runs no operation.
Quiet == ran' = NoRun /\ UNCHANGED <<channel, who, owed>>
-----------------------------------------------------------------------------
(* Registration.                                                           *)

HandleJoinCode(fields) ==
    \/ Stage("coop_code", Only({}))                          \* unknown or not active
    \/ who.joined /\ Clear
    \/ ~who.joined /\ Stage("name", Only({"joinCode"} \cup fields))

HandleJoinStart ==
    \/ Stage("coop_code", Only({}))
    \/ \E fields \in SUBSET {"referrerCode"} : HandleJoinCode(fields)

CoopCode == state = "coop_code" /\ HandleJoinCode({})

AskConsent(d) == Stage("consent", d)
Name ==
    /\ state = "name"
    /\ \/ AskAgain
       \/ /\ "referrerCode" \in DOMAIN data
          /\ AskConsent(Plus(data, {"name"}))
       \/ /\ "referrerCode" \notin DOMAIN data
          /\ Stage("referral", Plus(data, {"name"}))
Referral == state = "referral" /\ AskConsent(data)

AskEmail(d) == Stage("email", d)

\* Only the telegram branch goes on with the session that holds the consent;
\* the other writes the session again from the data read before.
AnswerConsent ==
    /\ state = "consent"
    /\ \/ AskAgain
       \/ Clear
       \/ /\ channel = "telegram"
          /\ Stage("phone", Plus(data, {"consentGiven"}))
       \/ /\ channel # "telegram"
          /\ AskEmail(data)

DeliverOtp == Stage("otp", Plus(data, {"contactPhone", "otp"}))
ContactPhone ==
    /\ state = "phone"
    /\ AskAgain \/ DeliverOtp \/ AskEmail(Plus(data, {"contactPhone"}))

\* A wrong or an expired code only answers; the right one is used up.
Otp ==
    /\ state = "otp"
    /\ AskAgain \/ AskEmail(Plus(Minus(data, {"otp"}), {"phoneVerified"}))

AskBirthday == Stage("birthday", data)
Email == state = "email" /\ (AskAgain \/ AskBirthday)
AskNokName == Stage("nok_name", data)
Birthday == state = "birthday" /\ (AskAgain \/ AskNokName)
NokName == state = "nok_name" /\ (AskAgain \/ Stage("nok_phone", data))
NokPhone == Take("nok_phone", "nok", "pin")
Pin == Take("pin", "pinHash", "pin_confirm")

Registering ==
    \/ CoopCode \/ Name \/ Referral \/ AnswerConsent \/ ContactPhone \/ Otp
    \/ Email \/ Birthday \/ NokName \/ NokPhone \/ Pin
    \/ (state = "pin_confirm" /\ Stage("pin", data))   \* the two differ

AskLiteracyOptIn == Stage("literacy_optin", Only({"memberId"}))

\* The two PINs agree: the member is created, with the consent the session
\* holds, and asked for the next consents.
PinConfirm ==
    /\ state = "pin_confirm"
    /\ UNCHANGED <<channel, owed>>
    /\ \/ /\ ran' = Run("register", "typed")
          /\ who' = [who EXCEPT !.joined = TRUE, !.asked = FALSE,
                                !.agreed = "consentGiven" \in DOMAIN data]
          /\ AskLiteracyOptIn \/ Stage("optin", Only({"memberId"}))
       \/ /\ ran' = NoRun                                    \* refused
          /\ Stage("optin", Only({}))
          /\ UNCHANGED who

LiteracyOptIn == state = "literacy_optin" /\ Stage("optin", data)

\* consentAt or optedOut is set by either answer.
OptIn ==
    /\ state = "optin"
    /\ ran' = NoRun /\ UNCHANGED <<channel, owed>>
    /\ \/ "memberId" \notin DOMAIN data /\ Clear /\ UNCHANGED who
       \/ /\ "memberId" \in DOMAIN data
          /\ \/ Clear /\ who' = [who EXCEPT !.asked = TRUE]
             \/ AskAgain /\ UNCHANGED who

OnboardName == state = "onboard_name" /\ (AskAgain \/ Stage("onboard_code", Only({"coopName"})))
OnboardCode == Take("onboard_code", "coopCode", "onboard_state")
OnboardState == state = "onboard_state" /\ Stage("onboard_phone", data)
Onboarding ==
    \/ OnboardName \/ OnboardCode \/ OnboardState
    \/ (state = "onboard_phone" /\ AskAgain)
-----------------------------------------------------------------------------
(* Money.  The commands come first: each starts its flow from an idle      *)
(* session.  Without an amount, withdraw and loan set only the state and   *)
(* leave the data of the flow before where they are.                       *)

StartBankFlow(intent, d) == Stage("bank_account", Plus(Minus(d, Intents), {intent}))

\* With an account on file the PIN is asked for at once.
AskWithdrawPin(d) ==
    \/ who.joined /\ who.bank /\ Stage("withdraw_pin", d)
    \/ ~(who.joined /\ who.bank) /\ StartBankFlow("withdraw", d)

HandleWithdraw(d) ==
    \/ Stage("withdraw_amount", Old(d))
    \/ who.joined /\ AskWithdrawPin(Only({"withdrawAmount"}))

HandleLoan(d) ==
    \/ Stage("loan_amount", Old(d))
    \/ Stage("loan_months", Only({"loanAmount"}))
    \/ Stage("loan_bank_account", Only({"loanAmount", "loanMonths"}))

\* A request in plain words may name the guarantors at once.
StartLoanFromNL ==
    /\ who.joined
    /\ \/ Stage("loan_amount", Only({"pendingGuarantors"}))
       \/ Stage("loan_months", Only({"pendingGuarantors", "loanAmount"}))
       \/ Stage("loan_bank_account", Only({"pendingGuarantors", "loanAmount", "loanMonths"}))

HandleRepay == Stage("repay_pin", Only({}))
HandleBuyShares == who.joined /\ Stage("buyshares_pin", Only({"shareCount"}))
BuyItem == who.joined /\ Stage("shop_pin", Only({"shopItemId"}))
HandleStartBonusWithdrawal == who.joined /\ Stage("bonus_amount", Only({}))
HandleMandate == who.joined /\ StartBankFlow("mandate", Only({"mandateCap"}))
HandleCancelMandate == who.joined /\ Stage("cancelmandate_pin", Only({"mandateId"}))
HandleAddPayee == who.joined /\ Stage("bank_choice", Only({"payeeName", "payee", "bankAccount"}))

LoanAmount == Take("loan_amount", "loanAmount", "loan_months")
LoanMonths == Take("loan_months", "loanMonths", "loan_bank_account")
LoanBankAccount == Take("loan_bank_account", "loanAccount", "loan_bank_code")
LoanBankCode == Take("loan_bank_code", "loanBankCode", "loan_bank_confirm")
NotThatBank == state = "loan_bank_confirm" /\ Stage("loan_bank_code", data)

\* Mutant: the amount is not added to the data of the session.
WithdrawAmountUnsaved == state = "withdraw_amount" /\ (AskAgain \/ AskWithdrawPin(data))

WithdrawAmount ==
    /\ state = "withdraw_amount"
    /\ AskAgain \/ AskWithdrawPin(Plus(data, {"withdrawAmount"}))

BankAccountStep == Take("bank_account", "bankAccount", "bank_choice")
BankChoiceStep == Take("bank_choice", "bankCode", "bank_confirm")

\* The confirmed account goes where the flow began.
BankConfirmStep ==
    /\ state = "bank_confirm"
    /\ \/ AskAgain
       \/ "withdraw" \in DOMAIN data /\ Stage("withdraw_pin", Plus(data, {"withdrawAccount"}))
       \/ "mandate" \in DOMAIN data /\ Stage("mandate_pin", data)

BonusAmount == state = "bonus_amount" /\ (AskAgain \/ Stage("bonus_destination", Plus(data, {"bonusAmount"})))
BonusDestination ==
    /\ state = "bonus_destination"
    /\ \/ AskAgain
       \/ Stage("bonus_phone", Plus(data, {"bonusDestination", "airtime"}))
       \/ Stage("bonus_pin", Plus(data, {"bonusDestination"}))
BonusPhone == Take("bonus_phone", "bonusPhone", "bonus_pin")

InsuranceProduct ==
    /\ state = "insurance_product"
    /\ AskAgain \/ Clear \/ Stage("insurance_plan", Only({"insuranceProduct"}))
InsurancePlan ==
    /\ state = "insurance_plan"
    /\ AskAgain \/ Clear \/ Stage("insurance_confirm", Only({"insuranceProduct", "insurancePlan"}))
DeclinePolicy == state = "insurance_confirm" /\ (AskAgain \/ Clear)

Choosing ==
    \/ LoanAmount \/ LoanMonths \/ LoanBankAccount \/ LoanBankCode \/ NotThatBank
    \/ WithdrawAmount \/ BankAccountStep \/ BankChoiceStep \/ BankConfirmStep
    \/ BonusAmount \/ BonusDestination \/ BonusPhone
    \/ InsuranceProduct \/ InsurancePlan \/ DeclinePolicy
-----------------------------------------------------------------------------
(* The steps that run an operation.                                        *)

\* An answer is typed, comes from the card of the prompt shown last, or late
\* from the card of an earlier one.
Answers == {"typed", "card", "late"}
FlowTokenMatches(answer) == answer # "late"

\* A PIN step: an old card ends the flow, a number without a member is told
\* to join, a wrong PIN is asked for again with the same data, and the right
\* one runs the operation and leaves the session as after says.
PinStep(s, op, after) ==
    /\ state = s
    /\ UNCHANGED <<channel, owed, who>>
    /\ \E answer \in Answers :
         \/ ~FlowTokenMatches(answer) /\ Clear /\ ran' = NoRun
         \/ ~who.joined /\ AskAgain /\ ran' = NoRun
         \/ who.joined /\ FlowTokenMatches(answer) /\ Stage(s, data) /\ ran' = NoRun
         \/ /\ who.joined /\ FlowTokenMatches(answer)
            /\ ran' = Run(op, answer)
            /\ after

IdleKeepingData == Stage("idle", data)

WithdrawPin == PinStep("withdraw_pin", "withdraw", IdleKeepingData)
RepayPin == PinStep("repay_pin", "repay", IdleKeepingData)
BuySharesPin == PinStep("buyshares_pin", "buyshares", IdleKeepingData)
ShopPin == PinStep("shop_pin", "shop", IdleKeepingData)
MandatePin == PinStep("mandate_pin", "mandate", Clear)
CancelMandatePin == PinStep("cancelmandate_pin", "cancelmandate", Clear)

\* The session ends before the bonus is paid, by a job queued for after the
\* commit; the job is lost with the process.
BonusPin ==
    /\ state = "bonus_pin" /\ owed = NoRun
    /\ UNCHANGED <<channel, who>> /\ ran' = NoRun
    /\ \E answer \in Answers :
         \/ ~FlowTokenMatches(answer) /\ Clear /\ UNCHANGED owed
         \/ FlowTokenMatches(answer) /\ Stage("bonus_pin", data) /\ UNCHANGED owed
         \/ FlowTokenMatches(answer) /\ owed' = Run("bonus", answer) /\ Clear
PayBonus ==
    /\ owed # NoRun /\ ran' = owed /\ owed' = NoRun
    /\ UNCHANGED <<channel, state, data, aged, who>>
CrashBeforeBonus ==
    /\ owed # NoRun /\ ran' = NoRun /\ owed' = NoRun
    /\ UNCHANGED <<channel, state, data, aged, who>>

\* The session ends whatever the PIN is; the right one erases the member.
DeleteAccountPin ==
    /\ state = "delete_account_pin" /\ Clear /\ UNCHANGED <<channel, owed>>
    /\ \/ ran' = NoRun /\ UNCHANGED who
       \/ \E answer \in Answers :
            /\ FlowTokenMatches(answer)
            /\ ran' = Run("delete", answer)
            /\ who' = [who EXCEPT !.joined = FALSE, !.bank = FALSE, !.asked = FALSE,
                                  !.agreed = FALSE, !.moving = FALSE]

\* The loan is applied for; guarantors named at the start are asked at once,
\* and those that are missing are asked for next.
LoanConfirm ==
    /\ state = "loan_bank_confirm" /\ UNCHANGED <<channel, owed, who>>
    /\ ran' = Run("loan", "typed")
    /\ \/ IdleKeepingData                        \* refused, or all have been asked
       \/ Stage("guarantor_1", Only({"loanId"}))
       \/ "pendingGuarantors" \in DOMAIN data /\ Stage("guarantor_2", Only({"loanId"}))

Guarantor(s) ==
    /\ state = s /\ UNCHANGED <<channel, owed, who>>
    /\ ran' = Run("guarantor", "typed")
    /\ \/ AskAgain
       \/ s = "guarantor_1" /\ Stage("guarantor_2", data)
       \/ s = "guarantor_2" /\ IdleKeepingData

\* Steps whose operation runs on a yes (or on what is typed), and that end.
Finish(s, op) ==
    /\ state = s /\ UNCHANGED <<channel, owed, who>>
    /\ ran' = Run(op, "typed")
    /\ Clear

SavePayee == "payee" \in DOMAIN data /\ Finish("bank_confirm", "payee")
ConfirmPolicy == Finish("insurance_confirm", "policy")
DeathCert ==
    /\ state = "death_cert" /\ UNCHANGED <<channel, owed, who>>
    /\ \/ ran' = NoRun /\ AskAgain
       \/ ran' = Run("certificate", "typed") /\ IdleKeepingData
OnboardPhone == Finish("onboard_phone", "provision")

\* A dividend run: the session ends first, then the reply must repeat the rate.
DividendConfirm ==
    \/ Finish("dividend_confirm", "dividend")
    \/ Finish("sharedividend_confirm", "sharedividend")
WrongRate == state \in {"dividend_confirm", "sharedividend_confirm"} /\ Clear

ChangePhoneOtp ==
    /\ state = "changephone_otp" /\ UNCHANGED <<channel, owed>>
    /\ \/ ran' = NoRun /\ AskAgain /\ UNCHANGED who
       \/ /\ ran' = Run("phonechange", "typed")
          /\ Clear /\ who' = [who EXCEPT !.moving = TRUE]

\* A super admin decides on the change; approved, the member leaves this
\* number and its session row is deleted.
ApprovePhoneChange ==
    /\ who.moving /\ ran' = NoRun /\ UNCHANGED <<channel, owed>>
    /\ Clear /\ who' = [who EXCEPT !.joined = FALSE, !.bank = FALSE, !.asked = FALSE,
                                   !.agreed = FALSE, !.moving = FALSE]
RejectPhoneChange ==
    /\ who.moving /\ ran' = NoRun /\ UNCHANGED <<channel, owed, state, data, aged>>
    /\ who' = [who EXCEPT !.moving = FALSE]

Working ==
    \/ PinConfirm \/ OptIn
    \/ WithdrawPin \/ RepayPin \/ BuySharesPin \/ ShopPin \/ MandatePin
    \/ CancelMandatePin \/ BonusPin \/ PayBonus \/ CrashBeforeBonus \/ DeleteAccountPin
    \/ LoanConfirm \/ Guarantor("guarantor_1") \/ Guarantor("guarantor_2")
    \/ SavePayee \/ ConfirmPolicy \/ DeathCert \/ OnboardPhone \/ DividendConfirm
    \/ ChangePhoneOtp \/ ApprovePhoneChange \/ RejectPhoneChange
-----------------------------------------------------------------------------
(* The rest of the conversation.                                           *)

StartLiteracyQuiz == who.joined /\ Stage("literacy_quiz", Only({"memberId", "quiz"}))
LiteracyQuiz == state = "literacy_quiz" /\ (AskAgain \/ Stage("literacy_quiz", data) \/ Clear)
\* A voice note or a text in another language, before anything looks at the state.
RequireAiConsent == who.joined /\ Stage("ai_consent", Only({"memberId"}))
AiConsent == state = "ai_consent" /\ (AskAgain \/ Clear)
SuggestCommand == who.joined /\ Stage("ai_confirm", Only({"aiCommand"}))
AskQuery == who.joined /\ Stage("ai_query_confirm", Only({}))
AiQueryConfirm == state = "ai_query_confirm" /\ Clear
HandleInsurance == who.joined /\ Stage("insurance_product", Only({}))
HandleDeleteAccount == who.joined /\ Stage("delete_account_pin", Only({}))
RequestPhoneChange == who.joined /\ ~who.moving /\ Stage("changephone_otp", Only({"newPhone"}))
StartDeathClaim == who.joined /\ Stage("death_cert", Only({"deathClaimId"}))
PreviewDividend ==
    /\ who.joined
    /\ \/ Stage("dividend_confirm", Only({"dividendRate"}))
       \/ Stage("sharedividend_confirm", Only({"shareDividendRate"}))
HandleOnboardStart(d) == Stage("onboard_name", Old(d))

\* The commands that start a flow, over an idle session that holds d.  A
\* member who was never asked for his consent is asked first.
Command(d) ==
    \/ who.joined /\ ~who.asked /\ Stage("optin", Only({"memberId"}))
    \/ /\ who.joined => who.asked
       /\ \/ HandleJoinStart \/ HandleOnboardStart(d)
          \/ HandleWithdraw(d) \/ HandleLoan(d) \/ StartLoanFromNL \/ HandleRepay
          \/ HandleBuyShares \/ BuyItem \/ HandleStartBonusWithdrawal \/ HandleMandate
          \/ HandleCancelMandate \/ HandleAddPayee \/ HandleInsurance
          \/ HandleDeleteAccount \/ RequestPhoneChange \/ StartDeathClaim
          \/ PreviewDividend \/ StartLiteracyQuiz \/ SuggestCommand \/ AskQuery

\* A suggested command runs as if it had been typed after the suggestion ended.
AiConfirm == state = "ai_confirm" /\ (Clear \/ Command(Only({})))

\* menu, cancel, quit, exit or back.
Escape == state # "idle" /\ Clear
\* A state left alone ends with the next message, unless that message is one of
\* the fifth ones, whose upsert renews the age before it is read.
Age == state # "idle" /\ ~aged /\ aged' = TRUE /\ UNCHANGED <<state, data>>
Expire == state # "idle" /\ aged /\ Clear

Talking ==
    \/ (state = "idle" /\ Command(data))
    \/ Registering \/ LiteracyOptIn \/ Onboarding \/ Choosing \/ WrongRate
    \/ LiteracyQuiz \/ RequireAiConsent \/ AiConsent \/ AiConfirm \/ AiQueryConfirm
    \/ Escape \/ Age \/ Expire

Next == Working \/ (Talking /\ Quiet)
Spec == Init /\ [][Next]_vars
-----------------------------------------------------------------------------
\* The session's state and fields are those of the schema's JSON column.
TypeOK ==
    /\ channel \in Channels /\ state \in BotState /\ aged \in BOOLEAN
    /\ DOMAIN data \subseteq FlowData /\ \A f \in DOMAIN data : data[f] \in {"old", "now"}
    /\ who \in [joined : BOOLEAN, bank : BOOLEAN, asked : BOOLEAN, agreed : BOOLEAN,
                moving : BOOLEAN]

\* session.ts: every step casts the data of the row to the fields it wants.  No
\* operation runs on a field that is not there, on an amount, a target or a
\* choice left from an earlier flow, or for the card of an earlier prompt.  The
\* account of a withdrawal and the guarantors of a loan are the two that may be
\* old: the command without an amount keeps the data of the flow before.
RunsOnWhatWasAsked ==
    ran # NoRun =>
        /\ ran.missing = {}
        /\ ran.stale \subseteq {"withdrawAccount", "pendingGuarantors"}
        /\ ran.answer # "late"

\* session.ts:1089: a member who registered by chat has the consent he gave on
\* record.  Only the telegram branch of the consent keeps it.
ConsentOnRecord == who.joined => who.agreed
=============================================================================
