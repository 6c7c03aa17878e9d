---- MODULE Settlement ----
(***************************************************************************)
(* One subscription bill and the payments that reach it (apps/backend/src/ *)
(* features/subscription-payment, subscription-invoice): the payer's own   *)
(* checkouts, the nightly automatic charge, an admin's "Mark paid", "Mark  *)
(* unpaid", "Void" and "Mark refunded", and the gateway's webhook, which   *)
(* repeats, reorders and overtakes.                                        *)
(*                                                                         *)
(* recordAttempt and the claim hold the bill FOR UPDATE from their first   *)
(* read to their commit, so each is one step; what is read before it, and  *)
(* the two statements of "Mark unpaid", are steps of their own.            *)
(***************************************************************************)
EXTENDS Naturals, FiniteSets

CONSTANTS
    Sessions,   \* hosted checkouts, each with the gateway's id for it
    Card,       \* the one automatic charge of the bill, under its own order id
    Marks,      \* settlements an admin writes by hand
    Backends,   \* processes running the auto-charge job
    Clerks,     \* "Mark unpaid" requests
    Apart       \* hypothesis: nothing else is written beside a "Mark unpaid"

Charged == Sessions \cup {Card}     \* payments the gateway knows
Payments == Charged \cup Marks
Actors == Sessions \cup Marks \cup Backends \cup Clerks

ASSUME ActorsAssumption ==
    /\ Card \notin Sessions \cup Marks
    /\ Sessions \cap Marks = {} /\ Sessions \cap Backends = {} /\ Sessions \cap Clerks = {}
    /\ Marks \cap Backends = {} /\ Marks \cap Clerks = {} /\ Backends \cap Clerks = {}
    /\ Apart \in BOOLEAN

VARIABLES
    bill,       \* subscription_invoice.status
    row,        \* [Payments -> Rows]  subscription_payment, "none" when there is no row
    stale,      \* rows whose updated_at is past the window that asks about it
    at,         \* [Actors -> Stages]  where each request or run is
    hit,        \* [Clerks -> SUBSET Payments]  rows a "Mark unpaid" has locked
    money,      \* [Charged -> Fates]  what really happened at the gateway
    sent,       \* the gateway's events, each delivered any number of times
    answered,   \* the payments whose success was answered with 200
    charges     \* calls of chargeSavedMethod

vars == <<bill, row, stale, at, hit, money, sent, answered, charges>>
books == <<bill, row, stale>>
outside == <<money, sent, answered, charges>>

Statuses == {"none", "initiated", "pending", "succeeded", "failed", "refunded", "voided"}
Rows == [status: Statuses, owed: BOOLEAN]    \* owed: a refund-due marker
Outcomes == {"pending", "succeeded", "failed"}
Stages == {"idle", "asked", "opened", "handed", "calling", "cleared", "done"} \cup Outcomes
Fates == {"none", "open", "taken", "declined"}
NoRow == [status |-> "none", owed |-> FALSE]

Init ==
    /\ bill = "unpaid"
    /\ row = [p \in Payments |-> NoRow]
    /\ stale = {}
    /\ at = [a \in Actors |-> "idle"]
    /\ hit = [c \in Clerks |-> {}]
    /\ money = [p \in Charged |-> "none"]
    /\ sent = {}
    /\ answered = {}
    /\ charges = 0

Goto(a, stage) == at' = [at EXCEPT ![a] = stage]

(***************************************************************************)
(* recordAttempt                                                           *)
(***************************************************************************)

Settled(p) == row[p].status = "succeeded"
InFlight(p) == row[p].status \in {"initiated", "pending"}

\* A row no later report moves: settled, refunded, or marked as owed back.
Final(p) == row[p].status \in {"succeeded", "refunded"} \/ row[p].owed

SetRow(p, status, owed) ==
    /\ row' = [row EXCEPT ![p] = [status |-> status, owed |-> owed]]
    /\ stale' = stale \ {p}

\* Money for a bill that cannot take it: flagged on its row, or on a new one.
OweBack(p) ==
    /\ SetRow(p, IF row[p].status = "none" THEN "pending" ELSE row[p].status, TRUE)
    /\ UNCHANGED bill

\* An attempt with no row of its own settles a paid bill only if nothing else has.
Refuses(p) ==
    IF row[p].status # "none" THEN bill \in {"paid", "void"}
    ELSE bill = "void" \/ (bill = "paid" /\ \E q \in Payments : Settled(q))

\* Slip in Known: any row of this payment answers any later report of it.
KnownById(p, outcome) ==
    \/ row[p].status # "none"
    \/ p \in Marks /\ outcome = "succeeded" /\ bill = "paid" /\ Refuses(p)

\* Slip in Known: a refund-due marker does not make a row final.
KnownByStatus(p, outcome) ==
    \/ row[p].status \in {outcome, "succeeded", "refunded"}
    \/ p \in Marks /\ outcome = "succeeded" /\ bill = "paid" /\ Refuses(p)

\* Is this report answered with nothing written?
Known(p, outcome) ==
    \/ row[p].status = outcome \/ Final(p)
    \/ p \in Marks /\ outcome = "succeeded" /\ bill = "paid" /\ Refuses(p)

\* The unique index on settled rows: a second one throws, and nothing is written.
Fits(p, outcome) == outcome = "succeeded" => \A q \in Payments \ {p} : ~Settled(q)

\* Slip in Record: a payment settles whatever its bill says.
RecordAnyway(p, outcome) ==
    IF Known(p, outcome) THEN UNCHANGED books
    ELSE /\ Fits(p, outcome)
         /\ SetRow(p, outcome, FALSE)
         /\ bill' = IF outcome = "succeeded" THEN "paid" ELSE bill

\* Slip in Record: the payment settles, and a void bill stays void.
RecordBeside(p, outcome) ==
    IF Known(p, outcome) THEN UNCHANGED books
    ELSE /\ Fits(p, outcome)
         /\ SetRow(p, outcome, FALSE)
         /\ bill' = IF outcome = "succeeded" /\ bill # "void" THEN "paid" ELSE bill

Record(p, outcome) ==
    IF Known(p, outcome) THEN UNCHANGED books
    ELSE IF outcome = "succeeded" /\ Refuses(p) THEN OweBack(p)
    ELSE /\ Fits(p, outcome)
         /\ SetRow(p, outcome, FALSE)
         /\ bill' = IF outcome = "succeeded" THEN "paid" ELSE bill

\* What the gateway reports of a payment in the state it has come to.
Report == [open |-> "pending", taken |-> "succeeded", declined |-> "failed"]
Emit(p, fate) == sent' = sent \cup {<<p, Report[fate]>>}

(***************************************************************************)
(* The payer's checkout                                                    *)
(***************************************************************************)

\* autoChargeInFlight, of the rows as the pool returned them.
ChargeInFlight == InFlight(Card) /\ Card \notin stale

AskCheckout(s) ==
    /\ at[s] = "idle"
    /\ bill = "unpaid"
    /\ Goto(s, "asked")
    /\ UNCHANGED <<books, hit, outside>>

OpenSession(s) ==
    /\ at[s] = "asked"
    /\ ~ChargeInFlight
    /\ Goto(s, "opened")
    /\ money' = [money EXCEPT ![s] = "open"]
    /\ Emit(s, "open")
    /\ UNCHANGED <<books, hit, answered, charges>>

\* The attempt is written and the payer sent to pay; nobody reads whether the
\* write worked.
HandOver(s) ==
    /\ at[s] = "opened"
    /\ Goto(s, "handed")
    /\ Record(s, "pending") \/ UNCHANGED books
    /\ UNCHANGED <<hit, outside>>

(***************************************************************************)
(* The automatic charge                                                    *)
(***************************************************************************)

\* manualPaymentInFlight.
PaidByHand == \E p \in Payments \ {Card} : row[p].status = "pending" /\ p \notin stale

\* Slip in Claim: the automatic charge already on the bill is not asked for.
ClaimAgain(b) ==
    /\ at[b] = "idle"
    /\ bill = "unpaid" /\ ~PaidByHand
    /\ SetRow(Card, "initiated", FALSE)
    /\ Goto(b, "calling")
    /\ UNCHANGED <<bill, hit, outside>>

Claim(b) ==
    /\ at[b] = "idle"
    /\ bill = "unpaid" /\ row[Card].status = "none" /\ ~PaidByHand
    /\ SetRow(Card, "initiated", FALSE)
    /\ Goto(b, "calling")
    /\ UNCHANGED <<bill, hit, outside>>

\* A charge may still be open when the call returns, and a call that threw may
\* have gone through: the job then goes on with "pending".
CallGateway(b) ==
    /\ at[b] = "calling"
    /\ charges' = charges + 1
    /\ \E fate \in Fates \ {"none"} :
          /\ money' = [money EXCEPT ![Card] = fate]
          /\ Emit(Card, fate)
          /\ \E answer \in {"pending", Report[fate]} : Goto(b, answer)
    /\ UNCHANGED <<books, hit, answered>>

RecordAnswer(b) ==
    /\ at[b] \in Outcomes
    /\ Record(Card, at[b])
    /\ Goto(b, "idle")
    /\ UNCHANGED <<hit, outside>>

\* The process dies, or the write of the answer fails: the claim stays as it is.
Die(b) ==
    /\ at[b] # "idle"
    /\ Goto(b, "idle")
    /\ UNCHANGED <<books, hit, outside>>

(***************************************************************************)
(* The gateway and its webhook                                             *)
(***************************************************************************)

\* A payer may pay once sent there; a session survives a declined try.
Pay(p) ==
    /\ money[p] = "open" /\ (p \in Sessions => at[p] = "handed")
    /\ money' = [money EXCEPT ![p] = "taken"]
    /\ Emit(p, "taken")
    /\ UNCHANGED <<books, at, hit, answered, charges>>

Decline(p) ==
    /\ money[p] = "open" /\ (p \in Sessions => at[p] = "handed")
    /\ money' = IF p = Card THEN [money EXCEPT ![p] = "declined"] ELSE money
    /\ Emit(p, "declined")
    /\ UNCHANGED <<books, at, hit, answered, charges>>

\* A session with no attempt row behind it is answered and ignored; an automatic
\* charge names its bill in its order id.
Webhook(p, outcome) ==
    /\ <<p, outcome>> \in sent
    /\ IF p \in Sessions /\ row[p].status = "none" THEN UNCHANGED books
                                                   ELSE Record(p, outcome)
    /\ answered' = IF outcome = "succeeded" THEN answered \cup {p} ELSE answered
    /\ UNCHANGED <<at, hit, money, sent, charges>>

(***************************************************************************)
(* The admin                                                               *)
(***************************************************************************)

AskPaid(m) ==
    /\ at[m] = "idle" /\ bill # "void"
    /\ Goto(m, "asked")
    /\ UNCHANGED <<books, hit, outside>>

WritePaid(m) ==
    /\ at[m] = "asked"
    /\ Record(m, "succeeded")
    /\ Goto(m, "done")
    /\ UNCHANGED <<hit, outside>>

AskUnpaid(c) ==
    /\ at[c] = "idle" /\ bill # "void"
    /\ Goto(c, "asked")
    /\ UNCHANGED <<books, hit, outside>>

\* voidSettlements, first statement: it waits for rows another one has locked.
ClearSettled(c) ==
    /\ at[c] = "asked"
    /\ \A p \in Payments : Settled(p) => \A d \in Clerks : p \notin hit[d]
    /\ hit' = [hit EXCEPT ![c] = {p \in Payments : Settled(p)}]
    /\ Goto(c, "cleared")
    /\ UNCHANGED <<books, outside>>

\* Second statement and commit.
WriteUnpaid(c) ==
    /\ at[c] = "cleared"
    /\ row' = [p \in Payments |-> IF p \in hit[c] THEN [status |-> "voided", owed |-> FALSE]
                                                  ELSE row[p]]
    /\ bill' = "unpaid"
    /\ hit' = [hit EXCEPT ![c] = {}]
    /\ Goto(c, "idle")
    /\ UNCHANGED <<stale, outside>>

\* Slip in VoidBill: attempts still in flight are not asked for.
VoidOverFlight ==
    /\ bill = "unpaid"
    /\ \A p \in Payments : row[p].status \notin {"succeeded", "refunded"}
    /\ bill' = "void"
    /\ UNCHANGED <<row, stale, at, hit, outside>>

\* voidUnpaid, under the bill's lock. The credits it asks for may refuse too.
VoidBill ==
    /\ bill = "unpaid"
    /\ \A p \in Payments : ~InFlight(p) /\ row[p].status \notin {"succeeded", "refunded"}
    /\ bill' = "void"
    /\ UNCHANGED <<row, stale, at, hit, outside>>

\* markRefunded: one guarded UPDATE.
Refund(p) ==
    /\ row[p].owed /\ row[p].status # "refunded"
    /\ SetRow(p, "refunded", TRUE)
    /\ UNCHANGED <<bill, at, hit, outside>>

\* Days pass: seven for a checkout, two for an automatic charge.
Age(p) ==
    /\ InFlight(p) /\ p \notin stale
    /\ stale' = stale \cup {p}
    /\ UNCHANGED <<bill, row, at, hit, outside>>

Unpay(c) == ClearSettled(c) \/ WriteUnpaid(c)

\* Everything but "Mark unpaid".
Elsewhere ==
    \/ \E s \in Sessions : AskCheckout(s) \/ OpenSession(s) \/ HandOver(s)
    \/ \E b \in Backends : Claim(b) \/ CallGateway(b) \/ RecordAnswer(b) \/ Die(b)
    \/ \E p \in Charged : Pay(p) \/ Decline(p) \/ \E o \in Outcomes : Webhook(p, o)
    \/ \E m \in Marks : AskPaid(m) \/ WritePaid(m)
    \/ \E p \in Payments : Refund(p) \/ Age(p)
    \/ VoidBill

Quiet(others) == Apart => \A c \in others : at[c] = "idle"

Next ==
    \/ \E c \in Clerks : Quiet(Clerks \ {c}) /\ (AskUnpaid(c) \/ Unpay(c))
    \/ Quiet(Clerks) /\ Elsewhere

Spec == Init /\ [][Next]_vars

\* A request that has begun runs on, and the gateway repeats a success until it
\* is answered with 200.
Fairness ==
    /\ \A c \in Clerks : WF_vars(Quiet(Clerks \ {c}) /\ Unpay(c))
    /\ \A p \in Charged : SF_vars(Quiet(Clerks) /\ Webhook(p, "succeeded"))

FairSpec == Spec /\ Fairness

(***************************************************************************)
(* Properties                                                              *)
(***************************************************************************)

\* Types of the rows, the requests and the gateway's side.
TypeOK ==
    /\ bill \in {"unpaid", "paid", "void"}
    /\ row \in [Payments -> Rows]
    /\ stale \subseteq {p \in Payments : InFlight(p)}
    /\ at \in [Actors -> Stages]
    /\ hit \in [Clerks -> SUBSET Payments]
    /\ money \in [Charged -> Fates]
    /\ sent \subseteq Charged \X Outcomes
    /\ answered \subseteq Charged
    /\ charges \in Nat

\* recordAttempt's third promise: money is never recorded against a bill that
\* reads otherwise. A settled row and a paid bill come together, and alone.
SettledTogether ==
    /\ bill = "paid" <=> \E p \in Payments : Settled(p)
    /\ \A p, q \in Payments : Settled(p) /\ Settled(q) => p = q

\* The saved card is charged once for a bill, however many processes run the job
\* and wherever they die.
ChargedOnce == charges <= 1

\* No automatic charge is on its way to the gateway for a bill that was voided:
\* the void and the claim each look for the other.
VoidNeverCharged == \A b \in Backends : at[b] = "calling" => bill # "void"

\* "Mark unpaid" has locked settled rows, each for one request; a refund-due row never settles.
Held ==
    /\ \A c \in Clerks : hit[c] \subseteq {p \in Payments : Settled(p)}
    /\ \A c, d \in Clerks : c # d => hit[c] \cap hit[d] = {}
    /\ \A p \in Payments : row[p].owed => row[p].status \notin {"none", "succeeded"}

\* Under the hypothesis, a "Mark unpaid" at work is the only one and works on what
\* it read: a bill that is not void, and all that is settled.
UnpayAlone ==
    \A c \in Clerks :
        /\ at[c] \in {"idle", "asked", "cleared"}
        /\ at[c] # "idle" => bill # "void" /\ \A d \in Clerks : at[d] # "idle" => c = d
        /\ at[c] = "cleared" => \A p \in Payments : Settled(p) => p \in hit[c]

\* The claim is written before the one call it is for, and nothing moves it until
\* the call is made.
ClaimFirst ==
    /\ \A b \in Backends : at[b] \in {"idle", "calling"} \cup Outcomes
    /\ \A b \in Backends : at[b] \in Outcomes => charges = 1
    /\ \A b \in Backends : at[b] = "calling" =>
          /\ charges = 0
          /\ row[Card].status = "initiated" /\ ~row[Card].owed
          /\ bill # "void"
          /\ \A c \in Backends : at[c] = "calling" => c = b
    /\ charges <= 1
    /\ charges = 1 => row[Card].status # "none"
    /\ money[Card] # "none" => charges = 1
    /\ \A e \in sent : money[e[1]] # "none"

\* The inductive invariant.
IInv == TypeOK /\ Held /\ ClaimFirst /\ (Apart => SettledTogether /\ UnpayAlone)

Accounted(p) == Settled(p) \/ row[p].status \in {"refunded", "voided"} \/ row[p].owed

\* A success is answered with 200 only once its money is in the books: it settled
\* the bill, or is owed back (a session whose attempt was never written apart).
AnswerMeansBooked ==
    [][\A p \in answered' \ answered : row[p].status # "none" => Accounted(p)']_vars

\* A void is final, whichever payment or answer comes after it.
VoidIsFinal == [][bill = "void" => bill' = "void"]_vars

\* The gateway is always answered in the end: money it took for a bill with an
\* attempt on record is booked, never refused with a 500 for ever.
GatewayIsAnswered ==
    \A p \in Charged :
        money[p] = "taken" /\ row[p].status # "none" ~> p \in answered

\* The place of a payment in the books.
PlaceOf(r) ==
    IF r.status = "refunded" THEN "returned"
    ELSE IF r.owed THEN "owed"
    ELSE IF r.status = "succeeded" THEN "settled"
    ELSE IF r.status = "voided" THEN "withdrawn"
    ELSE "none"

Books == INSTANCE Debt WITH place <- [p \in Payments |-> PlaceOf(row[p])]

\* The bill and its payments keep the promises of Debt: in particular money owed
\* back is owed until it is returned, whatever report comes late.
KeepsBooks == Books!Spec

\* Every payer is sent to pay with an attempt on record, "so the webhook can settle
\* them together" (checkout): money taken is money the books can place.
AttemptBehindMoney == \A p \in Charged : money[p] = "taken" => row[p].status # "none"
====
