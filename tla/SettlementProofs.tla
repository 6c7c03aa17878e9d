---- MODULE SettlementProofs ----
(***************************************************************************)
(* Proofs about one subscription bill, for any number of checkouts, marks, *)
(* processes and requests.                                                 *)
(***************************************************************************)
EXTENDS Settlement, TLAPS

USE ActorsAssumption DEF Payments, Charged, Actors

\* What setting a row does.
LEMMA RowSet ==
    ASSUME TypeOK, NEW p \in Payments, NEW st \in Statuses, NEW ow \in BOOLEAN,
           SetRow(p, st, ow)
    PROVE  /\ row' \in [Payments -> Rows]
           /\ row'[p] = [status |-> st, owed |-> ow]
           /\ \A q \in Payments \ {p} : row'[q] = row[q]
           /\ stale' \subseteq {q \in Payments : InFlight(q)'}
  <1>1. row \in [Payments -> Rows] /\ stale \subseteq {q \in Payments : InFlight(q)}
    BY DEF TypeOK
  <1>2. /\ row' = [row EXCEPT ![p] = [status |-> st, owed |-> ow]]
        /\ stale' = stale \ {p}
    BY DEF SetRow
  <1>3. [status |-> st, owed |-> ow] \in Rows
    BY DEF Rows
  <1>4. \A q \in Payments \ {p} : row'[q] = row[q]
    BY <1>1, <1>2
  <1>5. stale' \subseteq {q \in Payments : InFlight(q)'}
    BY <1>1, <1>2, <1>4 DEF InFlight
  <1> QED
    BY <1>1, <1>2, <1>3, <1>4, <1>5

\* The four things a report can do to the books.
Silent == UNCHANGED books

Owes(p) ==
    /\ bill # "unpaid" /\ bill' = bill /\ ~Final(p)
    /\ \E st \in Statuses \ {"none", "succeeded", "refunded"} :
          st \in {"pending", row[p].status} /\ SetRow(p, st, TRUE)

Settles(p) ==
    /\ bill \in {"unpaid", "paid"} /\ bill' = "paid" /\ ~Final(p)
    /\ bill = "paid" => row[p].status = "none" /\ \A q \in Payments : ~Settled(q)
    /\ \A q \in Payments \ {p} : ~Settled(q)
    /\ SetRow(p, "succeeded", FALSE)

Notes(p, outcome) ==
    /\ outcome \in {"pending", "failed"} /\ bill' = bill /\ ~Final(p)
    /\ SetRow(p, outcome, FALSE)

LEMMA Recorded ==
    ASSUME TypeOK, NEW p \in Payments, NEW outcome \in Outcomes, Record(p, outcome)
    PROVE  Silent \/ Owes(p) \/ Settles(p) \/ Notes(p, outcome)
  <1>0. bill \in {"unpaid", "paid", "void"} /\ row[p].status \in Statuses
    BY DEF TypeOK, Rows
  <1>1. CASE Known(p, outcome)
    BY <1>1 DEF Record, Silent
  <1>2. CASE ~Known(p, outcome) /\ outcome = "succeeded" /\ Refuses(p)
    <2>1. OweBack(p) /\ ~Final(p) /\ bill # "unpaid"
      BY <1>2 DEF Record, Known, Refuses
    <2>2. row[p].status \notin {"succeeded", "refunded"}
      BY <2>1 DEF Final
    <2> QED
      BY <1>0, <2>1, <2>2 DEF OweBack, Owes, Statuses
  <1>3. CASE ~Known(p, outcome) /\ ~(outcome = "succeeded" /\ Refuses(p))
    <2>1. /\ Fits(p, outcome) /\ SetRow(p, outcome, FALSE)
          /\ bill' = IF outcome = "succeeded" THEN "paid" ELSE bill
          /\ ~Final(p)
      BY <1>3 DEF Record, Known
    <2>2. CASE outcome = "succeeded"
      BY <2>1, <2>2, <1>3, <1>0 DEF Settles, Refuses, Fits
    <2>3. CASE outcome # "succeeded"
      BY <2>1, <2>3 DEF Notes, Outcomes
    <2> QED
      BY <2>2, <2>3
  <1> QED
    BY <1>1, <1>2, <1>3

Reported(p) == Silent \/ Owes(p) \/ Settles(p) \/ Notes(p, "pending") \/ Notes(p, "failed")

\* A report keeps the types of the books, what "Mark unpaid" holds, and the pairing
\* of a settled row with a paid bill.
LEMMA BooksKept ==
    ASSUME TypeOK, Held, NEW p \in Payments, Reported(p)
    PROVE  /\ bill' \in {"unpaid", "paid", "void"}
           /\ row' \in [Payments -> Rows]
           /\ stale' \subseteq {q \in Payments : InFlight(q)'}
           /\ UNCHANGED hit => Held'
           /\ SettledTogether => SettledTogether'
           /\ bill' # bill => bill' = "paid"
           /\ row[Card].status # "none" => row'[Card].status # "none"
           /\ p # Card => row'[Card] = row[Card]
  <1>0. /\ bill \in {"unpaid", "paid", "void"} /\ row \in [Payments -> Rows]
        /\ hit \in [Clerks -> SUBSET Payments]
        /\ stale \subseteq {q \in Payments : InFlight(q)}
    BY DEF TypeOK
  <1>1. CASE Silent
    BY <1>0, <1>1 DEF Silent, books, Held, SettledTogether, Settled, InFlight
  <1>2. CASE Owes(p)
    <2>1. PICK st \in Statuses \ {"none", "succeeded", "refunded"} : SetRow(p, st, TRUE)
      BY <1>2 DEF Owes
    <2>2. /\ row' \in [Payments -> Rows]
          /\ row'[p] = [status |-> st, owed |-> TRUE]
          /\ \A q \in Payments \ {p} : row'[q] = row[q]
          /\ stale' \subseteq {q \in Payments : InFlight(q)'}
      BY <2>1, RowSet
    <2>3. ~Settled(p) /\ ~Settled(p)' /\ bill' = bill
      BY <1>2, <2>2 DEF Owes, Final, Settled
    <2>4. \A q \in Payments : Settled(q)' <=> Settled(q)
      BY <2>2, <2>3 DEF Settled
    <2> QED
      BY <1>0, <2>2, <2>3, <2>4 DEF Held, SettledTogether
  <1>3. CASE Settles(p)
    <2>1. /\ row' \in [Payments -> Rows]
          /\ row'[p] = [status |-> "succeeded", owed |-> FALSE]
          /\ \A q \in Payments \ {p} : row'[q] = row[q]
          /\ stale' \subseteq {q \in Payments : InFlight(q)'}
      BY <1>3, RowSet DEF Settles, Statuses
    <2>2. Settled(p)' /\ \A q \in Payments \ {p} : ~Settled(q)' /\ ~Settled(q)
      BY <1>3, <2>1 DEF Settles, Settled
    <2>3. ~Settled(p)
      BY <1>3 DEF Settles, Final, Settled
    <2> QED
      BY <1>0, <1>3, <2>1, <2>2, <2>3 DEF Held, SettledTogether, Settles
  <1>4. CASE Notes(p, "pending") \/ Notes(p, "failed")
    <2>0. PICK o \in {"pending", "failed"} : Notes(p, o)
      BY <1>4
    <2>1. /\ row' \in [Payments -> Rows]
          /\ row'[p] = [status |-> o, owed |-> FALSE]
          /\ \A q \in Payments \ {p} : row'[q] = row[q]
          /\ stale' \subseteq {q \in Payments : InFlight(q)'}
      BY <2>0, RowSet DEF Notes, Statuses
    <2>2. ~Settled(p) /\ ~Settled(p)' /\ bill' = bill
      BY <2>0, <2>1 DEF Notes, Final, Settled
    <2>3. \A q \in Payments : Settled(q)' <=> Settled(q)
      BY <2>1, <2>2 DEF Settled
    <2> QED
      BY <1>0, <2>1, <2>2, <2>3 DEF Held, SettledTogether
  <1> QED
    BY <1>1, <1>2, <1>3, <1>4 DEF Reported

\* A step of somebody other than a "Mark unpaid" leaves it alone.
LEMMA AloneKept ==
    ASSUME Quiet(Clerks), \A c \in Clerks : at'[c] = at[c]
    PROVE  Apart => UnpayAlone'
  BY DEF Quiet, UnpayAlone

\* A report keeps the invariant, whoever makes it: one about the automatic charge is
\* made when the charge has been.
LEMMA ReportStep ==
    ASSUME IInv, NEW p \in Payments, Reported(p), p = Card => charges = 1,
           Quiet(Clerks), UNCHANGED <<hit, money, sent, charges>>,
           answered' \subseteq Charged, at' \in [Actors -> Stages],
           \A b \in Backends : at'[b] \in {at[b], "idle"},
           \A c \in Clerks : at'[c] = at[c]
    PROVE  IInv'
  <1>0. TypeOK /\ Held /\ ClaimFirst /\ (Apart => SettledTogether /\ UnpayAlone)
    BY DEF IInv
  <1>1. /\ bill' \in {"unpaid", "paid", "void"}
        /\ row' \in [Payments -> Rows]
        /\ stale' \subseteq {q \in Payments : InFlight(q)'}
        /\ Held'
        /\ SettledTogether => SettledTogether'
        /\ bill' # bill => bill' = "paid"
        /\ row[Card].status # "none" => row'[Card].status # "none"
        /\ p # Card => row'[Card] = row[Card]
    BY <1>0, BooksKept
  <1>2. TypeOK'
    BY <1>0, <1>1 DEF TypeOK
  <1>3. ClaimFirst'
    <2>1. \A b \in Backends : at'[b] = "calling" =>
            at[b] = "calling" /\ charges = 0 /\ row'[Card] = row[Card] /\ bill' # "void"
      BY <1>0, <1>1 DEF ClaimFirst
    <2>2. \A b \in Backends : at'[b] \in {"idle", "calling"} \cup Outcomes
      BY <1>0 DEF ClaimFirst
    <2>3. \A b \in Backends : at'[b] \in Outcomes => charges = 1
      BY <1>0 DEF ClaimFirst, Outcomes
    <2>4. charges = 1 => row'[Card].status # "none"
      BY <1>0, <1>1 DEF ClaimFirst
    <2> QED
      BY <1>0, <2>1, <2>2, <2>3, <2>4 DEF ClaimFirst
  <1>4. Apart => UnpayAlone'
    BY AloneKept
  <1> QED
    BY <1>0, <1>1, <1>2, <1>3, <1>4 DEF IInv

\* A step that leaves the books as they are.
LEMMA SilentStep ==
    ASSUME IInv, UNCHANGED <<books, hit>>, Quiet(Clerks),
           \A c \in Clerks : at'[c] = at[c], TypeOK', ClaimFirst'
    PROVE  IInv'
  <1>1. Held' /\ (Apart => SettledTogether')
    BY DEF IInv, Held, SettledTogether, Settled, books
  <1> QED
    BY <1>1, AloneKept DEF IInv

LEMMA Start == Init => IInv
  <1> SUFFICES ASSUME Init PROVE IInv
    OBVIOUS
  <1>1. NoRow \in Rows
    BY DEF NoRow, Rows, Statuses
  <1>2. TypeOK
    BY <1>1 DEF Init, TypeOK, Stages, Fates
  <1>3. \A p \in Payments : row[p] = NoRow
    BY DEF Init
  <1>4. Held /\ SettledTogether /\ UnpayAlone
    BY <1>3 DEF Init, NoRow, Held, SettledTogether, UnpayAlone, Settled
  <1>5. ClaimFirst
    <2>1. \A b \in Backends : at[b] = "idle"
      BY DEF Init
    <2>2. money[Card] = "none" /\ sent = {} /\ charges = 0
      BY DEF Init
    <2> QED
      BY <2>1, <2>2 DEF ClaimFirst, Outcomes
  <1> QED
    BY <1>2, <1>4, <1>5 DEF IInv

LEMMA CheckoutStep ==
    ASSUME IInv, Quiet(Clerks), NEW s \in Sessions,
           AskCheckout(s) \/ OpenSession(s) \/ HandOver(s)
    PROVE  IInv'
  <1>0. TypeOK /\ ClaimFirst
    BY DEF IInv
  <1>1. CASE AskCheckout(s)
    <2>1. TypeOK'
      BY <1>0, <1>1 DEF AskCheckout, Goto, TypeOK, InFlight, books, outside, Stages
    <2>2. ClaimFirst'
      BY <1>0, <1>1 DEF AskCheckout, Goto, TypeOK, ClaimFirst, books, outside
    <2> QED
      BY <1>1, <2>1, <2>2, SilentStep DEF AskCheckout, Goto, IInv, TypeOK
  <1>2. CASE OpenSession(s)
    <2>0. sent' = sent \cup {<<s, "pending">>}
      BY <1>2 DEF OpenSession, Emit, Report
    <2>1. TypeOK'
      BY <1>0, <1>2, <2>0 DEF OpenSession, Goto, TypeOK, InFlight, books, Stages, Fates, Outcomes
    <2>2. \A e \in sent' : money'[e[1]] # "none"
      BY <1>0, <1>2, <2>0 DEF OpenSession, TypeOK, ClaimFirst
    <2>3. ClaimFirst'
      BY <1>0, <1>2, <2>2 DEF OpenSession, Goto, TypeOK, ClaimFirst, books
    <2> QED
      BY <1>2, <2>1, <2>3, SilentStep DEF OpenSession, Goto, IInv, TypeOK
  <1>3. CASE HandOver(s)
    <2>1. Reported(s)
      BY <1>0, <1>3, Recorded DEF HandOver, Reported, Outcomes, Silent
    <2> QED
      BY <1>0, <1>3, <2>1, ReportStep DEF HandOver, Goto, outside, TypeOK, Stages
  <1> QED
    BY <1>1, <1>2, <1>3

LEMMA ChargeStep ==
    ASSUME IInv, Quiet(Clerks), NEW b \in Backends,
           Claim(b) \/ CallGateway(b) \/ RecordAnswer(b) \/ Die(b)
    PROVE  IInv'
  <1>0. TypeOK /\ ClaimFirst /\ Held
    BY DEF IInv
  <1>1. CASE Claim(b)
    <2>1. SetRow(Card, "initiated", FALSE) /\ row[Card].status = "none"
      BY <1>1 DEF Claim
    <2>2. /\ row' \in [Payments -> Rows]
          /\ row'[Card] = [status |-> "initiated", owed |-> FALSE]
          /\ \A q \in Payments \ {Card} : row'[q] = row[q]
          /\ stale' \subseteq {q \in Payments : InFlight(q)'}
      BY <1>0, <2>1, RowSet DEF Statuses
    <2>3. at' = [at EXCEPT ![b] = "calling"] /\ UNCHANGED <<bill, hit, outside>>
      BY <1>1 DEF Claim, Goto
    <2>4. TypeOK'
      BY <1>0, <2>2, <2>3 DEF TypeOK, Stages, outside
    <2>5. charges = 0 /\ \A c \in Backends : at[c] # "calling"
      BY <1>0, <2>1 DEF ClaimFirst, TypeOK
    <2>6. ClaimFirst'
      <3>1. \A c \in Backends : at'[c] = IF c = b THEN "calling" ELSE at[c]
        BY <1>0, <2>3 DEF TypeOK
      <3>2. bill' = "unpaid" /\ UNCHANGED <<money, sent, charges>>
        BY <1>1 DEF Claim, outside
      <3> QED
        BY <1>0, <2>2, <2>5, <3>1, <3>2 DEF ClaimFirst, Outcomes
    <2>7. \A q \in Payments : Settled(q)' <=> Settled(q)
      BY <2>1, <2>2 DEF Settled
    <2>8. Held' /\ (Apart => SettledTogether')
      BY <1>0, <2>2, <2>3, <2>7 DEF Held, SettledTogether, IInv
    <2>9. Apart => UnpayAlone'
      BY <1>0, <2>3, AloneKept DEF TypeOK
    <2> QED
      BY <2>4, <2>6, <2>8, <2>9 DEF IInv
  <1>2. CASE CallGateway(b)
    <2>1. PICK fate \in Fates \ {"none"} :
            /\ money' = [money EXCEPT ![Card] = fate]
            /\ sent' = sent \cup {<<Card, Report[fate]>>}
            /\ \E answer \in {"pending", Report[fate]} : at' = [at EXCEPT ![b] = answer]
      BY <1>2 DEF CallGateway, Emit, Goto
    <2>2. Report[fate] \in Outcomes
      BY DEF Report, Outcomes, Fates
    <2>3. PICK answer \in Outcomes : at' = [at EXCEPT ![b] = answer]
      BY <2>1, <2>2 DEF Outcomes
    <2>4. at[b] = "calling" /\ charges' = charges + 1 /\ UNCHANGED <<books, hit, answered>>
      BY <1>2 DEF CallGateway
    <2>5. TypeOK'
      BY <1>0, <2>1, <2>2, <2>3, <2>4 DEF TypeOK, InFlight, books, Stages, Fates
    <2>6. \A e \in sent' : money'[e[1]] # "none"
      BY <1>0, <2>1 DEF TypeOK, ClaimFirst
    <2>7. charges = 0 /\ row[Card].status # "none" /\ \A c \in Backends \ {b} : at[c] # "calling"
      BY <1>0, <2>4 DEF ClaimFirst
    <2>8. ClaimFirst'
      BY <1>0, <2>3, <2>4, <2>6, <2>7 DEF TypeOK, ClaimFirst, books, Outcomes
    <2> QED
      BY <1>0, <2>3, <2>4, <2>5, <2>8, SilentStep DEF TypeOK
  <1>3. CASE RecordAnswer(b)
    <2>0. PICK outcome \in Outcomes : Record(Card, outcome)
      BY <1>3 DEF RecordAnswer
    <2>1. Reported(Card)
      BY <1>0, <2>0, Recorded DEF Reported, Notes
    <2>2. charges = 1
      BY <1>0, <1>3 DEF RecordAnswer, ClaimFirst
    <2> QED
      BY <1>0, <1>3, <2>1, <2>2, ReportStep DEF RecordAnswer, Goto, outside, TypeOK, Stages
  <1>4. CASE Die(b)
    <2>1. TypeOK'
      BY <1>0, <1>4 DEF Die, Goto, TypeOK, InFlight, books, outside, Stages
    <2>2. ClaimFirst'
      BY <1>0, <1>4 DEF Die, Goto, TypeOK, ClaimFirst, books, outside, Outcomes
    <2> QED
      BY <1>0, <1>4, <2>1, <2>2, SilentStep DEF Die, Goto, TypeOK
  <1> QED
    BY <1>1, <1>2, <1>3, <1>4

LEMMA GatewayStep ==
    ASSUME IInv, Quiet(Clerks), NEW p \in Charged,
           Pay(p) \/ Decline(p) \/ \E o \in Outcomes : Webhook(p, o)
    PROVE  IInv'
  <1>0. TypeOK /\ ClaimFirst
    BY DEF IInv
  <1>1. CASE Pay(p) \/ Decline(p)
    <2>1. PICK fate \in {"taken", "declined"} : sent' = sent \cup {<<p, Report[fate]>>}
      BY <1>1 DEF Pay, Decline, Emit
    <2>2. Report[fate] \in Outcomes
      BY DEF Report, Outcomes
    <2>3. /\ money' \in [Charged -> Fates]
          /\ \A q \in Charged : money'[q] # "none" <=> money[q] # "none"
          /\ money[p] # "none"
      BY <1>0, <1>1 DEF Pay, Decline, TypeOK, Fates
    <2>4. UNCHANGED <<books, at, hit, answered, charges>>
      BY <1>1 DEF Pay, Decline
    <2>5. TypeOK'
      BY <1>0, <2>1, <2>2, <2>3, <2>4 DEF TypeOK, InFlight, books
    <2>6. \A e \in sent' : money'[e[1]] # "none"
      BY <1>0, <2>1, <2>3 DEF TypeOK, ClaimFirst
    <2>7. ClaimFirst'
      BY <1>0, <2>3, <2>4, <2>6 DEF ClaimFirst, books
    <2> QED
      BY <2>4, <2>5, <2>7, SilentStep
  <1>2. CASE \E o \in Outcomes : Webhook(p, o)
    <2>1. PICK o \in Outcomes : Webhook(p, o)
      BY <1>2
    <2>2. Reported(p)
      BY <1>0, <2>1, Recorded DEF Webhook, Reported, Notes, Silent
    <2>3. p = Card => charges = 1
      BY <1>0, <2>1 DEF Webhook, ClaimFirst
    <2>4. answered' \subseteq Charged /\ UNCHANGED <<at, hit, money, sent, charges>>
      BY <1>0, <2>1 DEF Webhook, TypeOK
    <2> QED
      BY <1>0, <2>2, <2>3, <2>4, ReportStep DEF TypeOK
  <1> QED
    BY <1>1, <1>2

LEMMA MarkStep ==
    ASSUME IInv, Quiet(Clerks), NEW m \in Marks, AskPaid(m) \/ WritePaid(m)
    PROVE  IInv'
  <1>0. TypeOK /\ ClaimFirst
    BY DEF IInv
  <1>1. CASE AskPaid(m)
    <2>1. TypeOK'
      BY <1>0, <1>1 DEF AskPaid, Goto, TypeOK, InFlight, books, outside, Stages
    <2>2. ClaimFirst'
      BY <1>0, <1>1 DEF AskPaid, Goto, TypeOK, ClaimFirst, books, outside
    <2> QED
      BY <1>0, <1>1, <2>1, <2>2, SilentStep DEF AskPaid, Goto, TypeOK
  <1>2. CASE WritePaid(m)
    <2>1. Reported(m)
      BY <1>0, <1>2, Recorded DEF WritePaid, Reported, Outcomes, Notes
    <2> QED
      BY <1>0, <1>2, <2>1, ReportStep DEF WritePaid, Goto, outside, TypeOK, Stages
  <1> QED
    BY <1>1, <1>2

LEMMA RowStep ==
    ASSUME IInv, Quiet(Clerks), NEW p \in Payments, Refund(p) \/ Age(p)
    PROVE  IInv'
  <1>0. TypeOK /\ ClaimFirst /\ Held
    BY DEF IInv
  <1>1. CASE Refund(p)
    <2>1. /\ row' \in [Payments -> Rows]
          /\ row'[p] = [status |-> "refunded", owed |-> TRUE]
          /\ \A q \in Payments \ {p} : row'[q] = row[q]
          /\ stale' \subseteq {q \in Payments : InFlight(q)'}
      BY <1>0, <1>1, RowSet DEF Refund, Statuses
    <2>2. row[p].owed /\ UNCHANGED <<bill, at, hit, outside>>
      BY <1>1 DEF Refund
    <2>3. \A q \in Payments : Settled(q)' <=> Settled(q)
      BY <1>0, <2>1, <2>2 DEF Held, Settled
    <2>4. TypeOK'
      BY <1>0, <2>1, <2>2 DEF TypeOK, outside
    <2>5. ClaimFirst'
      BY <1>0, <2>1, <2>2 DEF ClaimFirst, outside
    <2>6. Held' /\ (Apart => SettledTogether')
      BY <1>0, <2>1, <2>2, <2>3 DEF Held, SettledTogether, IInv
    <2> QED
      BY <2>2, <2>4, <2>5, <2>6, AloneKept DEF IInv
  <1>2. CASE Age(p)
    <2>1. /\ UNCHANGED <<bill, row, at, hit, outside>>
          /\ stale' \subseteq {q \in Payments : InFlight(q)'}
      BY <1>0, <1>2 DEF Age, TypeOK, InFlight
    <2>2. TypeOK'
      BY <1>0, <2>1 DEF TypeOK, outside
    <2>3. ClaimFirst'
      BY <1>0, <2>1 DEF ClaimFirst, outside
    <2>4. Held' /\ (Apart => SettledTogether')
      BY <2>1 DEF Held, SettledTogether, Settled, IInv
    <2> QED
      BY <2>1, <2>2, <2>3, <2>4, AloneKept DEF IInv
  <1> QED
    BY <1>1, <1>2

LEMMA VoidStep ==
    ASSUME IInv, Quiet(Clerks), VoidBill
    PROVE  IInv'
  <1>0. TypeOK /\ ClaimFirst
    BY DEF IInv
  <1>1. bill = "unpaid" /\ bill' = "void" /\ UNCHANGED <<row, stale, at, hit, outside>>
    BY DEF VoidBill
  <1>2. \A p \in Payments : ~InFlight(p) /\ ~Settled(p)
    BY DEF VoidBill, Settled
  <1>3. TypeOK'
    BY <1>0, <1>1 DEF TypeOK, InFlight, outside
  <1>4. \A b \in Backends : at[b] # "calling"
    BY <1>0, <1>2 DEF ClaimFirst, InFlight
  <1>5. ClaimFirst'
    BY <1>0, <1>1, <1>4 DEF ClaimFirst, outside
  <1>6. Held' /\ (Apart => SettledTogether')
    BY <1>1, <1>2 DEF Held, SettledTogether, Settled, IInv
  <1> QED
    BY <1>1, <1>3, <1>5, <1>6, AloneKept DEF IInv

LEMMA UnpayStep ==
    ASSUME IInv, NEW c \in Clerks, Quiet(Clerks \ {c}), AskUnpaid(c) \/ Unpay(c)
    PROVE  IInv'
  <1>0. TypeOK /\ ClaimFirst /\ Held
    BY DEF IInv
  <1>a. at \in [Actors -> Stages] /\ c \in Actors
    BY <1>0 DEF TypeOK
  <1>b. Apart => \A d \in Clerks \ {c} : at[d] = "idle"
    BY DEF Quiet
  <1>1. CASE AskUnpaid(c)
    <2>1. at' = [at EXCEPT ![c] = "asked"] /\ bill # "void" /\ UNCHANGED <<books, hit, outside>>
      BY <1>1 DEF AskUnpaid, Goto
    <2>2. TypeOK'
      BY <1>0, <2>1 DEF TypeOK, InFlight, books, outside, Stages
    <2>3. ClaimFirst'
      BY <1>0, <2>1 DEF ClaimFirst, TypeOK, books, outside
    <2>4. Held' /\ (Apart => SettledTogether')
      BY <2>1 DEF IInv, Held, SettledTogether, Settled, books
    <2>5. Apart => UnpayAlone'
      BY <1>a, <1>b, <2>1 DEF UnpayAlone, books
    <2> QED
      BY <2>2, <2>3, <2>4, <2>5 DEF IInv
  <1>2. CASE ClearSettled(c)
    <2>1. /\ at' = [at EXCEPT ![c] = "cleared"] /\ at[c] = "asked"
          /\ hit' = [hit EXCEPT ![c] = {p \in Payments : Settled(p)}]
          /\ UNCHANGED <<books, outside>>
      BY <1>2 DEF ClearSettled, Goto
    <2>2. TypeOK'
      BY <1>0, <2>1 DEF TypeOK, InFlight, books, outside, Stages
    <2>3. ClaimFirst'
      BY <1>0, <2>1 DEF ClaimFirst, TypeOK, books, outside
    <2>4. Held' /\ (Apart => SettledTogether')
      <3>1. \A d \in Clerks : hit'[d] = IF d = c THEN {p \in Payments : Settled(p)} ELSE hit[d]
        BY <1>0, <2>1 DEF TypeOK
      <3>2. \A d \in Clerks \ {c} : hit[d] \cap {p \in Payments : Settled(p)} = {}
        BY <1>2 DEF ClearSettled
      <3>3. UNCHANGED <<bill, row>>
        BY <2>1 DEF books
      <3>4. \A d, e \in Clerks : d # e => hit'[d] \cap hit'[e] = {}
        BY <1>0, <3>1, <3>2 DEF Held
      <3>5. \A d \in Clerks : hit'[d] \subseteq {p \in Payments : Settled(p)'}
        BY <1>0, <3>1, <3>3 DEF Held, Settled
      <3> QED
        BY <1>0, <3>3, <3>4, <3>5 DEF IInv, Held, SettledTogether, Settled
    <2>5. Apart => UnpayAlone'
      <3> SUFFICES ASSUME Apart PROVE UnpayAlone'
        OBVIOUS
      <3>1. \A d \in Clerks \ {c} : at'[d] = "idle"
        BY <1>a, <1>b, <2>1
      <3>2. at'[c] = "cleared" /\ hit'[c] = {p \in Payments : Settled(p)'}
        BY <1>0, <1>a, <2>1 DEF TypeOK, Settled, books
      <3>3. bill' # "void"
        BY <2>1 DEF IInv, UnpayAlone, books
      <3> QED
        BY <3>1, <3>2, <3>3 DEF UnpayAlone
    <2> QED
      BY <2>2, <2>3, <2>4, <2>5 DEF IInv
  <1>3. CASE WriteUnpaid(c)
    <2>1. /\ at' = [at EXCEPT ![c] = "idle"] /\ at[c] = "cleared"
          /\ hit' = [hit EXCEPT ![c] = {}] /\ bill' = "unpaid"
          /\ UNCHANGED <<stale, outside>>
      BY <1>3 DEF WriteUnpaid, Goto
    <2>2. /\ row' \in [Payments -> Rows]
          /\ \A p \in hit[c] : row'[p] = [status |-> "voided", owed |-> FALSE]
          /\ \A p \in Payments \ hit[c] : row'[p] = row[p]
      BY <1>0, <1>3 DEF WriteUnpaid, TypeOK, Rows, Statuses
    <2>3. \A p \in hit[c] : p \in Payments /\ Settled(p) /\ ~Settled(p)'
      BY <1>0, <2>2 DEF Held, Settled
    <2>4. TypeOK'
      <3>1. stale' \subseteq {p \in Payments : InFlight(p)'}
        BY <1>0, <2>1, <2>2, <2>3 DEF TypeOK, InFlight, Settled
      <3> QED
        BY <1>0, <2>1, <2>2, <3>1 DEF TypeOK, outside, Stages
    <2>5. ClaimFirst'
      <3>1. row[Card].status \notin {"none", "succeeded"} => row'[Card] = row[Card]
        BY <2>2, <2>3 DEF Settled
      <3>2. row[Card].status # "none" => row'[Card].status # "none"
        BY <2>2
      <3>3. \A b \in Backends : at'[b] = at[b]
        BY <1>a, <2>1
      <3> QED
        BY <1>0, <2>1, <3>1, <3>2, <3>3 DEF ClaimFirst, outside
    <2>6. Held'
      <3>0. \A d \in Clerks \ {c} : hit'[d] = hit[d]
        BY <1>0, <2>1 DEF TypeOK
      <3>1. hit'[c] = {}
        BY <1>0, <2>1 DEF TypeOK
      <3>2. \A d \in Clerks \ {c} : \A p \in hit[d] : p \in Payments \ hit[c] /\ Settled(p)
        BY <1>0 DEF Held
      <3>3. \A d \in Clerks : hit'[d] \subseteq {p \in Payments : Settled(p)'}
        BY <2>2, <3>0, <3>1, <3>2 DEF Settled
      <3>4. \A d, e \in Clerks : d # e => hit'[d] \cap hit'[e] = {}
        BY <1>0, <3>0, <3>1 DEF Held
      <3>5. \A p \in Payments : row'[p].owed => row'[p].status \notin {"none", "succeeded"}
        BY <1>0, <2>2 DEF Held
      <3> QED
        BY <3>3, <3>4, <3>5 DEF Held
    <2>7. Apart => SettledTogether'
      BY <2>1, <2>2, <2>3 DEF IInv, SettledTogether, UnpayAlone, Settled
    <2>8. Apart => UnpayAlone'
      BY <1>a, <1>b, <2>1 DEF UnpayAlone
    <2> QED
      BY <2>4, <2>5, <2>6, <2>7, <2>8 DEF IInv
  <1> QED
    BY <1>1, <1>2, <1>3 DEF Unpay

LEMMA NextStep == IInv /\ [Next]_vars => IInv'
  <1> SUFFICES ASSUME IInv, [Next]_vars PROVE IInv'
    OBVIOUS
  <1>1. CASE Quiet(Clerks) /\ Elsewhere
    BY <1>1, CheckoutStep, ChargeStep, GatewayStep, MarkStep, RowStep, VoidStep DEF Elsewhere
  <1>2. CASE \E c \in Clerks : Quiet(Clerks \ {c}) /\ (AskUnpaid(c) \/ Unpay(c))
    BY <1>2, UnpayStep
  <1>3. CASE UNCHANGED vars
    BY <1>3 DEF vars, IInv, TypeOK, Held, ClaimFirst, SettledTogether, UnpayAlone, Settled, InFlight
  <1> QED
    BY <1>1, <1>2, <1>3 DEF Next

\* The inductive invariant holds, whatever the sizes and whether Apart is assumed.
THEOREM Invariance == Spec => []IInv
  BY Start, NextStep, PTL DEF Spec

\* Types.
THEOREM Typing == Spec => []TypeOK
  <1>1. IInv => TypeOK
    BY DEF IInv
  <1> QED
    BY <1>1, Invariance, PTL

\* The saved card is charged once, whatever dies or overlaps, without Apart.
THEOREM CardIsChargedOnce == Spec => []ChargedOnce
  <1>1. IInv => ChargedOnce
    BY DEF IInv, ClaimFirst, ChargedOnce
  <1> QED
    BY <1>1, Invariance, PTL

\* Nor is it charged for a bill an admin has voided before the charge, without Apart.
THEOREM VoidIsNotCharged == Spec => []VoidNeverCharged
  <1>1. IInv => VoidNeverCharged
    BY DEF IInv, ClaimFirst, VoidNeverCharged
  <1> QED
    BY <1>1, Invariance, PTL

\* Apart, a settled row and a paid bill come together, and alone.
THEOREM SettlesTogether == ASSUME Apart PROVE Spec => []SettledTogether
  <1>1. IInv => SettledTogether
    BY DEF IInv
  <1> QED
    BY <1>1, Invariance, PTL

\* Apart, a void is final.
THEOREM VoidStands == ASSUME Apart PROVE Spec => VoidIsFinal
  <1>1. ASSUME IInv, [Next]_vars PROVE bill = "void" => bill' = "void"
    <2> SUFFICES ASSUME bill = "void", bill' # "void" PROVE FALSE
      OBVIOUS
    <2>0. TypeOK /\ Held /\ UnpayAlone
      BY <1>1 DEF IInv
    <2>1. ASSUME NEW p \in Payments, NEW o \in Outcomes, Record(p, o) PROVE FALSE
      <3>1. Silent \/ Owes(p) \/ Settles(p) \/ Notes(p, o)
        BY <2>0, <2>1, Recorded
      <3> QED
        BY <3>1 DEF Silent, books, Owes, Settles, Notes
    <2>2. CASE Elsewhere
      <3>1. CASE \E s \in Sessions : AskCheckout(s) \/ OpenSession(s) \/ HandOver(s)
        BY <2>1, <3>1 DEF AskCheckout, OpenSession, HandOver, books, Outcomes
      <3>2. CASE \E b \in Backends : Claim(b) \/ CallGateway(b) \/ RecordAnswer(b) \/ Die(b)
        BY <2>1, <3>2 DEF Claim, CallGateway, RecordAnswer, Die, books
      <3>3. CASE \E p \in Charged : Pay(p) \/ Decline(p) \/ \E o \in Outcomes : Webhook(p, o)
        BY <2>1, <3>3 DEF Pay, Decline, Webhook, books
      <3>4. CASE \E m \in Marks : AskPaid(m) \/ WritePaid(m)
        BY <2>1, <3>4 DEF AskPaid, WritePaid, books, Outcomes
      <3>5. CASE (\E p \in Payments : Refund(p) \/ Age(p)) \/ VoidBill
        BY <3>5 DEF Refund, Age, VoidBill
      <3> QED
        BY <2>2, <3>1, <3>2, <3>3, <3>4, <3>5 DEF Elsewhere
    <2>3. CASE \E c \in Clerks : AskUnpaid(c) \/ Unpay(c)
      BY <2>0, <2>3 DEF AskUnpaid, Unpay, ClearSettled, WriteUnpaid, UnpayAlone, books
    <2>4. CASE UNCHANGED vars
      BY <2>4 DEF vars
    <2> QED
      BY <1>1, <2>2, <2>3, <2>4 DEF Next
  <1> QED
    BY <1>1, Invariance, PTL DEF VoidIsFinal, Spec

\* A success the gateway is told was taken in is in the books, for a payment that
\* has a row. It needs no hypothesis.
THEOREM AnswersAreBooked == Spec => AnswerMeansBooked
  <1>1. ASSUME IInv, [Next]_vars
        PROVE  \A p \in answered' \ answered : row[p].status # "none" => Accounted(p)'
    <2> SUFFICES ASSUME NEW p \in answered' \ answered, row[p].status # "none"
                 PROVE  Accounted(p)'
      OBVIOUS
    <2>0. TypeOK /\ Held
      BY <1>1 DEF IInv
    <2>1. ASSUME NEW q \in Charged, NEW o \in Outcomes, Webhook(q, o)
          PROVE  Accounted(p)'
      <3>1. p = q /\ o = "succeeded" /\ p \in Payments /\ Record(p, "succeeded")
        BY <1>1, <2>1 DEF Webhook
      <3>2. CASE Known(p, "succeeded")
        BY <3>1, <3>2, ActorsAssumption DEF Record, Known, Final, Settled, Accounted, books
      <3>3. CASE ~Known(p, "succeeded") /\ Refuses(p)
        <4>1. row[p].status \in Statuses
          BY <2>0, <3>1 DEF TypeOK, Rows
        <4>2. SetRow(p, row[p].status, TRUE)
          BY <1>1, <3>1, <3>3 DEF Record, OweBack
        <4>3. row'[p] = [status |-> row[p].status, owed |-> TRUE]
          BY <2>0, <3>1, <4>1, <4>2, RowSet
        <4> QED
          BY <4>3 DEF Accounted
      <3>4. CASE ~Known(p, "succeeded") /\ ~Refuses(p)
        <4>1. SetRow(p, "succeeded", FALSE)
          BY <3>1, <3>4 DEF Record
        <4>2. row'[p] = [status |-> "succeeded", owed |-> FALSE]
          BY <2>0, <3>1, <4>1, RowSet DEF Statuses
        <4> QED
          BY <4>2 DEF Accounted, Settled
      <3> QED
        BY <3>2, <3>3, <3>4
    <2>2. CASE Elsewhere
      <3>1. CASE \E s \in Sessions : AskCheckout(s) \/ OpenSession(s) \/ HandOver(s)
        BY <1>1, <3>1 DEF AskCheckout, OpenSession, HandOver, outside
      <3>2. CASE \E b \in Backends : Claim(b) \/ CallGateway(b) \/ RecordAnswer(b) \/ Die(b)
        BY <1>1, <3>2 DEF Claim, CallGateway, RecordAnswer, Die, outside
      <3>3. CASE \E q \in Charged : Pay(q) \/ Decline(q) \/ \E o \in Outcomes : Webhook(q, o)
        BY <1>1, <2>1, <3>3 DEF Pay, Decline
      <3>4. CASE \E m \in Marks : AskPaid(m) \/ WritePaid(m)
        BY <1>1, <3>4 DEF AskPaid, WritePaid, outside
      <3>5. CASE (\E q \in Payments : Refund(q) \/ Age(q)) \/ VoidBill
        BY <1>1, <3>5 DEF Refund, Age, VoidBill, outside
      <3> QED
        BY <2>2, <3>1, <3>2, <3>3, <3>4, <3>5 DEF Elsewhere
    <2>3. CASE \E c \in Clerks : AskUnpaid(c) \/ Unpay(c)
      BY <1>1, <2>3 DEF AskUnpaid, Unpay, ClearSettled, WriteUnpaid, outside
    <2>4. CASE UNCHANGED vars
      BY <1>1, <2>4 DEF vars, outside
    <2> QED
      BY <1>1, <2>2, <2>3, <2>4 DEF Next
  <1> QED
    BY <1>1, Invariance, PTL DEF AnswerMeansBooked, Spec

Place == [p \in Payments |-> PlaceOf(row[p])]

\* A report is a step of the books, or none.
LEMMA ReportMaps ==
    ASSUME TypeOK, Held, SettledTogether, NEW p \in Payments, Reported(p)
    PROVE  Books!Next \/ UNCHANGED <<bill, Place>>
  <1>0. bill \in {"unpaid", "paid", "void"} /\ row[p] \in Rows
    BY DEF TypeOK
  <1>1. CASE Silent
    BY <1>1 DEF Silent, books, Place
  <1>a. ASSUME NEW st \in Statuses, NEW ow \in BOOLEAN, SetRow(p, st, ow)
        PROVE  Place' = [Place EXCEPT ![p] = PlaceOf([status |-> st, owed |-> ow])]
    <2>1. /\ row'[p] = [status |-> st, owed |-> ow]
          /\ \A q \in Payments \ {p} : row'[q] = row[q]
      BY <1>a, RowSet
    <2>2. Place'[p] = PlaceOf([status |-> st, owed |-> ow])
      BY <2>1 DEF Place
    <2>3. \A q \in Payments \ {p} : Place'[q] = Place[q]
      BY <2>1 DEF Place
    <2> QED
      BY <2>2, <2>3 DEF Place
  <1>b. ~Final(p) => Place[p] \in {"none", "withdrawn"}
    BY DEF Final, Place, PlaceOf
  <1>2. CASE Owes(p)
    <2>1. PICK st \in Statuses \ {"none", "succeeded", "refunded"} : SetRow(p, st, TRUE)
      BY <1>2 DEF Owes
    <2>2. Place' = [Place EXCEPT ![p] = "owed"]
      BY <1>a, <2>1 DEF PlaceOf
    <2>3. bill # "unpaid" /\ bill' = bill /\ ~Final(p)
      BY <1>2 DEF Owes
    <2>4. Books!Owe(p)
      BY <1>b, <2>2, <2>3 DEF Books!Owe, Place
    <2> QED
      BY <2>4 DEF Books!Next
  <1>3. CASE Settles(p)
    <2>1. Place' = [Place EXCEPT ![p] = "settled"]
      BY <1>a, <1>3 DEF Settles, PlaceOf, Statuses
    <2>2. bill = "unpaid" /\ bill' = "paid" /\ ~Final(p)
      BY <1>3 DEF Settles, SettledTogether
    <2>3. Books!Settle(p)
      BY <1>b, <2>1, <2>2 DEF Books!Settle, Place
    <2> QED
      BY <2>3 DEF Books!Next
  <1>4. CASE Notes(p, "pending") \/ Notes(p, "failed")
    <2>1. Place' = [Place EXCEPT ![p] = "none"] /\ bill' = bill /\ ~Final(p)
      BY <1>a, <1>4 DEF Notes, PlaceOf, Statuses
    <2>2. CASE Place[p] = "withdrawn"
      BY <2>1, <2>2 DEF Books!Next, Books!Forget, Place
    <2>3. CASE Place[p] = "none"
      BY <2>1, <2>3 DEF Place
    <2> QED
      BY <1>b, <2>1, <2>2, <2>3
  <1> QED
    BY <1>1, <1>2, <1>3, <1>4 DEF Reported

LEMMA StepMaps ==
    ASSUME Apart, IInv, [Next]_vars
    PROVE  Books!Next \/ UNCHANGED <<bill, Place>>
  <1>0. TypeOK /\ Held /\ SettledTogether /\ UnpayAlone
    BY DEF IInv
  <1>a. row \in [Payments -> Rows]
    BY <1>0 DEF TypeOK
  <1>b. UNCHANGED books => UNCHANGED <<bill, Place>>
    BY DEF books, Place
  <1>1. ASSUME NEW p \in Payments, NEW o \in Outcomes, Record(p, o)
        PROVE  Books!Next \/ UNCHANGED <<bill, Place>>
    <2>1. Reported(p)
      BY <1>0, <1>1, Recorded DEF Reported, Notes
    <2> QED
      BY <1>0, <2>1, ReportMaps
  <1>2. CASE Elsewhere
    <2>1. CASE \E s \in Sessions : AskCheckout(s) \/ OpenSession(s) \/ HandOver(s)
      BY <1>b, <1>1, <2>1 DEF AskCheckout, OpenSession, HandOver, Outcomes
    <2>2. CASE \E b \in Backends : Claim(b)
      <3>1. row[Card].status = "none" /\ SetRow(Card, "initiated", FALSE) /\ bill' = bill
        BY <2>2 DEF Claim
      <3>2. ~row[Card].owed
        BY <1>0, <3>1 DEF Held
      <3>a. /\ row'[Card] = [status |-> "initiated", owed |-> FALSE]
            /\ \A q \in Payments \ {Card} : row'[q] = row[q]
        BY <1>0, <3>1, RowSet DEF Statuses
      <3>b. PlaceOf(row'[Card]) = "none" /\ PlaceOf(row[Card]) = "none"
        BY <3>1, <3>2, <3>a DEF PlaceOf
      <3>3. \A q \in Payments : PlaceOf(row'[q]) = PlaceOf(row[q])
        BY <3>a, <3>b
      <3> QED
        BY <3>1, <3>3 DEF Place
    <2>3. CASE \E b \in Backends : CallGateway(b) \/ RecordAnswer(b) \/ Die(b)
      BY <1>b, <1>1, <2>3 DEF CallGateway, RecordAnswer, Die
    <2>4. CASE \E p \in Charged : Pay(p) \/ Decline(p) \/ \E o \in Outcomes : Webhook(p, o)
      BY <1>b, <1>1, <2>4 DEF Pay, Decline, Webhook
    <2>5. CASE \E m \in Marks : AskPaid(m) \/ WritePaid(m)
      BY <1>b, <1>1, <2>5 DEF AskPaid, WritePaid, Outcomes
    <2>6. CASE \E p \in Payments : Refund(p)
      <3>1. PICK p \in Payments : Refund(p)
        BY <2>6
      <3>2. /\ row' \in [Payments -> Rows]
            /\ row'[p] = [status |-> "refunded", owed |-> TRUE]
            /\ \A q \in Payments \ {p} : row'[q] = row[q]
        BY <1>0, <3>1, RowSet DEF Refund, Statuses
      <3>3. Place[p] = "owed" /\ bill' = bill
        BY <3>1 DEF Refund, Place, PlaceOf
      <3>a. PlaceOf(row'[p]) = "returned"
        BY <3>2 DEF PlaceOf
      <3>4. Place' = [Place EXCEPT ![p] = "returned"]
        BY <3>2, <3>a DEF Place
      <3>5. Books!Return(p)
        BY <3>3, <3>4 DEF Books!Return, Place
      <3> QED
        BY <3>5 DEF Books!Next
    <2>7. CASE \E p \in Payments : Age(p)
      BY <2>7 DEF Age, Place
    <2>8. CASE VoidBill
      BY <2>8 DEF VoidBill, Books!Next, Books!Void, Place
    <2> QED
      BY <1>2, <2>1, <2>2, <2>3, <2>4, <2>5, <2>6, <2>7, <2>8 DEF Elsewhere
  <1>3. ASSUME NEW c \in Clerks, AskUnpaid(c) \/ Unpay(c)
        PROVE  Books!Next \/ UNCHANGED <<bill, Place>>
    <2>1. CASE AskUnpaid(c) \/ ClearSettled(c)
      BY <1>b, <2>1 DEF AskUnpaid, ClearSettled
    <2>2. CASE WriteUnpaid(c)
      <3>1. /\ bill # "void" /\ bill' = "unpaid"
            /\ \A p \in Payments : Settled(p) <=> p \in hit[c]
            /\ row' = [p \in Payments |->
                           IF p \in hit[c] THEN [status |-> "voided", owed |-> FALSE] ELSE row[p]]
        BY <1>0, <2>2 DEF WriteUnpaid, UnpayAlone, Held
      <3>2. \A p \in Payments : Settled(p) <=> PlaceOf(row[p]) = "settled"
        BY <1>0 DEF Held, Settled, PlaceOf
      <3>3. Place' = [p \in Payments |-> IF Place[p] = "settled" THEN "withdrawn" ELSE Place[p]]
        BY <3>1, <3>2 DEF Place, PlaceOf
      <3>4. Books!Withdraw
        BY <3>1, <3>3 DEF Books!Withdraw, Place
      <3> QED
        BY <3>4 DEF Books!Next
    <2> QED
      BY <1>3, <2>1, <2>2 DEF Unpay
  <1>4. CASE UNCHANGED vars
    BY <1>b, <1>4 DEF vars, books
  <1> QED
    BY <1>2, <1>3, <1>4 DEF Next

\* Apart, the bill and its payments implement the books of Debt.
THEOREM Implements == ASSUME Apart PROVE Spec => KeepsBooks
  <1>1. Init => Books!Init
    BY DEF Init, Books!Init, PlaceOf, NoRow
  <1>2. IInv /\ [Next]_vars => [Books!Next]_<<bill, [p \in Payments |-> PlaceOf(row[p])]>>
    BY StepMaps DEF Place
  <1> QED
    BY <1>1, <1>2, Invariance, PTL DEF Spec, KeepsBooks, Books!Spec
====
