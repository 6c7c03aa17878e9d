---- MODULE Voucher ----
(***************************************************************************)
(* One payment voucher from draft to paid (apps/backend/src/features/      *)
(* payment-voucher): the agency reviews, signs and sends it, the PR        *)
(* disputes or counter-signs it, and it is paid by hand or by a payout     *)
(* run, while receipts and wages are still being written on it.            *)
(*                                                                         *)
(* A request judges the row as a plain SELECT returned it and writes it in *)
(* a later transaction. Some writes lock the row and look again, others    *)
(* are by id alone. A refused request changes nothing and is left out.     *)
(***************************************************************************)
CONSTANTS
    Reqs,       \* slots for requests under way
    Claims,     \* the cells of the voucher a PR may dispute
    Figures,    \* contents the voucher may have
    None

ASSUME FiguresAssumption == Figures # {}

VARIABLES
    status,     \* payment_voucher.status, or "gone" when the row is deleted
    fin,        \* finance_head_signed_at is set
    prSigned,   \* pr_signed_at is set
    figures,    \* lines and totals
    open,       \* payment_voucher_dispute rows with no outcome
    unspent,    \* history: a counter-signature has been written since the voucher
                \* was last paid or re-opened
    pc,         \* [Reqs -> Places]
    job         \* [Reqs -> Jobs]  what each was asked and has read

row == <<status, fin, prSigned, figures, open, unspent>>
vars == <<status, fin, prSigned, figures, open, unspent, pc, job>>

Statuses == {"pending_review", "sent", "signed", "paid", "disputed"}
CounterSigned(s) == s \in {"signed", "paid"}
OpenWeek(s) == s \in {"pending_review", "disputed"}
Disputable(s) == s \in {"pending_review", "sent", "disputed"}

Places == {"idle", "claims", "put", "finance", "sign", "claim", "flag", "close",
           "count", "return", "issue", "remove", "line"}
Jobs == [was: Statuses, fin: BOOLEAN, to: Statuses \cup {"same"}, rewrite: BOOLEAN,
         claim: Claims \cup {None}, unconditional: BOOLEAN]
Blank == [was |-> "pending_review", fin |-> FALSE, to |-> "same", rewrite |-> FALSE,
          claim |-> None, unconditional |-> FALSE]

Init ==
    /\ status = "pending_review"
    /\ fin = FALSE
    /\ prSigned = FALSE
    /\ figures \in Figures
    /\ open = {}
    /\ unspent = FALSE
    /\ pc = [r \in Reqs |-> "idle"]
    /\ job = [r \in Reqs |-> Blank]

(***************************************************************************)
(* The steps of a request                                                  *)
(***************************************************************************)

\* getById, with what else was asked for: the judgements are on this.
Seen == [Blank EXCEPT !.was = status, !.fin = fin]

Ask(r, place, asked) ==
    /\ pc[r] = "idle" /\ status # "gone"
    /\ pc' = [pc EXCEPT ![r] = place]
    /\ job' = [job EXCEPT ![r] = asked]
    /\ UNCHANGED row

Goto(r, place) ==
    /\ pc' = [pc EXCEPT ![r] = place]
    /\ UNCHANGED job

Answer(r) ==
    /\ pc' = [pc EXCEPT ![r] = "idle"]
    /\ job' = [job EXCEPT ![r] = Blank]

\* repository.update with no expectedStatus: UPDATE ... WHERE id.
SetById(r, s) ==
    /\ status' = IF status = "gone" THEN status ELSE s
    /\ Answer(r)

\* The row as the judgement saw it, asked again under FOR UPDATE (expectedStatus).
StillAs(r) == status = job[r].was

(***************************************************************************)
(* PUT /payment-voucher/:id                                                *)
(***************************************************************************)

\* voucherUpdateRefusal.
LockRefuses(was, signedByAgency, to, rewrite) ==
    \/ CounterSigned(was) /\ rewrite
    \/ CounterSigned(was) /\ to \notin {"same", was, "pending_review"}
         /\ ~(was = "signed" /\ to = "paid")
    \/ to = "paid" /\ was # "paid" /\ ~signedByAgency

Override(was, to) == CounterSigned(was) /\ to = "pending_review"

\* The controller's own gates on the transition; the day review and the week may
\* refuse a send on top of these.
GateRefuses(was, signedByAgency, to) ==
    \/ to = "sent" /\ was = "pending_review" /\ ~signedByAgency
    \/ to = "signed" /\ was # "signed"
    \/ to = "paid" /\ ~CounterSigned(was)

Pays(was, to) == to = "paid" /\ was # "paid"

AskPut(r, to, rewrite) ==
    /\ ~LockRefuses(status, fin, to, rewrite)
    /\ ~GateRefuses(status, fin, to)
    /\ Ask(r, IF Pays(status, to) THEN "claims" ELSE "put",
           [Seen EXCEPT !.to = to, !.rewrite = rewrite])

\* What listOpenForVoucher returns: nothing, when the query fails.
Listed == {open, {}}

CheckClaims(r) ==
    /\ pc[r] = "claims"
    /\ \E found \in Listed : IF found = {} THEN Goto(r, "put") ELSE Answer(r)
    /\ UNCHANGED row

\* Slip in WritePut: no expectedStatus goes with the write.
WritePutUnchecked(r) ==
    /\ pc[r] = "put"
    /\ status' = IF status = "gone" \/ job[r].to = "same" THEN status ELSE job[r].to
    /\ figures' \in IF job[r].rewrite THEN Figures ELSE {figures}
    /\ IF Override(job[r].was, job[r].to)
         THEN fin' = FALSE /\ prSigned' = FALSE /\ unspent' = FALSE
         ELSE unspent' = (unspent /\ ~Pays(job[r].was, job[r].to))
                /\ UNCHANGED <<fin, prSigned>>
    /\ Answer(r)
    /\ UNCHANGED open

WritePut(r) ==
    /\ pc[r] = "put"
    /\ IF StillAs(r)
         THEN /\ status' = IF job[r].to = "same" THEN status ELSE job[r].to
              /\ figures' \in IF job[r].rewrite THEN Figures ELSE {figures}
              /\ IF Override(job[r].was, job[r].to)
                   THEN fin' = FALSE /\ prSigned' = FALSE /\ unspent' = FALSE
                   ELSE unspent' = (unspent /\ ~Pays(job[r].was, job[r].to))
                          /\ UNCHANGED <<fin, prSigned>>
         ELSE UNCHANGED <<status, figures, fin, prSigned, unspent>>
    /\ Answer(r)
    /\ UNCHANGED open

(***************************************************************************)
(* Signatures                                                              *)
(***************************************************************************)

\* financeSignRefusal: in review, or later if the signature is missing.
AskFinance(r) ==
    /\ status = "pending_review" \/ (status # "paid" /\ ~fin)
    /\ Ask(r, "finance", Seen)

WriteFinance(r) ==
    /\ pc[r] = "finance"
    /\ fin' = (fin \/ StillAs(r))
    /\ Answer(r)
    /\ UNCHANGED <<status, prSigned, figures, open, unspent>>

\* signMyVoucher.
AskSign(r) ==
    /\ status = "sent"
    /\ Ask(r, "sign", Seen)

WriteSign(r) ==
    /\ pc[r] = "sign"
    /\ SetById(r, "signed")
    /\ prSigned' = (prSigned \/ status # "gone")
    /\ unspent' = (unspent \/ status # "gone")
    /\ UNCHANGED <<fin, figures, open>>

(***************************************************************************)
(* Disputes                                                                *)
(***************************************************************************)

AskRaise(r, c) ==
    /\ Disputable(status)
    /\ Ask(r, "claim", [Seen EXCEPT !.claim = c])

\* The insert; one open claim per cell, by index, and a voucher to hang it on.
InsertClaim(r) ==
    /\ pc[r] = "claim"
    /\ IF status # "gone" /\ job[r].claim \notin open
         THEN open' = open \cup {job[r].claim} /\ Goto(r, "flag")
         ELSE Answer(r) /\ UNCHANGED open
    /\ UNCHANGED <<status, fin, prSigned, figures, unspent>>

WriteDisputed(r) ==
    /\ pc[r] = "flag"
    /\ SetById(r, "disputed")
    /\ UNCHANGED <<fin, prSigned, figures, open, unspent>>

\* withdrawMyDispute (unconditional: it hands back whatever the status) and
\* resolveDispute (only a voucher it read as disputed).
AskClose(r, c, withdraw) ==
    Ask(r, "close", [Seen EXCEPT !.claim = c, !.unconditional = withdraw])

\* UPDATE ... WHERE outcome IS NULL.
CloseClaim(r) ==
    /\ pc[r] = "close"
    /\ open' = open \ {job[r].claim}
    /\ IF job[r].claim \in open THEN Goto(r, "count") ELSE Answer(r)
    /\ UNCHANGED <<status, fin, prSigned, figures, unspent>>

CountClaims(r) ==
    /\ pc[r] = "count"
    /\ \E found \in Listed :
          IF found = {} /\ (job[r].unconditional \/ job[r].was = "disputed")
            THEN Goto(r, "return") ELSE Answer(r)
    /\ UNCHANGED row

WriteReturn(r) ==
    /\ pc[r] = "return"
    /\ SetById(r, IF job[r].fin THEN "sent" ELSE "pending_review")
    /\ UNCHANGED <<fin, prSigned, figures, open, unspent>>

(***************************************************************************)
(* Writers of money                                                        *)
(***************************************************************************)

\* A receipt or a line is logged, edited, corrected, charged or taken off. Logging
\* and charging ask for an open week, an agency's correction for no counter-signature.
AskLine(r) ==
    /\ OpenWeek(status) \/ ~prSigned
    /\ Ask(r, "line", Seen)

\* addLine, updateLine, deleteLine: by id, whatever the voucher has become.
WriteLine(r) ==
    /\ pc[r] = "line"
    /\ figures' \in IF status = "gone" THEN {figures} ELSE Figures
    /\ Answer(r)
    /\ UNCHANGED <<status, fin, prSigned, open, unspent>>

\* sealWageLine: the wage of a finished shift, under the row lock; the agency's
\* signature comes off a total that changed.
SealWage ==
    /\ OpenWeek(status)
    /\ figures' \in Figures \ {figures}
    /\ fin' = FALSE
    /\ UNCHANGED <<status, prSigned, open, unspent, pc, job>>

\* A payout run settles this voucher's item as paid: one guarded UPDATE.
SettleItem ==
    /\ status = "signed" /\ fin
    /\ status' = "paid"
    /\ unspent' = FALSE
    /\ UNCHANGED <<fin, prSigned, figures, open, pc, job>>

\* The weekly job lists the vouchers in review, asks its gates one by one, and sends.
AskIssue(r) ==
    /\ status = "pending_review" /\ fin
    /\ Ask(r, "issue", Seen)

WriteIssue(r) ==
    /\ pc[r] = "issue"
    /\ SetById(r, "sent")
    /\ UNCHANGED <<fin, prSigned, figures, open, unspent>>

\* voucherDeleteRefusal, then the same again under the lock. Claims cascade.
AskRemove(r) ==
    /\ ~CounterSigned(status)
    /\ Ask(r, "remove", Seen)

\* Slip in WriteRemove: only the status read before the lock is judged.
WriteRemoveAsRead(r) ==
    /\ pc[r] = "remove"
    /\ status' = "gone" /\ open' = {}
    /\ Answer(r)
    /\ UNCHANGED <<fin, prSigned, figures, unspent>>

WriteRemove(r) ==
    /\ pc[r] = "remove"
    /\ IF CounterSigned(status) THEN UNCHANGED <<status, open>>
                                ELSE status' = "gone" /\ open' = {}
    /\ Answer(r)
    /\ UNCHANGED <<fin, prSigned, figures, unspent>>

\* A query fails or the process dies: what was done stays done.
Abandon(r) ==
    /\ pc[r] # "idle"
    /\ Answer(r)
    /\ UNCHANGED row

Next ==
    \/ \E r \in Reqs :
          \/ \E to \in Statuses \cup {"same"}, rewrite \in BOOLEAN : AskPut(r, to, rewrite)
          \/ \E c \in Claims :
                AskRaise(r, c) \/ \E withdraw \in BOOLEAN : AskClose(r, c, withdraw)
          \/ AskFinance(r) \/ AskSign(r) \/ AskLine(r) \/ AskIssue(r) \/ AskRemove(r)
          \/ CheckClaims(r) \/ WritePut(r) \/ WriteFinance(r) \/ WriteSign(r)
          \/ InsertClaim(r) \/ WriteDisputed(r)
          \/ CloseClaim(r) \/ CountClaims(r) \/ WriteReturn(r)
          \/ WriteLine(r) \/ WriteIssue(r) \/ WriteRemove(r) \/ Abandon(r)
    \/ SealWage \/ SettleItem

Spec == Init /\ [][Next]_vars

(***************************************************************************)
(* Properties                                                              *)
(***************************************************************************)

\* Every variable has its type (payment_voucher and payment_voucher_dispute rows,
\* and the locals of the handlers).
TypeOK ==
    /\ status \in Statuses \cup {"gone"}
    /\ fin \in BOOLEAN
    /\ prSigned \in BOOLEAN
    /\ figures \in Figures
    /\ open \subseteq Claims
    /\ unspent \in BOOLEAN
    /\ pc \in [Reqs -> Places]
    /\ job \in [Reqs -> Jobs]

\* A signed voucher carries a counter-signature nobody has used up.
SignedForReal == status = "signed" => unspent

\* A voucher in a counter-signed status carries the PR's mark.
Marked == CounterSigned(status) => prSigned

\* What a PUT carries to its write is what the lock allowed of the status it read.
PutsAllowed ==
    \A r \in Reqs : pc[r] \in {"claims", "put"} =>
        /\ ~LockRefuses(job[r].was, job[r].fin, job[r].to, job[r].rewrite)
        /\ ~GateRefuses(job[r].was, job[r].fin, job[r].to)

\* A dispute about to be inserted names its cell.
RaisesNamed == \A r \in Reqs : pc[r] = "claim" => job[r].claim \in Claims

\* The inductive invariant.
IInv == TypeOK /\ SignedForReal /\ Marked /\ PutsAllowed /\ RaisesNamed

\* "The PR's counter-signature is what says they agree with the figure being
\* transferred": a voucher is paid, by hand or by a run, at most once for each
\* counter-signature, and never on one an override has taken off, whatever writes by
\* id do to its status in between (update, settle, signMyVoucher).
EachPaymentBacked ==
    [][status' = "paid" /\ status # "paid" => unspent]_vars

\* A voucher the PR has counter-signed is neither rewritten by the editor or a wage
\* seal nor deleted, even by one that read it before the PR signed: only a line write
\* under way changes it (expectedStatus in update, the status re-checks of addLineOnce
\* and remove).
AgreedIsLocked ==
    [][CounterSigned(status) /\ (figures' # figures \/ status' = "gone") =>
          \E r \in Reqs : pc[r] = "line" /\ pc'[r] = "idle"]_vars

\* "A signed voucher CANNOT carry an open claim" (update, before it records a payment).
SignedHasNoOpenClaim == status = "signed" => open = {}

\* "The PR has counter-signed these figures, so they are locked" (voucherUpdateRefusal).
SignedFiguresStand ==
    [][CounterSigned(status) => figures' = figures]_vars
====
