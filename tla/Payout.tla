---- MODULE Payout ----
(***************************************************************************)
(* Payout runs (apps/backend/src/features/payment-voucher/payout-*.ts): a  *)
(* run gathers counter-signed vouchers as lines, its file is downloaded    *)
(* and taken to the agency's bank, and the bank's answers are written back *)
(* line by line.                                                           *)
(*                                                                         *)
(* Requests overlap. Creating, cancelling and settling write in one        *)
(* transaction each, but judge what a plain read returned before it; the   *)
(* download is three separate statements. A partial unique index holds a   *)
(* voucher to one live line. A refused request changes nothing and is left *)
(* out. The bank, and the hands that upload the file and report the bank's *)
(* answers, are external.                                                  *)
(***************************************************************************)
EXTENDS Naturals

CONSTANTS
    Vouchers,
    Runs,       \* payout_batch rows there is room for
    Desks,      \* slots for requests under way
    None

ASSUME NoneAssumption == None \notin Runs

VARIABLES
    voucher,    \* [Vouchers -> VoucherStatuses]  signed: both signatures are on
    run,        \* [Runs -> RunStatuses]          payout_batch.status
    item,       \* [Runs -> [Vouchers -> LineStatuses]]  payout_batch_item.status
    closed,     \* [Runs -> BOOLEAN]              settled_at is set
    released,   \* [Runs -> BOOLEAN]              history: the run has been cancelled
    bank,       \* [Runs -> [Vouchers -> Answers]]  what became of the run's file
    byHand,     \* vouchers whose last payment was recorded with "Mark paid"
    desk        \* [Desks -> Jobs]  the requests, with what each has read

vars == <<voucher, run, item, closed, released, bank, byHand, desk>>

VoucherStatuses == {"review", "signed", "paid"}
RunStatuses == {"free", "draft", "exported", "submitted", "settled", "cancelled"}
Reported == {"sent", "paid", "failed", "returned"}
LineStatuses == Reported \cup {"none", "pending", "cancelled"}
Answers == {"none", "asked", "landed", "bounced", "back"}
Places == {"idle", "create", "stamp", "send", "hand", "cancel", "settle"}

Jobs == [at : Places, run : Runs \cup {None}, lines : SUBSET Vouchers,
         says : [Vouchers -> LineStatuses], closes : BOOLEAN]
Job(at, r, lines, says, closes) ==
    [at |-> at, run |-> r, lines |-> lines, says |-> says, closes |-> closes]
NoSay == [v \in Vouchers |-> "none"]
Idle == Job("idle", None, {}, NoSay, FALSE)

Init ==
    /\ voucher = [v \in Vouchers |-> "signed"]
    /\ run = [r \in Runs |-> "free"]
    /\ item = [r \in Runs |-> [v \in Vouchers |-> "none"]]
    /\ closed = [r \in Runs |-> FALSE]
    /\ released = [r \in Runs |-> FALSE]
    /\ bank = [r \in Runs |-> [v \in Vouchers |-> "none"]]
    /\ byHand = {}
    /\ desk = [d \in Desks |-> Idle]

(***************************************************************************)
(* What the code asks of the rows                                          *)
(***************************************************************************)

\* payoutItemBlockingStatuses, and the partial unique index over the same three.
Blocking == {"pending", "sent", "paid"}

\* IN_FLIGHT_ITEM_STATUSES are the lines a run still waits for. Slip: only a line
\* that has not been sent is waited for.
OverOnceSent(s) == s # "pending"
Over(s) == s \notin {"pending", "sent"}

\* settlementMarksPaid. Slip: the bank's acknowledgement is taken for payment.
MarksTaken(s) == s \in {"paid", "sent"}
MarksPaid(s) == s = "paid"

LiveIn(r, v) == item[r][v] \in Blocking
AlreadyBatched(v) == \E r \in Runs : LiveIn(r, v)
Lines(r) == {v \in Vouchers : item[r][v] # "none"}
Open(r) == run[r] # "free"

\* Lines a settlement has written and not committed: their rows are locked.
Held(r, v) == \E d \in Desks : desk[d].at = "settle" /\ desk[d].run = r /\ v \in desk[d].lines

\* isBatchTerminal.
IsBatchTerminal(statuses) == \A s \in statuses : Over(s)

\* What may be reported of a line: what the bank has said of it. A response file
\* has no word of its own for "returned", and settles it as failed. Slip: a line
\* the bank has not answered yet is guessed to have failed.
SaysOrGuess(answer) ==
    CASE answer = "asked"   -> {"sent", "failed"}
      [] answer = "landed"  -> {"paid"}
      [] answer = "bounced" -> {"failed"}
      [] answer = "back"    -> {"returned", "failed"}
      [] answer = "none"    -> {}
Says(answer) ==
    {s \in Reported :
        \/ s = "sent" /\ answer = "asked"
        \/ s = "paid" /\ answer = "landed"
        \/ s = "failed" /\ answer \in {"bounced", "back"}
        \/ s = "returned" /\ answer = "back"}

Goto(d, job) == desk' = [desk EXCEPT ![d] = job]
Answer(d) == Goto(d, Idle)
Asks(d) == desk[d].at = "idle"

(***************************************************************************)
(* POST /payout-batch                                                      *)
(***************************************************************************)

\* listPayableCandidates, narrowed to the vouchers asked for.
ReadCandidates(d, wanted) ==
    LET chosen == {v \in wanted : voucher[v] = "signed" /\ ~AlreadyBatched(v)}
    IN  /\ Asks(d) /\ chosen # {}
        /\ Goto(d, Job("create", None, chosen, NoSay, FALSE))
        /\ UNCHANGED <<voucher, run, item, closed, released, bank, byHand>>

\* createBatch: the run and its lines in one transaction, or neither when a voucher
\* has a live line by now. Slip: no index.
Gather(d, r) ==
    /\ run' = [run EXCEPT ![r] = "draft"]
    /\ item' = [item EXCEPT ![r] = [v \in Vouchers |->
                                      IF v \in desk[d].lines THEN "pending" ELSE "none"]]

CreateBatchUnindexed(d) ==
    /\ desk[d].at = "create"
    /\ \E r \in Runs : run[r] = "free" /\ Gather(d, r)
    /\ Answer(d)
    /\ UNCHANGED <<voucher, closed, released, bank, byHand>>

CreateBatch(d) ==
    /\ desk[d].at = "create"
    /\ IF \E v \in desk[d].lines : AlreadyBatched(v)
         THEN UNCHANGED <<run, item>>
         ELSE \E r \in Runs : run[r] = "free" /\ Gather(d, r)
    /\ Answer(d)
    /\ UNCHANGED <<voucher, closed, released, bank, byHand>>

(***************************************************************************)
(* GET /payout-batch/:id/export.csv                                        *)
(***************************************************************************)

\* The file is made of every line as read, whatever its status or the run's.
ReadExport(d, r) ==
    /\ Asks(d) /\ Open(r)
    /\ Goto(d, Job("stamp", r, Lines(r), NoSay, FALSE))
    /\ UNCHANGED <<voucher, run, item, closed, released, bank, byHand>>

\* markStatus: by id alone.
StampExported(d) ==
    LET r == desk[d].run
    IN  /\ desk[d].at = "stamp"
        /\ run' = [run EXCEPT ![r] = "exported"]
        /\ Goto(d, Job("send", r, desk[d].lines, NoSay, FALSE))
        /\ UNCHANGED <<voucher, item, closed, released, bank, byHand>>

\* markItemsSent, which waits for the rows a settlement holds.
MarkItemsSent(d) ==
    LET r == desk[d].run
    IN  /\ desk[d].at = "send"
        /\ \A v \in Vouchers : item[r][v] = "pending" => ~Held(r, v)
        /\ item' = [item EXCEPT ![r] = [v \in Vouchers |->
                       IF item[r][v] = "pending" THEN "sent" ELSE item[r][v]]]
        /\ Goto(d, Job("hand", r, desk[d].lines, NoSay, FALSE))
        /\ UNCHANGED <<voucher, run, closed, released, bank, byHand>>

\* The response: the file leaves, and is uploaded. A bank takes one file of a run.
HandOver(d) ==
    LET r == desk[d].run
    IN  /\ desk[d].at = "hand"
        /\ bank' = [bank EXCEPT ![r] = [v \in Vouchers |->
                       IF v \in desk[d].lines /\ bank[r][v] = "none"
                         THEN "asked" ELSE bank[r][v]]]
        /\ Answer(d)
        /\ UNCHANGED <<voucher, run, item, closed, released, byHand>>

(***************************************************************************)
(* POST /payout-batch/:id/cancel and /submitted                            *)
(***************************************************************************)

ReadCancel(d, r) ==
    /\ Asks(d) /\ run[r] = "draft"
    /\ Goto(d, Job("cancel", r, {}, NoSay, FALSE))
    /\ UNCHANGED <<voucher, run, item, closed, released, bank, byHand>>

\* cancelBatch: every line and the run, by id, whatever they have become.
CancelBatch(d) ==
    LET r == desk[d].run
    IN  /\ desk[d].at = "cancel"
        /\ \A v \in Vouchers : ~Held(r, v)
        /\ item' = [item EXCEPT ![r] = [v \in Vouchers |->
                       IF item[r][v] = "none" THEN "none" ELSE "cancelled"]]
        /\ run' = [run EXCEPT ![r] = "cancelled"]
        /\ released' = [released EXCEPT ![r] = TRUE]
        /\ Answer(d)
        /\ UNCHANGED <<voucher, closed, bank, byHand>>

\* By id alone; nothing read before it bears on it.
MarkSubmitted(r) ==
    /\ Open(r)
    /\ run' = [run EXCEPT ![r] = "submitted"]
    /\ UNCHANGED <<voucher, item, closed, released, bank, byHand, desk>>

(***************************************************************************)
(* POST /payout-batch/:id/settle and /import-response                      *)
(***************************************************************************)

\* settle up to its last question, "is this run finished?": the lines reported are
\* written and locked, the others are as last committed.
BeginSettle(d, r, reported) ==
    /\ Asks(d) /\ Open(r)
    /\ reported # {} /\ reported \subseteq Lines(r)
    /\ \A v \in reported : ~Held(r, v)
    /\ \E says \in [Vouchers -> LineStatuses] :
          /\ \A v \in Vouchers :
                IF v \in reported THEN says[v] \in Says(bank[r][v]) ELSE says[v] = "none"
          /\ Goto(d, Job("settle", r, reported, says,
                     IsBatchTerminal({IF v \in reported THEN says[v] ELSE item[r][v] :
                                         v \in Lines(r)})))
    /\ UNCHANGED <<voucher, run, item, closed, released, bank, byHand>>

\* A line would become a voucher's second live one: the index refuses it, and the
\* whole settlement with it.
Clashes(d) ==
    \E v \in desk[d].lines, other \in Runs \ {desk[d].run} :
        desk[d].says[v] \in Blocking /\ LiveIn(other, v)

\* Its commit. A paid line moves its voucher only from signed.
CommitSettle(d) ==
    LET r == desk[d].run
        lines == desk[d].lines
        says == desk[d].says
    IN  /\ desk[d].at = "settle"
        /\ IF Clashes(d)
             THEN UNCHANGED <<voucher, run, item, closed, released, byHand>>
             ELSE LET moved == {v \in lines : MarksPaid(says[v]) /\ voucher[v] = "signed"}
                  IN  /\ item' = [item EXCEPT ![r] = [v \in Vouchers |->
                                     IF v \in lines THEN says[v] ELSE item[r][v]]]
                      /\ voucher' = [v \in Vouchers |->
                                       IF v \in moved THEN "paid" ELSE voucher[v]]
                      /\ byHand' = byHand \ moved
                      /\ IF desk[d].closes
                           THEN /\ run' = [run EXCEPT ![r] = "settled"]
                                /\ closed' = [closed EXCEPT ![r] = TRUE]
                           ELSE UNCHANGED <<run, closed>>
        /\ Answer(d)
        /\ UNCHANGED <<released, bank>>

\* A query fails or the process dies: what was committed stays.
Abandon(d) ==
    /\ ~Asks(d)
    /\ Answer(d)
    /\ UNCHANGED <<voucher, run, item, closed, released, bank, byHand>>

(***************************************************************************)
(* Around the runs                                                         *)
(***************************************************************************)

\* The bank (external) answers a line, and may send landed money back later.
BankAnswers(r, v, answer) ==
    /\ \/ bank[r][v] = "asked" /\ answer \in {"landed", "bounced"}
       \/ bank[r][v] = "landed" /\ answer = "back"
    /\ bank' = [bank EXCEPT ![r] = [bank[r] EXCEPT ![v] = answer]]
    /\ UNCHANGED <<voucher, run, item, closed, released, byHand, desk>>

\* PUT /payment-voucher/:id with paid, and with an override back to review; the
\* signatures that follow. None of them looks at payout lines.
MarkPaid(v) ==
    /\ voucher[v] = "signed"
    /\ voucher' = [voucher EXCEPT ![v] = "paid"]
    /\ byHand' = byHand \cup {v}
    /\ UNCHANGED <<run, item, closed, released, bank, desk>>

Reopen(v) ==
    /\ voucher[v] \in {"signed", "paid"}
    /\ voucher' = [voucher EXCEPT ![v] = "review"]
    /\ byHand' = byHand \ {v}
    /\ UNCHANGED <<run, item, closed, released, bank, desk>>

SignAgain(v) ==
    /\ voucher[v] = "review"
    /\ voucher' = [voucher EXCEPT ![v] = "signed"]
    /\ UNCHANGED <<run, item, closed, released, bank, byHand, desk>>

Next ==
    \/ \E d \in Desks :
          \/ \E chosen \in SUBSET Vouchers : ReadCandidates(d, chosen)
          \/ \E r \in Runs :
                \/ ReadExport(d, r)
                \/ ReadCancel(d, r)
                \/ \E lines \in SUBSET Vouchers : BeginSettle(d, r, lines)
          \/ CreateBatch(d) \/ StampExported(d) \/ MarkItemsSent(d) \/ HandOver(d)
          \/ CancelBatch(d) \/ CommitSettle(d) \/ Abandon(d)
    \/ \E r \in Runs : MarkSubmitted(r)
    \/ \E r \in Runs, v \in Vouchers, answer \in Answers : BankAnswers(r, v, answer)
    \/ \E v \in Vouchers : MarkPaid(v) \/ Reopen(v) \/ SignAgain(v)

Spec == Init /\ [][Next]_vars

(***************************************************************************)
(* Properties                                                              *)
(***************************************************************************)

\* Every variable has its type (payment_voucher, payout_batch and
\* payout_batch_item rows, and the locals of the handlers).
TypeOK ==
    /\ voucher \in [Vouchers -> VoucherStatuses]
    /\ run \in [Runs -> RunStatuses]
    /\ item \in [Runs -> [Vouchers -> LineStatuses]]
    /\ closed \in [Runs -> BOOLEAN]
    /\ released \in [Runs -> BOOLEAN]
    /\ bank \in [Runs -> [Vouchers -> Answers]]
    /\ byHand \subseteq Vouchers
    /\ desk \in [Desks -> Jobs]

\* The bank has been asked for the line's money, and has neither refused it nor sent
\* it back.
Out(r, v) == bank[r][v] \in {"asked", "landed"}

\* "ONE LIVE PAYOUT LINE PER VOUCHER", whichever of create and settle writes the
\* second one and however they overlap.
OneLiveLine ==
    \A v \in Vouchers, r, s \in Runs : LiveIn(r, v) /\ LiveIn(s, v) => r = s

\* A voucher's wages are with the bank from two runs at once only when one of the two
\* was cancelled: no order of creating, downloading, settling, retrying a bounced
\* line, re-opening and re-signing sends them out twice (createBatch, exportCsv,
\* settle).
TwiceOnlyByCancel ==
    \A v \in Vouchers, r, s \in Runs :
        Out(r, v) /\ Out(s, v) /\ r # s =>
            item[r][v] = "cancelled" \/ item[s][v] = "cancelled"

\* A voucher is paid by hand, or the bank has landed a line of it: nothing a desk does
\* with a line that was only sent, bounced or released makes its voucher paid (settle).
PaidByBank ==
    \A v \in Vouchers : voucher[v] = "paid" /\ v \notin byHand =>
        \E r \in Runs : bank[r][v] \in {"landed", "back"}

\* "A batch is settled when nothing is still in flight": a run nobody has cancelled gets
\* its settled_at only with every line over, although the question is asked before the
\* commit and other settlements or a download may come between (settle).
ClosesOnlyOver ==
    [][\A r \in Runs : closed'[r] /\ ~closed[r] /\ ~released[r] =>
          \A v \in Vouchers : item'[r][v] \notin {"pending", "sent"}]_vars

\* A line's status and the bank's answer agree.
Fits(s, answer) ==
    /\ s = "paid" => answer \in {"landed", "back"}
    /\ s = "failed" => answer \in {"bounced", "back"}
    /\ s = "returned" => answer = "back"

\* Money that is out is on a line that holds its voucher, unless it was released.
LinesFit ==
    \A r \in Runs, v \in Vouchers :
        /\ Fits(item[r][v], bank[r][v])
        /\ Out(r, v) => item[r][v] \in {"sent", "paid", "cancelled"}
        /\ item[r][v] = "cancelled" => released[r]
        /\ item[r][v] = "none" => bank[r][v] = "none"
        /\ item[r][v] # "none" => Open(r)

\* A file about to leave has no line still pending, and only lines of its run.
FilesReady ==
    \A d \in Desks :
        /\ desk[d].at \in {"stamp", "send", "hand", "cancel", "settle"} =>
              desk[d].run \in Runs /\ Open(desk[d].run)
        /\ desk[d].at \in {"stamp", "send", "hand", "settle"} =>
              \A v \in desk[d].lines : item[desk[d].run][v] # "none"
        /\ desk[d].at = "hand" =>
              \A v \in desk[d].lines : item[desk[d].run][v] # "pending"

\* What a settlement has written agrees with the bank, and no other one has its lines.
SettlesFit ==
    \A d \in Desks : desk[d].at = "settle" =>
        /\ \A v \in desk[d].lines :
              /\ desk[d].says[v] \in Reported
              /\ Fits(desk[d].says[v], bank[desk[d].run][v])
              /\ bank[desk[d].run][v] # "none"
              /\ desk[d].says[v] = "sent" =>
                    item[desk[d].run][v] \in {"pending", "sent", "cancelled"}
        /\ \A e \in Desks : desk[e].at = "settle" /\ desk[e].run = desk[d].run /\ e # d =>
              desk[d].lines \cap desk[e].lines = {}

\* A settlement that will close its run has seen every line over.
ClosesFit ==
    \A d \in Desks :
        desk[d].at = "settle" /\ desk[d].closes /\ ~released[desk[d].run] =>
            \A v \in Vouchers :
                IF v \in desk[d].lines THEN desk[d].says[v] \notin {"pending", "sent"}
                                      ELSE item[desk[d].run][v] \notin {"pending", "sent"}

\* The inductive invariant.
IInv == TypeOK /\ OneLiveLine /\ PaidByBank /\ LinesFit /\ FilesReady /\ SettlesFit /\ ClosesFit

\* A cancelled line "was never sent": it is in no file that has left (cancelBatch,
\* exportCsv).
ReleasedNeverLeft ==
    \A r \in Runs, v \in Vouchers : item[r][v] = "cancelled" => ~Out(r, v)

\* "A batch is settled when nothing is still in flight": a run whose every line the
\* bank has answered for has been closed, once no request is under way (settle).
FinishedIsClosed ==
    (\A d \in Desks : Asks(d)) =>
        \A r \in Runs : Lines(r) # {}
                         /\ (\A v \in Lines(r) : item[r][v] \in {"paid", "failed", "returned"})
                            => closed[r]
====
