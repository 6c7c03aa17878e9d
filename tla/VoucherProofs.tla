---- MODULE VoucherProofs ----
(***************************************************************************)
(* Proofs about one payment voucher, for any number of requests, claims    *)
(* and contents.                                                           *)
(***************************************************************************)
EXTENDS Voucher, TLAPS

\* What a request carries has its type when it starts and when it is answered.
LEMMA JobsTyped ==
    ASSUME TypeOK, status # "gone"
    PROVE  /\ Blank \in Jobs /\ Seen \in Jobs
           /\ \A to \in Statuses \cup {"same"}, rewrite \in BOOLEAN :
                 [Seen EXCEPT !.to = to, !.rewrite = rewrite] \in Jobs
           /\ \A c \in Claims, withdraw \in BOOLEAN :
                 /\ [Seen EXCEPT !.claim = c] \in Jobs
                 /\ [Seen EXCEPT !.claim = c, !.unconditional = withdraw] \in Jobs
  <1>1. Blank \in Jobs
    BY DEF Blank, Jobs, Statuses
  <1>2. status \in Statuses /\ fin \in BOOLEAN
    BY DEF TypeOK
  <1>3. Seen \in Jobs
    BY <1>1, <1>2 DEF Seen, Jobs
  <1> QED
    BY <1>1, <1>3 DEF Jobs

LEMMA BlankTyped == Blank \in Jobs
  BY DEF Blank, Jobs, Statuses

\* A request that starts: the row stays, and the request is as it was asked.
LEMMA Asked ==
    ASSUME IInv, NEW r \in Reqs, NEW place \in Places, NEW asked \in Jobs,
           Ask(r, place, asked),
           place \in {"claims", "put"} =>
              /\ ~LockRefuses(asked.was, asked.fin, asked.to, asked.rewrite)
              /\ ~GateRefuses(asked.was, asked.fin, asked.to),
           place = "claim" => asked.claim \in Claims
    PROVE  IInv' /\ UNCHANGED row
  <1>1. UNCHANGED <<status, fin, prSigned, figures, open, unspent>>
    BY DEF Ask, row
  <1>2. pc' = [pc EXCEPT ![r] = place] /\ job' = [job EXCEPT ![r] = asked]
    BY DEF Ask
  <1>3. TypeOK'
    BY <1>1, <1>2 DEF IInv, TypeOK
  <1>4. SignedForReal' /\ Marked'
    BY <1>1 DEF IInv, SignedForReal, Marked, CounterSigned
  <1>5. PutsAllowed'
    <2> SUFFICES ASSUME NEW q \in Reqs, pc'[q] \in {"claims", "put"}
                 PROVE  /\ ~LockRefuses(job'[q].was, job'[q].fin, job'[q].to, job'[q].rewrite)
                        /\ ~GateRefuses(job'[q].was, job'[q].fin, job'[q].to)
      BY DEF PutsAllowed, LockRefuses, GateRefuses, CounterSigned
    <2>1. CASE q = r
      BY <2>1, <1>2 DEF IInv, TypeOK
    <2>2. CASE q # r
      <3>1. pc'[q] = pc[q] /\ job'[q] = job[q]
        BY <2>2, <1>2 DEF IInv, TypeOK
      <3> QED
        BY <3>1 DEF IInv, PutsAllowed
    <2> QED
      BY <2>1, <2>2
  <1>6. RaisesNamed'
    BY <1>2 DEF IInv, TypeOK, RaisesNamed
  <1> QED
    BY <1>1, <1>3, <1>4, <1>5, <1>6 DEF IInv, row

\* A request that goes on or is answered is no put and no raise it was not before.
LEMMA Moved ==
    ASSUME IInv, NEW r \in Reqs,
           Answer(r) \/ \E place \in Places :
              /\ Goto(r, place)
              /\ place \in {"claims", "put"} => pc[r] \in {"claims", "put"}
              /\ place # "claim"
    PROVE  PutsAllowed' /\ RaisesNamed' /\ pc' \in [Reqs -> Places] /\ job' \in [Reqs -> Jobs]
  <1>1. pc' \in [Reqs -> Places] /\ job' \in [Reqs -> Jobs]
    BY BlankTyped DEF IInv, TypeOK, Answer, Goto, Places
  <1>2. PutsAllowed'
    <2> SUFFICES ASSUME NEW q \in Reqs, pc'[q] \in {"claims", "put"}
                 PROVE  /\ ~LockRefuses(job'[q].was, job'[q].fin, job'[q].to, job'[q].rewrite)
                        /\ ~GateRefuses(job'[q].was, job'[q].fin, job'[q].to)
      BY DEF PutsAllowed, LockRefuses, GateRefuses, CounterSigned
    <2>1. pc[q] \in {"claims", "put"} /\ job'[q] = job[q]
      BY DEF IInv, TypeOK, Answer, Goto
    <2> QED
      BY <2>1 DEF IInv, PutsAllowed
  <1>3. RaisesNamed'
    BY DEF IInv, TypeOK, RaisesNamed, Answer, Goto
  <1> QED
    BY <1>1, <1>2, <1>3

\* A step that ends or moves one request and keeps the row's own facts.
LEMMA RowKept ==
    ASSUME IInv, NEW r \in Reqs,
           Answer(r) \/ \E place \in Places :
              /\ Goto(r, place)
              /\ place \in {"claims", "put"} => pc[r] \in {"claims", "put"}
              /\ place # "claim",
           status' \in Statuses \cup {"gone"}, fin' \in BOOLEAN, prSigned' \in BOOLEAN,
           figures' \in Figures, open' \subseteq Claims, unspent' \in BOOLEAN,
           SignedForReal', Marked'
    PROVE  IInv'
  BY Moved DEF IInv, TypeOK

LEMMA InitInv == Init => IInv
  <1> SUFFICES ASSUME Init PROVE IInv
    OBVIOUS
  <1>1. TypeOK
    BY BlankTyped DEF Init, TypeOK, Statuses, Places
  <1> QED
    BY <1>1 DEF Init, IInv, SignedForReal, Marked, PutsAllowed, RaisesNamed, CounterSigned

\* A PUT that is carried out ends in a state its lock allows.
LEMMA PutInv == ASSUME IInv, NEW r \in Reqs, WritePut(r) PROVE IInv'
  <1> DEFINE j == job[r]
  <1>0. /\ j.was \in Statuses /\ j.to \in Statuses \cup {"same"}
        /\ j.fin \in BOOLEAN /\ j.rewrite \in BOOLEAN
    BY DEF IInv, TypeOK, Jobs
  <1>1. ~LockRefuses(j.was, j.fin, j.to, j.rewrite) /\ ~GateRefuses(j.was, j.fin, j.to)
    BY DEF IInv, PutsAllowed, WritePut
  <1>2. Answer(r)
    BY DEF WritePut
  <1>3. CASE ~StillAs(r)
    BY <1>2, <1>3, RowKept
       DEF WritePut, IInv, TypeOK, SignedForReal, Marked, CounterSigned
  <1>4. CASE StillAs(r)
    <2>1. /\ status = j.was
          /\ status' = IF j.to = "same" THEN status ELSE j.to
          /\ figures' \in Figures
          /\ open' = open
      BY <1>4 DEF WritePut, StillAs, IInv, TypeOK
    <2>2. fin' \in BOOLEAN /\ prSigned' \in BOOLEAN /\ unspent' \in BOOLEAN
      BY <1>4 DEF WritePut, IInv, TypeOK
    <2>3. status' \in Statuses \cup {"gone"}
      BY <2>1, <1>0
    <2>4. SignedForReal'
      <3> SUFFICES ASSUME status' = "signed" PROVE unspent'
        BY DEF SignedForReal
      <3>1. j.was = "signed" /\ j.to \in {"same", "signed"}
        BY <1>1, <2>1 DEF GateRefuses
      <3>2. ~Override(j.was, j.to) /\ ~Pays(j.was, j.to)
        BY <3>1 DEF Override, Pays
      <3>3. unspent' = (unspent /\ ~Pays(j.was, j.to))
        BY <1>4, <3>2 DEF WritePut
      <3> QED
        BY <3>1, <3>2, <3>3, <2>1 DEF IInv, SignedForReal
    <2>5. Marked'
      <3> SUFFICES ASSUME status' \in {"signed", "paid"} PROVE prSigned'
        BY DEF Marked, CounterSigned
      <3>1. j.was \in {"signed", "paid"}
        BY <1>1, <2>1 DEF GateRefuses, CounterSigned
      <3>2. ~Override(j.was, j.to)
        BY <2>1 DEF Override
      <3>3. prSigned' = prSigned
        BY <1>4, <3>2 DEF WritePut
      <3> QED
        BY <3>1, <3>3, <2>1 DEF IInv, Marked, CounterSigned
    <2> QED
      BY <1>2, <2>1, <2>2, <2>3, <2>4, <2>5, RowKept DEF IInv, TypeOK
  <1> QED
    BY <1>3, <1>4

\* The steps that ask: the row stays.
AskSteps(r) ==
    \/ \E to \in Statuses \cup {"same"}, rewrite \in BOOLEAN : AskPut(r, to, rewrite)
    \/ \E c \in Claims : AskRaise(r, c) \/ \E withdraw \in BOOLEAN : AskClose(r, c, withdraw)
    \/ AskFinance(r) \/ AskSign(r) \/ AskLine(r) \/ AskIssue(r) \/ AskRemove(r)

LEMMA AskInv == ASSUME IInv, NEW r \in Reqs, AskSteps(r) PROVE IInv' /\ UNCHANGED row
  <1>0. status # "gone"
    BY DEF AskSteps, AskPut, AskRaise, AskClose, AskFinance, AskSign, AskLine, AskIssue,
           AskRemove, Ask
  <1>1. Seen \in Jobs
    BY <1>0, JobsTyped DEF IInv
  <1>2. ASSUME NEW to \in Statuses \cup {"same"}, NEW rewrite \in BOOLEAN, AskPut(r, to, rewrite)
        PROVE  IInv' /\ UNCHANGED row
    <2> DEFINE asked == [Seen EXCEPT !.to = to, !.rewrite = rewrite]
    <2>1. asked \in Jobs
      BY <1>0, JobsTyped DEF IInv
    <2>2. asked.was = status /\ asked.fin = fin /\ asked.to = to /\ asked.rewrite = rewrite
      BY DEF Seen, Blank
    <2>3. ~LockRefuses(status, fin, to, rewrite) /\ ~GateRefuses(status, fin, to)
      BY <1>2 DEF AskPut
    <2>4. Ask(r, "claims", asked) \/ Ask(r, "put", asked)
      BY <1>2 DEF AskPut
    <2> QED
      <3> HIDE DEF asked
      <3> QED BY <2>1, <2>2, <2>3, <2>4, Asked DEF Places
  <1>3. ASSUME NEW c \in Claims, AskRaise(r, c) PROVE IInv' /\ UNCHANGED row
    <2>1. [Seen EXCEPT !.claim = c] \in Jobs
      BY <1>0, JobsTyped DEF IInv
    <2>2. [Seen EXCEPT !.claim = c].claim = c
      BY DEF Seen, Blank
    <2> QED
      BY <2>1, <2>2, <1>3, Asked DEF AskRaise, Places
  <1>4. ASSUME NEW c \in Claims, NEW withdraw \in BOOLEAN, AskClose(r, c, withdraw)
        PROVE  IInv' /\ UNCHANGED row
    <2>1. [Seen EXCEPT !.claim = c, !.unconditional = withdraw] \in Jobs
      BY <1>0, JobsTyped DEF IInv
    <2> QED
      BY <2>1, <1>4, Asked DEF AskClose, Places
  <1>5. CASE AskFinance(r)
    BY <1>1, <1>5, Asked DEF AskFinance, Places
  <1>6. CASE AskSign(r)
    BY <1>1, <1>6, Asked DEF AskSign, Places
  <1>7. CASE AskLine(r)
    BY <1>1, <1>7, Asked DEF AskLine, Places
  <1>8. CASE AskIssue(r)
    BY <1>1, <1>8, Asked DEF AskIssue, Places
  <1>9. CASE AskRemove(r)
    BY <1>1, <1>9, Asked DEF AskRemove, Places
  <1> QED
    BY <1>2, <1>3, <1>4, <1>5, <1>6, <1>7, <1>8, <1>9 DEF AskSteps

\* Steps that carry on a request; WritePut has a lemma of its own.
CarrySteps(r) ==
    \/ CheckClaims(r) \/ WriteFinance(r) \/ WriteSign(r)
    \/ InsertClaim(r) \/ WriteDisputed(r)
    \/ CloseClaim(r) \/ CountClaims(r) \/ WriteReturn(r)
    \/ WriteLine(r) \/ WriteIssue(r) \/ WriteRemove(r) \/ Abandon(r)

LEMMA CarryInv == ASSUME IInv, NEW r \in Reqs, CarrySteps(r) PROVE IInv'
  <1> USE RowKept DEF IInv, TypeOK, SignedForReal, Marked, CounterSigned
  <1>1. CASE CheckClaims(r)
    BY <1>1 DEF CheckClaims, row, Places
  <1>2. CASE WriteFinance(r)
    BY <1>2 DEF WriteFinance
  <1>3. CASE WriteSign(r)
    BY <1>3 DEF WriteSign, SetById, Statuses
  <1>4. CASE InsertClaim(r)
    <2>1. open' \subseteq Claims
      <3>1. job[r].claim \in Claims
        BY <1>4 DEF InsertClaim, RaisesNamed
      <3> QED
        BY <1>4, <3>1 DEF InsertClaim
    <2> QED
      BY <1>4, <2>1 DEF InsertClaim, Places
  <1>5. CASE WriteDisputed(r)
    BY <1>5 DEF WriteDisputed, SetById, Statuses
  <1>6. CASE CloseClaim(r)
    BY <1>6 DEF CloseClaim, Places
  <1>7. CASE CountClaims(r)
    BY <1>7 DEF CountClaims, row, Places
  <1>8. CASE WriteReturn(r)
    BY <1>8 DEF WriteReturn, SetById, Statuses
  <1>9. CASE WriteLine(r)
    BY <1>9 DEF WriteLine
  <1>10. CASE WriteIssue(r)
    BY <1>10 DEF WriteIssue, SetById, Statuses
  <1>11. CASE WriteRemove(r)
    BY <1>11 DEF WriteRemove
  <1>12. CASE Abandon(r)
    BY <1>12 DEF Abandon, row
  <1> QED
    BY <1>1, <1>2, <1>3, <1>4, <1>5, <1>6, <1>7, <1>8, <1>9, <1>10, <1>11, <1>12
       DEF CarrySteps

LEMMA NextSplits ==
    Next <=> \/ \E r \in Reqs : AskSteps(r) \/ WritePut(r) \/ CarrySteps(r)
             \/ SealWage \/ SettleItem
  BY DEF Next, AskSteps, CarrySteps

LEMMA StepInv == IInv /\ [Next]_vars => IInv'
  <1> SUFFICES ASSUME IInv, [Next]_vars PROVE IInv'
    OBVIOUS
  <1>1. ASSUME NEW r \in Reqs, AskSteps(r) \/ WritePut(r) \/ CarrySteps(r) PROVE IInv'
    BY <1>1, AskInv, PutInv, CarryInv
  <1>2. ASSUME UNCHANGED <<pc, job>>,
               status' \in Statuses \cup {"gone"}, fin' \in BOOLEAN, prSigned' \in BOOLEAN,
               figures' \in Figures, open' \subseteq Claims, unspent' \in BOOLEAN,
               SignedForReal', Marked'
        PROVE  IInv'
    BY <1>2 DEF IInv, TypeOK, PutsAllowed, RaisesNamed, LockRefuses, GateRefuses,
                CounterSigned
  <1>3. CASE SealWage
    BY <1>2, <1>3
       DEF SealWage, IInv, TypeOK, SignedForReal, Marked, CounterSigned
  <1>4. CASE SettleItem
    BY <1>2, <1>4
       DEF SettleItem, IInv, TypeOK, SignedForReal, Marked, CounterSigned, Statuses
  <1>5. CASE UNCHANGED vars
    BY <1>2, <1>5
       DEF vars, IInv, TypeOK, SignedForReal, Marked, CounterSigned
  <1> QED
    BY <1>1, <1>3, <1>4, <1>5, NextSplits

\* The mark, the status and what a PUT carries stay together, in every state.
THEOREM InvariantHolds == Spec => []IInv
  BY InitInv, StepInv, PTL DEF Spec

\* Every reachable state is well typed.
THEOREM TypeCorrect == Spec => []TypeOK
  <1>1. IInv => TypeOK
    BY DEF IInv
  <1> QED
    BY <1>1, InvariantHolds, PTL

\* A voucher becomes paid only on a counter-signature no payment or override has
\* used: by hand, because the PUT is carried out at the status it was judged at
\* and only a signed one may be paid; by a run, because the update asks for it.
THEOREM PaymentsBacked == Spec => EachPaymentBacked
  <1>1. IInv /\ [Next]_vars => [status' = "paid" /\ status # "paid" => unspent]_vars
    <2> SUFFICES ASSUME IInv, Next, status' = "paid", status # "paid" PROVE unspent
      BY DEF vars
    <2>1. status = "signed"
      <3>1. ASSUME NEW r \in Reqs, WritePut(r) PROVE status = "signed"
        <4>1. StillAs(r) /\ job[r].to = "paid"
          BY <3>1 DEF WritePut
        <4>2. ~GateRefuses(job[r].was, job[r].fin, job[r].to)
          BY <3>1 DEF WritePut, IInv, PutsAllowed
        <4> QED
          BY <4>1, <4>2 DEF StillAs, GateRefuses, CounterSigned
      <3>2. ASSUME NEW r \in Reqs, AskSteps(r) PROVE FALSE
        BY <3>2, AskInv DEF row
      <3>3. ASSUME NEW r \in Reqs, CarrySteps(r) PROVE FALSE
        BY <3>3 DEF CarrySteps, CheckClaims, WriteFinance, WriteSign, InsertClaim,
                    WriteDisputed, CloseClaim, CountClaims, WriteReturn, WriteLine,
                    WriteIssue, WriteRemove, Abandon, SetById, row
      <3> QED
        BY <3>1, <3>2, <3>3, NextSplits DEF SealWage, SettleItem
    <2> QED
      BY <2>1 DEF IInv, SignedForReal
  <1> QED
    BY <1>1, InvariantHolds, PTL DEF Spec, EachPaymentBacked

\* Only a line write under way changes a counter-signed voucher and nothing deletes
\* it: a rewrite is carried out at the status it was judged at, where the lock
\* refused it.
THEOREM AgreedStaysLocked == Spec => AgreedIsLocked
  <1>1. IInv /\ [Next]_vars =>
           [CounterSigned(status) /\ (figures' # figures \/ status' = "gone") =>
               \E r \in Reqs : pc[r] = "line" /\ pc'[r] = "idle"]_vars
    <2> SUFFICES ASSUME IInv, Next, CounterSigned(status), figures' # figures \/ status' = "gone"
                 PROVE  \E r \in Reqs : pc[r] = "line" /\ pc'[r] = "idle"
      BY DEF vars
    <2>1. ASSUME NEW r \in Reqs, WritePut(r) PROVE FALSE
      <3>0. status # "gone" /\ job[r].to # "gone"
        BY <2>1 DEF IInv, TypeOK, Jobs, Statuses, CounterSigned
      <3>1. StillAs(r) /\ job[r].rewrite
        BY <2>1, <3>0 DEF WritePut
      <3>2. ~LockRefuses(job[r].was, job[r].fin, job[r].to, job[r].rewrite)
        BY <2>1 DEF WritePut, IInv, PutsAllowed
      <3> QED
        BY <3>1, <3>2 DEF StillAs, LockRefuses
    <2>2. ASSUME NEW r \in Reqs, AskSteps(r) PROVE FALSE
      BY <2>2, AskInv DEF row, CounterSigned
    <2>3. ASSUME NEW r \in Reqs, CarrySteps(r) PROVE pc[r] = "line" /\ pc'[r] = "idle"
      <3>1. WriteLine(r)
        BY <2>3 DEF CarrySteps, CheckClaims, WriteFinance, WriteSign, InsertClaim,
                    WriteDisputed, CloseClaim, CountClaims, WriteReturn,
                    WriteIssue, WriteRemove, Abandon, SetById, CounterSigned, row
      <3> QED
        BY <3>1 DEF WriteLine, Answer, IInv, TypeOK
    <2>4. ~SealWage /\ ~SettleItem
      BY DEF SealWage, SettleItem, CounterSigned, OpenWeek
    <2> QED
      BY <2>1, <2>2, <2>3, <2>4, NextSplits
  <1> QED
    BY <1>1, InvariantHolds, PTL DEF Spec, AgreedIsLocked
====
