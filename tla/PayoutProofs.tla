---- MODULE PayoutProofs ----
(***************************************************************************)
(* Proofs about Payout, for any vouchers, runs and desks. The inductive    *)
(* invariant says what each half-finished request may rely on: a file      *)
(* about to leave has no line a cancellation could still take, and a       *)
(* settlement agrees with the bank on every line it holds.                 *)
(***************************************************************************)
EXTENDS Payout, TLAPS

\* The actions in which only the request moves.
LEMMA Reads ==
    ASSUME IInv, NEW d \in Desks, NEW job \in Jobs,
           Goto(d, job), job.at \notin {"settle", "hand"},
           job.at \in {"stamp", "send", "cancel"} => job.run \in Runs /\ Open(job.run),
           job.at \in {"stamp", "send"} => \A v \in job.lines : item[job.run][v] # "none",
           UNCHANGED <<voucher, run, item, closed, released, bank, byHand>>
    PROVE  IInv'
<1>1. \A e \in Desks : desk'[e] = IF e = d THEN job ELSE desk[e]
  BY DEF IInv, TypeOK, Goto
<1>2. TypeOK'
  BY DEF IInv, TypeOK, Goto
<1>3. OneLiveLine' /\ PaidByBank' /\ LinesFit'
  BY DEF IInv, OneLiveLine, PaidByBank, LinesFit, LiveIn, Out, Open
<1>4. FilesReady'
  BY <1>1 DEF IInv, FilesReady, Open
<1>5. SettlesFit'
  BY <1>1 DEF IInv, SettlesFit
<1>6. ClosesFit'
  BY <1>1 DEF IInv, ClosesFit
<1> QED
  BY <1>2, <1>3, <1>4, <1>5, <1>6 DEF IInv

\* What a request can hold.
LEMMA JobTypes ==
    /\ Idle \in Jobs
    /\ \A at \in Places, r \in Runs \cup {None}, lines \in SUBSET Vouchers,
          says \in [Vouchers -> LineStatuses], closes \in BOOLEAN :
              Job(at, r, lines, says, closes) \in Jobs
    /\ NoSay \in [Vouchers -> LineStatuses]
  BY DEF Idle, Job, Jobs, NoSay, Places, LineStatuses

\* A request that answers without touching a row.
LEMMA JustAnswers ==
    ASSUME IInv, NEW d \in Desks, Answer(d),
           UNCHANGED <<voucher, run, item, closed, released, bank, byHand>>
    PROVE  IInv'
  BY JobTypes, Reads DEF Answer, Idle, Job

LEMMA CreateKeeps ==
    ASSUME IInv, NEW d \in Desks, CreateBatch(d)
    PROVE  IInv'
<1>1. CASE \E v \in desk[d].lines : AlreadyBatched(v)
  BY <1>1, JustAnswers DEF CreateBatch
<1>2. CASE ~ \E v \in desk[d].lines : AlreadyBatched(v)
  <2>1. PICK r \in Runs : run[r] = "free" /\ Gather(d, r)
    BY <1>2 DEF CreateBatch
  <2>2. /\ UNCHANGED <<voucher, closed, released, bank, byHand>>
        /\ \A e \in Desks : desk'[e] = IF e = d THEN Idle ELSE desk[e]
        /\ desk' \in [Desks -> Jobs]
    BY <1>2, JobTypes DEF CreateBatch, Answer, Goto, IInv, TypeOK
  <2>3. /\ run' \in [Runs -> RunStatuses] /\ item' \in [Runs -> [Vouchers -> LineStatuses]]
        /\ \A s \in Runs : run'[s] = IF s = r THEN "draft" ELSE run[s]
        /\ \A s \in Runs, v \in Vouchers :
              item'[s][v] = IF s = r THEN (IF v \in desk[d].lines THEN "pending" ELSE "none")
                                     ELSE item[s][v]
    BY <2>1 DEF Gather, IInv, TypeOK, RunStatuses, LineStatuses
  <2>4. \A v \in Vouchers : item[r][v] = "none" /\ bank[r][v] = "none"
    BY <2>1 DEF IInv, LinesFit, Open
  <2>5. \A v \in desk[d].lines, s \in Runs : item[s][v] \notin Blocking
    BY <1>2 DEF AlreadyBatched, LiveIn
  <2>6. TypeOK'
    BY <2>2, <2>3 DEF IInv, TypeOK
  <2>7. OneLiveLine'
    BY <2>3, <2>4, <2>5 DEF IInv, OneLiveLine, LiveIn, Blocking
  <2>8. PaidByBank'
    BY <2>2 DEF IInv, PaidByBank
  <2>lines. LinesFit'
    <3> SUFFICES ASSUME NEW s \in Runs, NEW v \in Vouchers
                 PROVE  LinesFit!(s, v)'
      BY DEF LinesFit
    <3>1. CASE s = r
      BY <3>1, <2>2, <2>3, <2>4 DEF Fits, Out, Open
    <3>2. CASE s # r
      <4>1. item'[s][v] = item[s][v] /\ bank' = bank /\ run'[s] = run[s] /\ released' = released
        BY <3>2, <2>2, <2>3
      <4> QED
        BY <4>1 DEF IInv, LinesFit, Fits, Out, Open
    <3> QED
      BY <3>1, <3>2
  <2>9. \A e \in Desks : desk[e].at \in {"stamp", "send", "hand", "cancel", "settle"} =>
                            desk[e].run # r
    BY <2>1 DEF IInv, FilesReady, Open
  <2>10. FilesReady'
    BY <2>2, <2>3, <2>9 DEF IInv, FilesReady, Open, Idle, Job, TypeOK, Jobs
  <2>11. \A e \in Desks : desk'[e].at = "settle" =>
            /\ desk'[e] = desk[e] /\ desk[e].run \in Runs \ {r}
            /\ desk[e].lines \subseteq Vouchers
    BY <2>2, <2>9 DEF IInv, FilesReady, Idle, Job, TypeOK, Jobs
  <2>same. \A e \in Desks : desk'[e].at = "settle" =>
              \A v \in Vouchers : item'[desk[e].run][v] = item[desk[e].run][v]
    BY <2>3, <2>11
  <2>12. SettlesFit'
    BY <2>2, <2>same, <2>11 DEF IInv, SettlesFit
  <2>13. ClosesFit'
    BY <2>2, <2>same, <2>11 DEF IInv, ClosesFit
  <2> QED
    BY <2>6, <2>7, <2>8, <2>lines, <2>10, <2>12, <2>13 DEF IInv
<1> QED
  BY <1>1, <1>2

\* A run's status alone moves, and stays open: StampExported, MarkSubmitted.
LEMMA RunMoves ==
    ASSUME IInv, NEW r \in Runs, Open(r), NEW s \in RunStatuses, s # "free",
           run' = [run EXCEPT ![r] = s],
           UNCHANGED <<voucher, item, closed, released, bank, byHand>>,
           desk' \in [Desks -> Jobs],
           \A d \in Desks :
              \/ desk'[d] = desk[d]
              \/ /\ desk[d].at = "stamp" /\ desk'[d].at = "send"
                 /\ desk'[d].run = desk[d].run /\ desk'[d].lines = desk[d].lines
    PROVE  IInv'
<1>1. \A t \in Runs : Open(t) => Open(t)'
  BY DEF IInv, TypeOK, Open
<1>2. TypeOK'
  BY DEF IInv, TypeOK
<1>3. OneLiveLine' /\ PaidByBank'
  BY DEF IInv, OneLiveLine, PaidByBank, LiveIn
<1>4. LinesFit'
  BY <1>1 DEF IInv, LinesFit, Out
<1>5. FilesReady'
  BY <1>1 DEF IInv, FilesReady
<1>6. SettlesFit' /\ ClosesFit'
  <2>1. \A d \in Desks : desk'[d].at = "settle" => desk'[d] = desk[d]
    OBVIOUS
  <2>2. SettlesFit'
    BY <2>1 DEF IInv, SettlesFit
  <2>3. ClosesFit'
    BY <2>1 DEF IInv, ClosesFit
  <2> QED
    BY <2>2, <2>3
<1> QED
  BY <1>2, <1>3, <1>4, <1>5, <1>6 DEF IInv

LEMMA StampKeeps ==
    ASSUME IInv, NEW d \in Desks, StampExported(d)
    PROVE  IInv'
<1>1. desk[d].at = "stamp" /\ desk[d].run \in Runs /\ Open(desk[d].run)
  BY DEF StampExported, IInv, FilesReady
<1>2. Job("send", desk[d].run, desk[d].lines, NoSay, FALSE) \in Jobs
  BY <1>1, JobTypes DEF IInv, TypeOK, Jobs, Places
<1>3. /\ \A e \in Desks : desk'[e] = IF e = d THEN Job("send", desk[d].run, desk[d].lines, NoSay, FALSE)
                                              ELSE desk[e]
      /\ desk' \in [Desks -> Jobs]
  BY <1>2 DEF StampExported, Goto, IInv, TypeOK
<1>4. \A e \in Desks :
          \/ desk'[e] = desk[e]
          \/ /\ desk[e].at = "stamp" /\ desk'[e].at = "send"
             /\ desk'[e].run = desk[e].run /\ desk'[e].lines = desk[e].lines
  BY <1>1, <1>3 DEF Job
<1> QED
  BY <1>1, <1>3, <1>4, RunMoves DEF StampExported, RunStatuses

LEMMA SubmittedKeeps ==
    ASSUME IInv, NEW r \in Runs, MarkSubmitted(r)
    PROVE  IInv'
  BY RunMoves DEF MarkSubmitted, RunStatuses, IInv, TypeOK

\* Lines of one run go from pending to sent, and its file is ready.
LEMMA SentKeeps ==
    ASSUME IInv, NEW d \in Desks, MarkItemsSent(d)
    PROVE  IInv'
<1> DEFINE r == desk[d].run
<1>1. desk[d].at = "send" /\ r \in Runs /\ Open(r)
  BY DEF MarkItemsSent, IInv, FilesReady
<1>2. /\ UNCHANGED <<voucher, run, closed, released, bank, byHand>>
      /\ \A v \in Vouchers : item[r][v] = "pending" => ~Held(r, v)
  BY DEF MarkItemsSent
<1>3. /\ item' \in [Runs -> [Vouchers -> LineStatuses]]
      /\ \A s \in Runs, v \in Vouchers :
            item'[s][v] = IF s = r /\ item[s][v] = "pending" THEN "sent" ELSE item[s][v]
  BY <1>1 DEF MarkItemsSent, IInv, TypeOK, LineStatuses, Reported
<1>4. Job("hand", r, desk[d].lines, NoSay, FALSE) \in Jobs
  BY <1>1, JobTypes DEF IInv, TypeOK, Jobs, Places
<1>5. /\ \A e \in Desks : desk'[e] = IF e = d THEN Job("hand", r, desk[d].lines, NoSay, FALSE)
                                              ELSE desk[e]
      /\ desk' \in [Desks -> Jobs]
  BY <1>4 DEF MarkItemsSent, Goto, IInv, TypeOK
<1>6. TypeOK'
  BY <1>2, <1>3, <1>5 DEF IInv, TypeOK
<1>7. OneLiveLine'
  <2>1. \A s \in Runs, v \in Vouchers : LiveIn(s, v)' <=> LiveIn(s, v)
    BY <1>3 DEF LiveIn, Blocking
  <2> QED
    BY <2>1 DEF IInv, OneLiveLine
<1>8. PaidByBank'
  BY <1>2 DEF IInv, PaidByBank
<1>9. LinesFit'
  BY <1>2, <1>3 DEF IInv, LinesFit, Fits, Out, Open
<1>10. FilesReady'
  <2>1. \A e \in Desks : desk[e].lines \subseteq Vouchers
    BY DEF IInv, TypeOK, Jobs
  <2>2. \A v \in desk[d].lines : item'[r][v] \notin {"none", "pending"}
    BY <2>1, <1>1, <1>3 DEF IInv, FilesReady
  <2>3. ASSUME NEW e \in Desks, e # d
        PROVE  FilesReady!(e)'
    <3>1. desk'[e] = desk[e] /\ run' = run
      BY <2>3, <1>2, <1>5
    <3>2. \A s \in Runs, v \in Vouchers :
             /\ item[s][v] # "none" => item'[s][v] # "none"
             /\ item[s][v] # "pending" => item'[s][v] # "pending"
      BY <1>3
    <3> QED
      BY <2>1, <3>1, <3>2 DEF IInv, FilesReady, Open
  <2>4. FilesReady!(d)'
    BY <2>2, <1>1, <1>2, <1>5 DEF Job, Open
  <2> QED
    BY <2>3, <2>4 DEF FilesReady
<1>11. \A e \in Desks : desk'[e].at = "settle" =>
          /\ desk'[e] = desk[e] /\ desk[e].run \in Runs /\ desk[e].lines \subseteq Vouchers
  BY <1>5 DEF Job, IInv, FilesReady, TypeOK, Jobs
<1>12. SettlesFit'
  BY <1>2, <1>3, <1>11 DEF IInv, SettlesFit
<1>13. ClosesFit'
  BY <1>2, <1>3, <1>11 DEF IInv, ClosesFit
<1> QED
  BY <1>6, <1>7, <1>8, <1>9, <1>10, <1>12, <1>13 DEF IInv

\* The file leaves: its lines hold their vouchers or were released.
LEMMA HandKeeps ==
    ASSUME IInv, NEW d \in Desks, HandOver(d)
    PROVE  IInv'
<1> DEFINE r == desk[d].run
<1>1. /\ desk[d].at = "hand" /\ r \in Runs /\ Open(r) /\ desk[d].lines \subseteq Vouchers
      /\ \A v \in desk[d].lines : item[r][v] \notin {"none", "pending"}
  BY DEF HandOver, IInv, FilesReady, TypeOK, Jobs
<1>2. UNCHANGED <<voucher, run, item, closed, released, byHand>>
  BY DEF HandOver
<1>3. /\ bank' \in [Runs -> [Vouchers -> Answers]]
      /\ \A s \in Runs, v \in Vouchers :
            bank'[s][v] = IF s = r /\ v \in desk[d].lines /\ bank[s][v] = "none"
                            THEN "asked" ELSE bank[s][v]
  BY <1>1 DEF HandOver, IInv, TypeOK, Answers
<1>4. /\ \A e \in Desks : desk'[e] = IF e = d THEN Idle ELSE desk[e]
      /\ desk' \in [Desks -> Jobs]
  BY JobTypes DEF HandOver, Answer, Goto, IInv, TypeOK
<1>5. TypeOK'
  BY <1>2, <1>3, <1>4 DEF IInv, TypeOK
<1>6. OneLiveLine'
  BY <1>2 DEF IInv, OneLiveLine, LiveIn
<1>7. PaidByBank'
  BY <1>2, <1>3 DEF IInv, PaidByBank
<1>8. LinesFit'
  <2> SUFFICES ASSUME NEW s \in Runs, NEW v \in Vouchers
               PROVE  LinesFit!(s, v)'
    BY DEF LinesFit
  <2>1. LinesFit!(s, v)
    BY DEF IInv, LinesFit
  <2>2. CASE s = r /\ v \in desk[d].lines /\ bank[s][v] = "none"
    <3>1. item'[s][v] = item[s][v] /\ bank'[s][v] = "asked" /\ item[s][v] \notin {"none", "pending"}
      BY <2>2, <1>1, <1>2, <1>3
    <3>2. item[s][v] \in LineStatuses
      BY DEF IInv, TypeOK
    <3> QED
      BY <2>1, <2>2, <3>1, <3>2, <1>2 DEF Fits, Out, Open, LineStatuses, Reported
  <2>3. CASE ~(s = r /\ v \in desk[d].lines /\ bank[s][v] = "none")
    BY <2>1, <2>3, <1>2, <1>3 DEF Fits, Out, Open
  <2> QED
    BY <2>2, <2>3
<1>9. FilesReady'
  BY <1>2, <1>4 DEF IInv, FilesReady, Open, Idle, Job
<1>10. \A e \in Desks : desk'[e].at = "settle" =>
          /\ desk'[e] = desk[e] /\ desk[e].run \in Runs /\ desk[e].lines \subseteq Vouchers
  BY <1>4 DEF Idle, Job, IInv, FilesReady, TypeOK, Jobs
<1>11. SettlesFit'
  <2>1. \A s \in Runs, v \in Vouchers : bank[s][v] # "none" => bank'[s][v] = bank[s][v]
    BY <1>3
  <2> QED
    BY <2>1, <1>2, <1>10 DEF IInv, SettlesFit
<1>12. ClosesFit'
  BY <1>2, <1>10 DEF IInv, ClosesFit
<1> QED
  BY <1>5, <1>6, <1>7, <1>8, <1>9, <1>11, <1>12 DEF IInv

\* Every line of the run is released, none of them under a settlement.
LEMMA CancelKeeps ==
    ASSUME IInv, NEW d \in Desks, CancelBatch(d)
    PROVE  IInv'
<1> DEFINE r == desk[d].run
<1>1. /\ desk[d].at = "cancel" /\ r \in Runs /\ Open(r)
      /\ \A v \in Vouchers : ~Held(r, v)
  BY DEF CancelBatch, IInv, FilesReady
<1>2. UNCHANGED <<voucher, closed, bank, byHand>>
  BY DEF CancelBatch
<1>3. /\ item' \in [Runs -> [Vouchers -> LineStatuses]]
      /\ \A s \in Runs, v \in Vouchers :
            item'[s][v] = IF s = r /\ item[s][v] # "none" THEN "cancelled" ELSE item[s][v]
  BY <1>1 DEF CancelBatch, IInv, TypeOK, LineStatuses
<1>4. /\ run' \in [Runs -> RunStatuses] /\ released' \in [Runs -> BOOLEAN]
      /\ \A s \in Runs : run'[s] = IF s = r THEN "cancelled" ELSE run[s]
      /\ \A s \in Runs : released'[s] = IF s = r THEN TRUE ELSE released[s]
  BY <1>1 DEF CancelBatch, IInv, TypeOK, RunStatuses
<1>5. /\ \A e \in Desks : desk'[e] = IF e = d THEN Idle ELSE desk[e]
      /\ desk' \in [Desks -> Jobs]
  BY JobTypes DEF CancelBatch, Answer, Goto, IInv, TypeOK
<1>6. TypeOK'
  BY <1>2, <1>3, <1>4, <1>5 DEF IInv, TypeOK
<1>7. OneLiveLine'
  <2>1. \A s \in Runs, v \in Vouchers : LiveIn(s, v)' => LiveIn(s, v)
    BY <1>3 DEF LiveIn, Blocking
  <2> QED
    BY <2>1 DEF IInv, OneLiveLine
<1>8. PaidByBank'
  BY <1>2 DEF IInv, PaidByBank
<1>9. LinesFit'
  <2> SUFFICES ASSUME NEW s \in Runs, NEW v \in Vouchers
               PROVE  LinesFit!(s, v)'
    BY DEF LinesFit
  <2>1. LinesFit!(s, v)
    BY DEF IInv, LinesFit
  <2>2. CASE s = r
    <3>1. /\ item'[s][v] = IF item[s][v] # "none" THEN "cancelled" ELSE "none"
          /\ bank' = bank /\ run'[s] = "cancelled" /\ released'[s] = TRUE
      BY <2>2, <1>2, <1>3, <1>4
    <3> QED
      BY <2>1, <3>1 DEF Fits, Out, Open
  <2>3. CASE s # r
    <3>1. item'[s][v] = item[s][v] /\ bank' = bank /\ run'[s] = run[s] /\ released'[s] = released[s]
      BY <2>3, <1>2, <1>3, <1>4
    <3> QED
      BY <2>1, <3>1 DEF Fits, Out, Open
  <2> QED
    BY <2>2, <2>3
<1>10. FilesReady'
  <2>1. \A e \in Desks : desk[e].lines \subseteq Vouchers
    BY DEF IInv, TypeOK, Jobs
  <2>2. \A s \in Runs, v \in Vouchers :
             /\ item[s][v] # "none" => item'[s][v] # "none"
             /\ item[s][v] # "pending" => item'[s][v] # "pending"
    BY <1>3
  <2>3. \A s \in Runs : Open(s) => Open(s)'
    BY <1>4 DEF Open
  <2>4. \A e \in Desks : e # d => FilesReady!(e)'
    BY <2>1, <2>2, <2>3, <1>5 DEF IInv, FilesReady
  <2>5. FilesReady!(d)'
    BY <1>5 DEF Idle, Job
  <2> QED
    BY <2>4, <2>5 DEF FilesReady
<1>11. \A e \in Desks : desk'[e].at = "settle" =>
          /\ desk'[e] = desk[e] /\ desk[e].run \in Runs /\ desk[e].lines \subseteq Vouchers
          /\ desk[e].run = r => desk[e].lines = {}
  BY <1>1, <1>5 DEF Idle, Job, IInv, FilesReady, TypeOK, Jobs, Held
<1>12. SettlesFit'
  BY <1>2, <1>3, <1>11 DEF IInv, SettlesFit
<1>13. ClosesFit'
  <2> SUFFICES ASSUME NEW e \in Desks, desk'[e].at = "settle", ~released'[desk'[e].run]
               PROVE  ClosesFit!(e)'
    BY DEF ClosesFit
  <2>1. desk'[e] = desk[e] /\ desk[e].run \in Runs /\ desk[e].run # r
    BY <1>4, <1>11
  <2>2. /\ released'[desk[e].run] = released[desk[e].run]
        /\ \A v \in Vouchers : item'[desk[e].run][v] = item[desk[e].run][v]
    BY <2>1, <1>3, <1>4
  <2> QED
    BY <2>1, <2>2 DEF IInv, ClosesFit
<1> QED
  BY <1>6, <1>7, <1>8, <1>9, <1>10, <1>12, <1>13 DEF IInv

\* The lines a settlement takes are nobody else's, and what it says of them is so.
LEMMA BeginKeeps ==
    ASSUME IInv, NEW d \in Desks, NEW r \in Runs, NEW reported \in SUBSET Vouchers,
           BeginSettle(d, r, reported)
    PROVE  IInv'
<1>1. /\ Asks(d) /\ Open(r) /\ \A v \in reported : ~Held(r, v) /\ item[r][v] # "none"
      /\ UNCHANGED <<voucher, run, item, closed, released, bank, byHand>>
  BY DEF BeginSettle, Lines
<1> DEFINE closes(says) ==
      IsBatchTerminal({IF v \in reported THEN says[v] ELSE item[r][v] : v \in Lines(r)})
<1>2. PICK says \in [Vouchers -> LineStatuses] :
        /\ \A v \in Vouchers :
              IF v \in reported THEN says[v] \in Says(bank[r][v]) ELSE says[v] = "none"
        /\ Goto(d, Job("settle", r, reported, says, closes(says)))
  BY DEF BeginSettle
<1> DEFINE job == Job("settle", r, reported, says, closes(says))
<1>3. closes(says) \in BOOLEAN
  BY DEF IsBatchTerminal
<1>4. job \in Jobs
  BY <1>3, JobTypes DEF Places
<1> HIDE DEF closes
<1>5. /\ \A e \in Desks : desk'[e] = IF e = d THEN job ELSE desk[e]
      /\ desk' \in [Desks -> Jobs]
  BY <1>2, <1>4 DEF Goto, IInv, TypeOK
<1>6. /\ job.at = "settle" /\ job.run = r /\ job.lines = reported /\ job.says = says
      /\ job.closes = closes(says)
  BY DEF Job
<1> HIDE DEF job
<1>7. \A v \in reported :
        /\ says[v] \in Reported /\ Fits(says[v], bank[r][v]) /\ bank[r][v] # "none"
        /\ says[v] = "sent" => item[r][v] \in {"pending", "sent", "cancelled"}
  <2> SUFFICES ASSUME NEW v \in reported
               PROVE  /\ says[v] \in Reported /\ Fits(says[v], bank[r][v]) /\ bank[r][v] # "none"
                      /\ says[v] = "sent" => item[r][v] \in {"pending", "sent", "cancelled"}
    OBVIOUS
  <2>1. says[v] \in Says(bank[r][v])
    BY <1>2
  <2>2. Fits(item[r][v], bank[r][v]) /\ item[r][v] # "none" /\ item[r][v] \in LineStatuses
    BY <1>1 DEF IInv, LinesFit, TypeOK
  <2> QED
    BY <2>1, <2>2 DEF Says, Fits, Reported, LineStatuses
<1>8. TypeOK'
  BY <1>1, <1>5 DEF IInv, TypeOK
<1>9. OneLiveLine' /\ PaidByBank'
  BY <1>1 DEF IInv, OneLiveLine, PaidByBank, LiveIn
<1>same. item' = item /\ bank' = bank /\ run' = run /\ released' = released
  BY <1>1
<1>lines. LinesFit'
  BY <1>same DEF IInv, LinesFit, Fits, Out, Open
<1>10. FilesReady'
  BY <1>1, <1>5, <1>6 DEF IInv, FilesReady, Open
<1>11. SettlesFit'
  <2>1. \A e \in Desks : desk[e].at = "settle" /\ desk[e].run = r => desk[e].lines \cap reported = {}
    BY <1>1 DEF Held
  <2>2. \A e \in Desks : desk'[e].at = "settle" /\ e # d => desk'[e] = desk[e]
    BY <1>5
  <2>3. desk'[d] = job
    BY <1>5
  <2> SUFFICES ASSUME NEW e \in Desks, desk'[e].at = "settle"
               PROVE  SettlesFit!(e)!2'
    BY DEF SettlesFit
  <2>4. CASE e = d
    BY <2>1, <2>2, <2>3, <2>4, <1>1, <1>6, <1>7
  <2>5. CASE e # d
    BY <2>1, <2>2, <2>3, <2>5, <1>1, <1>6 DEF IInv, SettlesFit
  <2> QED
    BY <2>4, <2>5
<1>12. ClosesFit'
  <2>1. closes(says) => \A v \in Vouchers :
            IF v \in reported THEN says[v] \notin {"pending", "sent"}
                              ELSE item[r][v] \notin {"pending", "sent"}
    BY <1>7 DEF closes, IsBatchTerminal, Over, Lines, Reported
  <2>2. ClosesFit!(d)'
    BY <2>1, <1>same, <1>5, <1>6
  <2>3. ASSUME NEW e \in Desks, e # d
        PROVE  ClosesFit!(e)'
    <3>1. desk'[e] = desk[e]
      BY <2>3, <1>5
    <3> QED
      BY <3>1, <1>same DEF IInv, ClosesFit
  <2> QED
    BY <2>2, <2>3 DEF ClosesFit
<1> QED
  BY <1>8, <1>9, <1>lines, <1>10, <1>11, <1>12 DEF IInv

\* The commit, lines and vouchers at once.
LEMMA CommitKeeps ==
    ASSUME IInv, NEW d \in Desks, CommitSettle(d)
    PROVE  IInv'
<1> DEFINE r == desk[d].run
           lines == desk[d].lines
           says == desk[d].says
           moved == {v \in lines : MarksPaid(says[v]) /\ voucher[v] = "signed"}
<1>1. /\ desk[d].at = "settle" /\ r \in Runs /\ Open(r) /\ lines \subseteq Vouchers
      /\ says \in [Vouchers -> LineStatuses] /\ desk[d].closes \in BOOLEAN
      /\ \A v \in lines : item[r][v] # "none"
  BY DEF CommitSettle, IInv, FilesReady, TypeOK, Jobs
<1>2. CASE Clashes(d)
  BY <1>2, JustAnswers DEF CommitSettle
<1>3. CASE ~Clashes(d)
  <2>1. UNCHANGED <<released, bank>>
    BY DEF CommitSettle
  <2>2. /\ item' \in [Runs -> [Vouchers -> LineStatuses]]
        /\ \A s \in Runs, v \in Vouchers :
              item'[s][v] = IF s = r /\ v \in lines THEN says[v] ELSE item[s][v]
    <3>1. item' = [item EXCEPT ![r] = [v \in Vouchers |->
                                         IF v \in lines THEN says[v] ELSE item[r][v]]]
      BY <1>3 DEF CommitSettle
    <3>2. [v \in Vouchers |-> IF v \in lines THEN says[v] ELSE item[r][v]]
             \in [Vouchers -> LineStatuses]
      BY <1>1 DEF IInv, TypeOK
    <3> QED
      BY <1>1, <3>1, <3>2 DEF IInv, TypeOK
  <2>3. /\ voucher' \in [Vouchers -> VoucherStatuses]
        /\ \A v \in Vouchers : voucher'[v] = IF v \in moved THEN "paid" ELSE voucher[v]
        /\ byHand' = byHand \ moved
    BY <1>3 DEF CommitSettle, IInv, TypeOK, VoucherStatuses
  <2>4. /\ run' \in [Runs -> RunStatuses] /\ closed' \in [Runs -> BOOLEAN]
        /\ \A s \in Runs : Open(s) => Open(s)'
    BY <1>1, <1>3 DEF CommitSettle, IInv, TypeOK, RunStatuses, Open
  <2>5. /\ \A e \in Desks : desk'[e] = IF e = d THEN Idle ELSE desk[e]
        /\ desk' \in [Desks -> Jobs]
    BY JobTypes DEF CommitSettle, Answer, Goto, IInv, TypeOK
  <2>6. \A v \in lines :
          /\ says[v] \in Reported /\ Fits(says[v], bank[r][v]) /\ bank[r][v] # "none"
          /\ says[v] = "sent" => item[r][v] \in {"pending", "sent", "cancelled"}
    BY <1>1 DEF IInv, SettlesFit
  <2>7. TypeOK'
    BY <2>1, <2>2, <2>3, <2>4, <2>5 DEF IInv, TypeOK
  <2>8. OneLiveLine'
    <3> SUFFICES ASSUME NEW v \in Vouchers, NEW s \in Runs, NEW t \in Runs,
                        LiveIn(s, v)', LiveIn(t, v)', s # t
                 PROVE  FALSE
      BY DEF OneLiveLine
    <3>1. CASE v \in lines
      <4>1. \A u \in Runs \ {r} : says[v] \in Blocking => ~LiveIn(u, v)
        BY <1>3, <3>1 DEF Clashes
      <4>2. \A u \in Runs \ {r} : LiveIn(u, v)' <=> LiveIn(u, v)
        BY <2>2 DEF LiveIn
      <4>3. item'[r][v] = says[v]
        BY <1>1, <2>2, <3>1
      <4>4. CASE s # r /\ t # r
        BY <4>2, <4>4 DEF IInv, OneLiveLine
      <4>5. CASE s = r \/ t = r
        BY <4>1, <4>2, <4>3, <4>5 DEF LiveIn
      <4> QED
        BY <4>4, <4>5
    <3>2. CASE v \notin lines
      BY <2>2, <3>2 DEF LiveIn, IInv, OneLiveLine
    <3> QED
      BY <3>1, <3>2
  <2>9. PaidByBank'
    <3> SUFFICES ASSUME NEW v \in Vouchers, voucher'[v] = "paid", v \notin byHand'
                 PROVE  \E s \in Runs : bank'[s][v] \in {"landed", "back"}
      BY DEF PaidByBank
    <3>1. CASE v \in moved
      <4>1. Fits("paid", bank[r][v])
        BY <2>6, <3>1 DEF MarksPaid
      <4> QED
        BY <4>1, <1>1, <2>1 DEF Fits
    <3>2. CASE v \notin moved
      BY <2>1, <2>3, <3>2 DEF IInv, PaidByBank
    <3> QED
      BY <3>1, <3>2
  <2>10. LinesFit'
    <3> SUFFICES ASSUME NEW s \in Runs, NEW v \in Vouchers
                 PROVE  LinesFit!(s, v)'
      BY DEF LinesFit
    <3>1. LinesFit!(s, v)
      BY DEF IInv, LinesFit
    <3>2. CASE s = r /\ v \in lines
      <4>1. item'[s][v] = says[v] /\ bank' = bank /\ released' = released
        BY <3>2, <2>1, <2>2
      <4>2. Open(s)'
        BY <1>1, <3>2, <2>4
      <4> QED
        BY <4>1, <4>2, <2>6, <3>2 DEF Fits, Out, Reported
    <3>3. CASE ~(s = r /\ v \in lines)
      <4>1. item'[s][v] = item[s][v] /\ bank' = bank /\ released' = released
        BY <3>3, <2>1, <2>2
      <4> QED
        BY <3>1, <4>1, <2>4 DEF Fits, Out
    <3> QED
      BY <3>2, <3>3
  <2>11. FilesReady'
    <3>1. \A s \in Runs, v \in Vouchers :
             /\ item[s][v] # "none" => item'[s][v] # "none"
             /\ item[s][v] # "pending" => item'[s][v] # "pending"
      BY <2>2, <2>6 DEF Reported
    <3>2. \A e \in Desks : desk[e].lines \subseteq Vouchers
      BY DEF IInv, TypeOK, Jobs
    <3>3. \A e \in Desks : e # d => FilesReady!(e)'
      BY <3>1, <3>2, <2>4, <2>5 DEF IInv, FilesReady
    <3>4. FilesReady!(d)'
      BY <2>5 DEF Idle, Job
    <3> QED
      BY <3>3, <3>4 DEF FilesReady
  <2>12. \A e \in Desks : desk'[e].at = "settle" =>
            /\ e # d /\ desk'[e] = desk[e] /\ desk[e].run \in Runs /\ desk[e].lines \subseteq Vouchers
            /\ desk[e].run = r => lines \cap desk[e].lines = {}
    BY <1>1, <2>5 DEF Idle, Job, IInv, FilesReady, SettlesFit, TypeOK, Jobs
  <2>13. SettlesFit'
    <3>1. \A e \in Desks : desk'[e].at = "settle" =>
              \A v \in desk[e].lines : item'[desk[e].run][v] = item[desk[e].run][v]
      BY <2>2, <2>12
    <3> QED
      BY <3>1, <2>1, <2>12 DEF IInv, SettlesFit
  <2>14. ClosesFit'
    <3> SUFFICES ASSUME NEW e \in Desks, desk'[e].at = "settle", desk'[e].closes,
                        ~released'[desk'[e].run], NEW v \in Vouchers
                 PROVE  IF v \in desk'[e].lines
                          THEN desk'[e].says[v] \notin {"pending", "sent"}
                          ELSE item'[desk'[e].run][v] \notin {"pending", "sent"}
      BY DEF ClosesFit
    <3>1. /\ desk'[e] = desk[e] /\ desk[e].run \in Runs
          /\ IF v \in desk[e].lines THEN desk[e].says[v] \notin {"pending", "sent"}
                                    ELSE item[desk[e].run][v] \notin {"pending", "sent"}
      BY <2>1, <2>12 DEF IInv, ClosesFit
    <3>2. CASE desk[e].run = r /\ v \in lines /\ v \notin desk[e].lines
      <4>1. item[r][v] # "cancelled"
        BY <1>1, <2>1, <3>1, <3>2 DEF IInv, LinesFit
      <4>2. says[v] \notin {"pending", "sent"}
        BY <4>1, <2>6, <3>1, <3>2 DEF Reported
      <4> QED
        BY <4>2, <2>2, <3>1, <3>2
    <3>3. CASE ~(desk[e].run = r /\ v \in lines /\ v \notin desk[e].lines)
      BY <2>2, <3>1, <3>3
    <3> QED
      BY <3>2, <3>3
  <2> QED
    BY <2>7, <2>8, <2>9, <2>10, <2>11, <2>13, <2>14 DEF IInv
<1> QED
  BY <1>2, <1>3

\* The bank answers, or sends landed money back.
LEMMA BankKeeps ==
    ASSUME IInv, NEW r \in Runs, NEW w \in Vouchers, NEW answer \in Answers,
           BankAnswers(r, w, answer)
    PROVE  IInv'
<1>1. UNCHANGED <<voucher, run, item, closed, released, byHand, desk>>
  BY DEF BankAnswers
<1>2. /\ bank' \in [Runs -> [Vouchers -> Answers]]
      /\ \A s \in Runs, v \in Vouchers :
            bank'[s][v] = IF s = r /\ v = w THEN answer ELSE bank[s][v]
  BY DEF BankAnswers, IInv, TypeOK
<1>3. \/ bank[r][w] = "asked" /\ answer \in {"landed", "bounced"}
      \/ bank[r][w] = "landed" /\ answer = "back"
  BY DEF BankAnswers
<1>4. \A s \in Runs, v \in Vouchers :
        /\ \A line \in LineStatuses : Fits(line, bank[s][v]) => Fits(line, bank'[s][v])
        /\ bank[s][v] = "none" <=> bank'[s][v] = "none"
        /\ Out(s, v)' => Out(s, v)
        /\ bank[s][v] \in {"landed", "back"} => bank'[s][v] \in {"landed", "back"}
  BY <1>2, <1>3 DEF Fits, Out
<1>5. TypeOK' /\ OneLiveLine' /\ FilesReady' /\ ClosesFit'
  BY <1>1, <1>2 DEF IInv, TypeOK, OneLiveLine, LiveIn, FilesReady, Open, ClosesFit
<1>6. PaidByBank'
  BY <1>1, <1>4 DEF IInv, PaidByBank
<1>7. LinesFit'
  BY <1>1, <1>4 DEF IInv, LinesFit, Open, TypeOK
<1>8. SettlesFit'
  <2> SUFFICES ASSUME NEW d \in Desks, desk[d].at = "settle"
               PROVE  SettlesFit!(d)!2'
    BY <1>1 DEF SettlesFit
  <2>1. SettlesFit!(d)!2 /\ desk[d].run \in Runs /\ desk[d].lines \subseteq Vouchers
    BY DEF IInv, SettlesFit, FilesReady, TypeOK, Jobs
  <2>2. \A v \in desk[d].lines : desk[d].says[v] \in LineStatuses
    BY <2>1 DEF LineStatuses
  <2> QED
    BY <1>1, <1>4, <2>1, <2>2
<1> QED
  BY <1>5, <1>6, <1>7, <1>8 DEF IInv

\* What happens to a voucher outside its runs.
LEMMA VouchersKeep ==
    ASSUME IInv, NEW w \in Vouchers, MarkPaid(w) \/ Reopen(w) \/ SignAgain(w)
    PROVE  IInv'
<1>1. UNCHANGED <<run, item, closed, released, bank, desk>>
  BY DEF MarkPaid, Reopen, SignAgain
<1>2. voucher' \in [Vouchers -> VoucherStatuses] /\ byHand' \subseteq Vouchers
  BY DEF MarkPaid, Reopen, SignAgain, IInv, TypeOK, VoucherStatuses
<1>3. \A v \in Vouchers : voucher'[v] = "paid" /\ v \notin byHand' =>
                            voucher[v] = "paid" /\ v \notin byHand
  BY DEF MarkPaid, Reopen, SignAgain, IInv, TypeOK
<1>4. PaidByBank'
  BY <1>1, <1>3 DEF IInv, PaidByBank
<1>5. TypeOK'
  BY <1>1, <1>2 DEF IInv, TypeOK
<1>6. OneLiveLine' /\ LinesFit'
  BY <1>1 DEF IInv, OneLiveLine, LiveIn, LinesFit, Out, Open
<1>7. FilesReady' /\ SettlesFit' /\ ClosesFit'
  BY <1>1 DEF IInv, FilesReady, Open, SettlesFit, ClosesFit
<1> QED
  BY <1>4, <1>5, <1>6, <1>7 DEF IInv

LEMMA ReadsKeep ==
    ASSUME IInv, NEW d \in Desks, NEW r \in Runs, NEW chosen \in SUBSET Vouchers,
           ReadCandidates(d, chosen) \/ ReadExport(d, r) \/ ReadCancel(d, r) \/ Abandon(d)
    PROVE  IInv'
<1>1. CASE ReadCandidates(d, chosen)
  <2> DEFINE free == {v \in chosen : voucher[v] = "signed" /\ ~AlreadyBatched(v)}
  <2>1. Goto(d, Job("create", None, free, NoSay, FALSE))
    BY <1>1 DEF ReadCandidates
  <2> HIDE DEF free
  <2>2. free \in SUBSET Vouchers
    BY DEF free
  <2>3. Job("create", None, free, NoSay, FALSE) \in Jobs
    BY <2>2, JobTypes DEF Places
  <2>4. Job("create", None, free, NoSay, FALSE).at = "create"
    BY DEF Job
  <2> QED
    BY <1>1, <2>1, <2>3, <2>4, Reads DEF ReadCandidates
<1>2. CASE ReadExport(d, r)
  <2> DEFINE job == Job("stamp", r, Lines(r), NoSay, FALSE)
  <2>1. job \in Jobs
    BY JobTypes DEF Places, Lines
  <2>2. job.at = "stamp" /\ job.run = r /\ job.lines = Lines(r)
    BY DEF Job
  <2>3. Goto(d, job) /\ Open(r) /\ UNCHANGED <<voucher, run, item, closed, released, bank, byHand>>
    BY <1>2 DEF ReadExport
  <2>4. \A v \in Lines(r) : item[r][v] # "none"
    BY DEF Lines
  <2> HIDE DEF job
  <2> QED
    BY <2>1, <2>2, <2>3, <2>4, Reads
<1>3. CASE ReadCancel(d, r)
  <2> DEFINE job == Job("cancel", r, {}, NoSay, FALSE)
  <2>1. job \in Jobs
    BY JobTypes DEF Places
  <2>2. job.at = "cancel" /\ job.run = r
    BY DEF Job
  <2>3. Goto(d, job) /\ Open(r) /\ UNCHANGED <<voucher, run, item, closed, released, bank, byHand>>
    BY <1>3 DEF ReadCancel, Open
  <2> HIDE DEF job
  <2> QED
    BY <2>1, <2>2, <2>3, Reads
<1>4. CASE Abandon(d)
  BY <1>4, JustAnswers DEF Abandon
<1> QED
  BY <1>1, <1>2, <1>3, <1>4

LEMMA Start == Init => IInv
  BY JobTypes
     DEF Init, IInv, TypeOK, OneLiveLine, PaidByBank, LinesFit, FilesReady, SettlesFit, ClosesFit,
         VoucherStatuses, RunStatuses, LineStatuses, Answers, LiveIn, Blocking, Out, Open, Fits,
         Idle, Job

LEMMA Stutter ==
    ASSUME IInv, UNCHANGED vars
    PROVE  IInv'
<1>1. UNCHANGED <<voucher, run, item, closed, released, bank, byHand, desk>>
  BY DEF vars
<1>2. TypeOK' /\ OneLiveLine' /\ PaidByBank' /\ LinesFit'
  BY <1>1 DEF IInv, TypeOK, OneLiveLine, LiveIn, PaidByBank, LinesFit, Out, Open
<1>3. FilesReady' /\ SettlesFit' /\ ClosesFit'
  BY <1>1 DEF IInv, FilesReady, Open, SettlesFit, ClosesFit
<1> QED
  BY <1>2, <1>3 DEF IInv

LEMMA Step ==
    ASSUME IInv, [Next]_vars
    PROVE  IInv'
<1>1. ASSUME NEW d \in Desks, NEW chosen \in SUBSET Vouchers, ReadCandidates(d, chosen)
      PROVE  IInv'
  <2>1. CASE Runs = {}
    <3>1. UNCHANGED <<voucher, run, item, closed, released, bank, byHand>>
      BY <1>1 DEF ReadCandidates
    <3> QED
      BY <2>1, <3>1, <1>1, JobTypes, Reads DEF ReadCandidates, Places, Job
  <2>2. CASE Runs # {}
    BY <1>1, <2>2, ReadsKeep
  <2> QED
    BY <2>1, <2>2
<1>2. ASSUME NEW d \in Desks, NEW r \in Runs, ReadExport(d, r) \/ ReadCancel(d, r)
      PROVE  IInv'
  BY <1>2, ReadsKeep
<1>3. ASSUME NEW d \in Desks, NEW r \in Runs, NEW lines \in SUBSET Vouchers,
             BeginSettle(d, r, lines)
      PROVE  IInv'
  BY <1>3, BeginKeeps
<1>4. ASSUME NEW d \in Desks,
             \/ CreateBatch(d) \/ StampExported(d) \/ MarkItemsSent(d) \/ HandOver(d)
             \/ CancelBatch(d) \/ CommitSettle(d)
      PROVE  IInv'
  BY <1>4, CreateKeeps, StampKeeps, SentKeeps, HandKeeps, CancelKeeps, CommitKeeps
<1>5. ASSUME NEW d \in Desks, Abandon(d)
      PROVE  IInv'
  BY <1>5, JustAnswers DEF Abandon
<1>6. ASSUME NEW r \in Runs, MarkSubmitted(r)
      PROVE  IInv'
  BY <1>6, SubmittedKeeps
<1>7. ASSUME NEW r \in Runs, NEW v \in Vouchers, NEW answer \in Answers,
             BankAnswers(r, v, answer)
      PROVE  IInv'
  BY <1>7, BankKeeps
<1>8. ASSUME NEW v \in Vouchers, MarkPaid(v) \/ Reopen(v) \/ SignAgain(v)
      PROVE  IInv'
  BY <1>8, VouchersKeep
<1> QED
  BY <1>1, <1>2, <1>3, <1>4, <1>5, <1>6, <1>7, <1>8, Stutter DEF Next

\* The inductive invariant holds of every run of the desk, whatever requests overlap.
THEOREM PayoutInvariance == Spec => []IInv
<1>1. Init => IInv
  BY Start
<1>2. IInv /\ [Next]_vars => IInv'
  BY Step
<1> QED
  BY <1>1, <1>2, PTL DEF Spec

\* However creating and settling overlap, a voucher has at most one live line (createBatch,
\* settle).
THEOREM OneLine == Spec => []OneLiveLine
<1>1. IInv => OneLiveLine
  BY DEF IInv
<1> QED
  BY <1>1, PayoutInvariance, PTL

\* A voucher a run has marked paid is one whose wages the bank has landed, however
\* settlements, cancels and edits of it overlap (settle).
THEOREM PaidIsLanded == Spec => []PaidByBank
<1>1. IInv => PaidByBank
  BY DEF IInv
<1> QED
  BY <1>1, PayoutInvariance, PTL

\* A voucher's wages are out with the bank twice only through a run that was cancelled
\* (createBatch, exportCsv, cancelBatch, settle).
THEOREM PaidTwiceOnlyByCancel == Spec => []TwiceOnlyByCancel
<1>1. IInv => TwiceOnlyByCancel
  BY DEF IInv, TwiceOnlyByCancel, LinesFit, OneLiveLine, LiveIn, Blocking
<1> QED
  BY <1>1, PayoutInvariance, PTL

\* A run nobody cancelled is closed only with every line over, whatever else settles or
\* downloads it meanwhile (settle, isBatchTerminal).
THEOREM ClosedIsOver == Spec => ClosesOnlyOver
<1> DEFINE Closing == \A r \in Runs : closed'[r] /\ ~closed[r] /\ ~released[r] =>
                          \A v \in Vouchers : item'[r][v] \notin {"pending", "sent"}
<1>1. ASSUME IInv, [Next]_vars
      PROVE  Closing
  <2>1. ASSUME NEW d \in Desks, CommitSettle(d)
        PROVE  Closing
    <3> SUFFICES ASSUME NEW r \in Runs, closed'[r], ~closed[r], ~released[r], NEW v \in Vouchers
                 PROVE  item'[r][v] \notin {"pending", "sent"}
      OBVIOUS
    <3>1. desk[d].at = "settle" /\ desk[d].run \in Runs /\ ~Clashes(d) /\ desk[d].closes
      BY <1>1, <2>1 DEF CommitSettle, IInv, FilesReady
    <3>2. closed' = [closed EXCEPT ![desk[d].run] = TRUE]
      BY <2>1, <3>1 DEF CommitSettle
    <3>3. desk[d].run = r
      BY <1>1, <3>1, <3>2 DEF IInv, TypeOK
    <3>4. item' = [item EXCEPT ![r] = [u \in Vouchers |->
                     IF u \in desk[d].lines THEN desk[d].says[u] ELSE item[r][u]]]
      BY <2>1, <3>1, <3>3 DEF CommitSettle
    <3>5. item'[r][v] = IF v \in desk[d].lines THEN desk[d].says[v] ELSE item[r][v]
      BY <1>1, <3>1, <3>3, <3>4 DEF IInv, TypeOK
    <3> QED
      BY <1>1, <3>1, <3>3, <3>5 DEF IInv, ClosesFit
  <2>2. CASE closed' = closed
    BY <2>2
  <2>3. (\E d \in Desks : CommitSettle(d)) \/ closed' = closed
    BY <1>1 DEF Next, vars, ReadCandidates, ReadExport, ReadCancel, BeginSettle, CreateBatch,
                StampExported, MarkItemsSent, HandOver, CancelBatch, Abandon, MarkSubmitted,
                BankAnswers, MarkPaid, Reopen, SignAgain
  <2> QED
    BY <2>1, <2>2, <2>3
<1>2. IInv /\ [Next]_vars => [Closing]_vars
  BY <1>1
<1>3. ClosesOnlyOver <=> [][Closing]_vars
  BY DEF ClosesOnlyOver
<1> HIDE DEF Closing
<1> QED
  BY <1>2, <1>3, PayoutInvariance, PTL DEF Spec
====
