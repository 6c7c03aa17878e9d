---- MODULE AccountCodeProofs ----
(***************************************************************************)
(* Proofs about AccountCode, for any accounts, codes and requests and any  *)
(* cap. The inductive invariant says that a row under a confirm's lock     *)
(* stays as its first statement found it until the commit: every other     *)
(* write of the row waits for the lock or no longer finds it pending.      *)
(***************************************************************************)
EXTENDS AccountCode, TLAPS

\* What a request can hold.
LEMMA RequestTypes ==
    /\ NoRequest \in Requests
    /\ \A at \in Places, u \in Users \cup {None}, p \in AllPurposes \cup {None},
          k, a \in Contacts \cup {None}, c \in Codes \cup {None} :
              Request(at, u, p, k, a, c) \in Requests
  BY DEF NoRequest, Request, Requests, Places

\* An idle request asks nothing of the tables.
LEMMA IdleFilled == Filled(NoRequest) /\ Filled(NoRequest)'
  BY DEF Filled, NoRequest, Request

\* Only the request moves, and it has no transaction open.
LEMMA RequestMoves ==
    ASSUME IInv, NEW q \in Reqs, NEW r \in Requests, Becomes(q, r), Filled(r),
           req[q].at \notin {"rechecking", "writing"},
           r.at \notin {"rechecking", "writing"},
           UNCHANGED <<accounts, rows, lock, told, spent>>
    PROVE  IInv'
<1>1. \A p \in Reqs : req'[p] = IF p = q THEN r ELSE req[p]
  BY DEF IInv, TypeOK, Becomes
<1>2. TypeOK'
  BY DEF IInv, TypeOK, Becomes, accounts
<1>3. GuessesCapped' /\ RowsFilled' /\ SpentIsShut' /\ CountsAgree'
  BY DEF IInv, GuessesCapped, RowsFilled, SpentIsShut, CountsAgree
<1>4. AsksFilled'
  BY <1>1 DEF IInv, AsksFilled, Filled, OnItsRow
<1>5. LocksHeld'
  BY <1>1 DEF IInv, LocksHeld, TypeOK
<1> QED
  BY <1>2, <1>3, <1>4, <1>5 DEF IInv

LEMMA AskStartKeeps ==
    ASSUME IInv, NEW q \in Reqs, NEW u \in Users, NEW p \in Purposes,
           NEW k \in Contacts \cup {None}, CodeAssumption, AskStart(q, u, p, k)
    PROVE  IInv'
<1> DEFINE r == Request(IF p = "contact" THEN "clearing" ELSE "retiring",
                        u, p, k, Anchor(u), None)
<1>1. p \in AllPurposes /\ Anchor(u) \in Contacts \cup {None}
  BY DEF CodeAssumption, IInv, TypeOK, Anchor
<1>2. r \in Requests
  BY <1>1, RequestTypes DEF Places
<1>3. p = "contact" => k \in Contacts
  BY DEF AskStart, MayAsk, CodeAssumption, Contacts
<1>4. Filled(r) /\ r.at \notin {"rechecking", "writing"}
  BY <1>1, <1>3 DEF Filled, Request
<1> QED
  BY <1>2, <1>4, RequestMoves DEF AskStart, At

LEMMA AskResendKeeps ==
    ASSUME IInv, NEW q \in Reqs, NEW c \in Codes, NEW k \in Contacts \cup {None},
           CodeAssumption, AskResend(q, c, k)
    PROVE  IInv'
<1> DEFINE u == rows[c].owner
           p == rows[c].purpose
           r == Request("retiring", u, p, k, Anchor(u), None)
<1>1. u \in Users /\ p \in AllPurposes
  BY DEF AskResend, IInv, RowsFilled
<1>2. Anchor(u) \in Contacts \cup {None}
  BY <1>1 DEF IInv, TypeOK, Anchor
<1>3. r \in Requests
  BY <1>1, <1>2, RequestTypes DEF Places
<1>4. p = "contact" => k \in Contacts
  BY DEF AskResend, MayAsk, CodeAssumption, Contacts
<1>5. Filled(r) /\ r.at \notin {"rechecking", "writing"}
  BY <1>1, <1>4 DEF Filled, Request
<1> QED
  BY <1>3, <1>5, RequestMoves DEF AskResend, At

\* A request that takes up a code row in use.
LEMMA TakeUp ==
    ASSUME IInv, NEW q \in Reqs, NEW c \in Codes, rows[c].status = "pending",
           NEW at \in {"voiding", "counting", "spending"}, At(q, "idle"),
           Becomes(q, On(at, c)), UNCHANGED <<accounts, rows, lock, told, spent>>
    PROVE  IInv'
<1>1. rows[c] \in Rows
  BY DEF IInv, TypeOK
<1>2. On(at, c) \in Requests
  BY <1>1, RequestTypes DEF On, Places, Rows
<1>3. Filled(On(at, c)) /\ On(at, c).at \notin {"rechecking", "writing"}
  BY DEF Filled, OnItsRow, On, Request
<1> QED
  BY <1>2, <1>3, RequestMoves DEF At

LEMMA AskJoinKeeps ==
    ASSUME IInv, NEW q \in Reqs, NEW u \in Users, NEW k \in Contacts, AskJoin(q, u, k)
    PROVE  IInv'
<1> DEFINE r == Request("joining", u, None, k, None, None)
<1>1. r \in Requests
  BY RequestTypes DEF Places
<1>2. Filled(r) /\ r.at \notin {"rechecking", "writing"}
  BY DEF Filled, Request
<1> QED
  BY <1>1, <1>2, RequestMoves DEF AskJoin, At

LEMMA AskKeeps ==
    ASSUME IInv, CodeAssumption, NEW q \in Reqs, Ask(q)
    PROVE  IInv'
<1>1. ASSUME NEW u \in Users, NEW p \in Purposes, NEW k \in Contacts \cup {None},
             AskStart(q, u, p, k)
      PROVE  IInv'
  BY <1>1, AskStartKeeps
<1>2. ASSUME NEW u \in Users, NEW k \in Contacts, AskJoin(q, u, k)
      PROVE  IInv'
  BY <1>2, AskJoinKeeps
<1>3. ASSUME NEW c \in Codes, AskConfirm(q, c) \/ Condemn(q, c) \/ Mistype(q, c)
      PROVE  IInv'
  BY <1>3, TakeUp DEF AskConfirm, Condemn, Mistype, Live
<1>4. ASSUME NEW c \in Codes, NEW k \in Contacts \cup {None}, AskResend(q, c, k)
      PROVE  IInv'
  BY <1>4, AskResendKeeps
<1> QED
  BY <1>1, <1>2, <1>3, <1>4 DEF Ask

\* A request at its next place, or done, is still a request on its row.
LEMMA NextPlace ==
    ASSUME IInv, NEW q \in Reqs, NEW at \in Places
    PROVE  /\ [req[q] EXCEPT !.at = at] \in Requests
           /\ [req[q] EXCEPT !.at = at].at = at
           /\ [req[q] EXCEPT !.at = at].code = req[q].code
           /\ [req[q] EXCEPT !.at = at].user = req[q].user
           /\ [req[q] EXCEPT !.at = at].purpose = req[q].purpose
           /\ [req[q] EXCEPT !.at = at].value = req[q].value
  BY DEF IInv, TypeOK, Requests

\* One row in use is rewritten in place, by a request that then ends or goes on to
\* expire it. Unless nobody has it locked, its status stays.
LEMMA RowMoves ==
    ASSUME IInv, NEW c \in Codes, NEW row \in Rows, rows' = [rows EXCEPT ![c] = row],
           rows[c].status # "none" /\ row.status # "none",
           row.owner = rows[c].owner, row.purpose = rows[c].purpose,
           row.value = rows[c].value,
           row.status \in {rows[c].status, "expired"},
           row.status = rows[c].status \/ Unlocked(c),
           told' \in [Codes -> Nat],
           \A d \in Codes : d # c => told'[d] = told[d],
           told'[c] <= row.tries /\ told'[c] < MaxAttempts,
           req' \in [Reqs -> Requests],
           \A p \in Reqs :
              \/ req'[p] = req[p]
              \/ /\ req[p].at \notin {"rechecking", "writing"}
                 /\ \/ req'[p] = NoRequest
                    \/ /\ req[p].at \in {"sending", "counting"} /\ req'[p].at = "voiding"
                       /\ req'[p].code = req[p].code /\ req'[p].user = req[p].user
                       /\ req'[p].purpose = req[p].purpose /\ req'[p].value = req[p].value,
           UNCHANGED <<accounts, lock, spent>>
    PROVE  IInv'
<1>1. \A d \in Codes : rows'[d] = IF d = c THEN row ELSE rows[d]
  BY DEF IInv, TypeOK
<1>2. TypeOK'
  BY DEF IInv, TypeOK, accounts
<1>3. GuessesCapped'
  BY DEF IInv, GuessesCapped
<1>4. RowsFilled'
  BY <1>1 DEF IInv, RowsFilled
<1>5. \A r : OnItsRow(r) => OnItsRow(r)'
  BY <1>1 DEF OnItsRow
<1>6. AsksFilled'
  <2> SUFFICES ASSUME NEW p \in Reqs
               PROVE  Filled(req[p])'
    BY DEF AsksFilled
  <2>1. CASE req'[p] = req[p]
    BY <2>1, <1>5 DEF IInv, AsksFilled, Filled
  <2>2. CASE req'[p] = NoRequest
    BY <2>2 DEF Filled, NoRequest, Request
  <2>3. CASE req[p].at \in {"sending", "counting"} /\ req'[p].at = "voiding"
             /\ req'[p].code = req[p].code /\ req'[p].user = req[p].user
             /\ req'[p].purpose = req[p].purpose /\ req'[p].value = req[p].value
    <3>1. OnItsRow(req[p])
      BY <2>3 DEF IInv, AsksFilled, Filled
    <3> QED
      BY <3>1, <2>3, <1>1 DEF Filled, OnItsRow
  <2> QED
    BY <2>1, <2>2, <2>3
<1>7. LocksHeld'
  BY <1>1 DEF IInv, LocksHeld, TypeOK, Unlocked, NoRequest, Request
<1>8. SpentIsShut'
  BY <1>1 DEF IInv, SpentIsShut
<1>9. CountsAgree'
  BY <1>1 DEF IInv, CountsAgree, TypeOK
<1> QED
  BY <1>2, <1>3, <1>4, <1>6, <1>7, <1>8, <1>9 DEF IInv

\* A row that a request is on is in use.
LEMMA OnUsedRow ==
    ASSUME IInv, NEW q \in Reqs,
           req[q].at \in {"sending", "voiding", "counting", "spending", "rechecking",
                          "writing"}
    PROVE  /\ req[q].code \in Codes
           /\ rows[req[q].code] \in Rows
           /\ rows[req[q].code].status # "none"
           /\ OnItsRow(req[q])
  BY DEF IInv, TypeOK, AsksFilled, Filled, OnItsRow

LEMMA DeliveredKeeps ==
    ASSUME IInv, NEW q \in Reqs, Delivered(q)
    PROVE  IInv'
<1> DEFINE c == req[q].code
           row == [rows[c] EXCEPT !.out = TRUE]
<1>1. c \in Codes /\ rows[c] \in Rows /\ rows[c].status # "none"
  BY OnUsedRow DEF Delivered, At
<1>2. rows' = [rows EXCEPT ![c] = row]
  BY DEF Delivered
<1>3. row \in Rows /\ row.owner = rows[c].owner /\ row.purpose = rows[c].purpose
      /\ row.value = rows[c].value /\ row.status = rows[c].status
      /\ row.tries = rows[c].tries
  BY <1>1 DEF Rows
<1>4. req' \in [Reqs -> Requests]
      /\ \A p \in Reqs : req'[p] = IF p = q THEN NoRequest ELSE req[p]
  BY RequestTypes DEF Delivered, Ends, Becomes, IInv, TypeOK
<1>5. req[q].at \notin {"rechecking", "writing"} /\ UNCHANGED <<accounts, lock, spent>>
  BY DEF Delivered, At
<1>6. told' \in [Codes -> Nat] /\ told' = told /\ told[c] <= rows[c].tries
      /\ told[c] < MaxAttempts
  BY <1>1 DEF Delivered, IInv, TypeOK, CountsAgree, GuessesCapped
<1> QED
  BY <1>1, <1>2, <1>3, <1>4, <1>5, <1>6, RowMoves

LEMMA VoidKeeps ==
    ASSUME IInv, NEW q \in Reqs, Void(q)
    PROVE  IInv'
<1> DEFINE c == req[q].code
           row == [rows[c] EXCEPT !.status = "expired"]
<1>1. c \in Codes /\ rows[c] \in Rows /\ rows[c].status # "none"
  BY OnUsedRow DEF Void, At
<1>2. rows' = [rows EXCEPT ![c] = row]
  BY DEF Void
<1>3. row \in Rows /\ row.owner = rows[c].owner /\ row.purpose = rows[c].purpose
      /\ row.value = rows[c].value /\ row.status = "expired"
      /\ row.tries = rows[c].tries
  BY <1>1 DEF Rows
<1>4. req' \in [Reqs -> Requests]
      /\ \A p \in Reqs : req'[p] = IF p = q THEN NoRequest ELSE req[p]
  BY RequestTypes DEF Void, Ends, Becomes, IInv, TypeOK
<1>5. req[q].at \notin {"rechecking", "writing"} /\ UNCHANGED <<accounts, lock, spent>>
      /\ Unlocked(c)
  BY DEF Void, At
<1>6. told' \in [Codes -> Nat] /\ told' = told /\ told[c] <= rows[c].tries
      /\ told[c] < MaxAttempts
  BY <1>1 DEF Void, IInv, TypeOK, CountsAgree, GuessesCapped
<1> QED
  BY <1>1, <1>2, <1>3, <1>4, <1>5, <1>6, RowMoves

LEMMA AgeKeeps ==
    ASSUME IInv, NEW c \in Codes, Age(c)
    PROVE  IInv'
<1> DEFINE row == [rows[c] EXCEPT !.age = @ + 1]
<1>1. rows[c] \in Rows /\ rows[c].status # "none" /\ rows[c].age < 3
  BY DEF Age, IInv, TypeOK, Old
<1>2. rows' = [rows EXCEPT ![c] = row]
  BY DEF Age
<1>3. row \in Rows /\ row.owner = rows[c].owner /\ row.purpose = rows[c].purpose
      /\ row.value = rows[c].value /\ row.status = rows[c].status
      /\ row.tries = rows[c].tries
  BY <1>1 DEF Rows, Old
<1>4. req' \in [Reqs -> Requests] /\ req' = req /\ UNCHANGED <<accounts, lock, spent>>
  BY DEF Age, IInv, TypeOK
<1>5. told' \in [Codes -> Nat] /\ told' = told /\ told[c] <= rows[c].tries
      /\ told[c] < MaxAttempts
  BY <1>1 DEF Age, IInv, TypeOK, CountsAgree, GuessesCapped
<1> QED
  BY <1>1, <1>2, <1>3, <1>4, <1>5, RowMoves

LEMMA CountKeeps ==
    ASSUME IInv, CodeAssumption, NEW q \in Reqs, Count(q)
    PROVE  IInv'
<1> DEFINE c == req[q].code
           row == [rows[c] EXCEPT !.tries = @ + 1]
<1>1. c \in Codes /\ rows[c] \in Rows /\ rows[c].status # "none"
  BY OnUsedRow DEF Count, At
<1>2. rows' = [rows EXCEPT ![c] = row] /\ rows[c].tries < MaxAttempts
  BY DEF Count
<1>3. row \in Rows /\ row.owner = rows[c].owner /\ row.purpose = rows[c].purpose
      /\ row.value = rows[c].value /\ row.status = rows[c].status
      /\ row.tries = rows[c].tries + 1
  BY <1>1, <1>2 DEF Rows, CodeAssumption
<1>4. /\ rows[c].tries \in Nat /\ told[c] \in Nat /\ MaxAttempts \in Nat
      /\ told[c] <= rows[c].tries /\ told[c] < MaxAttempts
  BY <1>1 DEF Rows, IInv, TypeOK, CountsAgree, GuessesCapped, CodeAssumption
<1>5. req[q].at = "counting" /\ UNCHANGED <<accounts, lock, spent>>
  BY DEF Count, At
<1>6. /\ told' \in [Codes -> Nat] /\ \A d \in Codes : d # c => told'[d] = told[d]
      /\ told'[c] <= row.tries /\ told'[c] < MaxAttempts
  BY <1>1, <1>2, <1>3, <1>4 DEF Count, IInv, TypeOK
<1>7. CASE rows[c].tries + 1 < MaxAttempts
  <2>1. req' \in [Reqs -> Requests]
        /\ \A p \in Reqs : req'[p] = IF p = q THEN NoRequest ELSE req[p]
    BY <1>7, RequestTypes DEF Count, Ends, Becomes, IInv, TypeOK
  <2> QED
    BY <1>1, <1>2, <1>3, <1>5, <1>6, <2>1, RowMoves
<1>8. CASE ~(rows[c].tries + 1 < MaxAttempts)
  <2> DEFINE r == [req[q] EXCEPT !.at = "voiding"]
  <2>1. r \in Requests /\ r.at = "voiding" /\ r.code = req[q].code /\ r.user = req[q].user
        /\ r.purpose = req[q].purpose /\ r.value = req[q].value
    BY NextPlace DEF Places
  <2>2. req' = [req EXCEPT ![q] = r]
    BY <1>8 DEF Count, Moves
  <2>3. req' \in [Reqs -> Requests]
        /\ \A p \in Reqs : req'[p] = IF p = q THEN r ELSE req[p]
    BY <2>1, <2>2 DEF IInv, TypeOK
  <2>4. \A p \in Reqs :
           \/ req'[p] = req[p]
           \/ /\ req[p].at \notin {"rechecking", "writing"}
              /\ \/ req'[p] = NoRequest
                 \/ /\ req[p].at \in {"sending", "counting"} /\ req'[p].at = "voiding"
                    /\ req'[p].code = req[p].code /\ req'[p].user = req[p].user
                    /\ req'[p].purpose = req[p].purpose /\ req'[p].value = req[p].value
    BY <2>1, <2>3, <1>5
  <2>5. row.status \in {rows[c].status, "expired"} /\ row.status # "none"
        /\ (row.status = rows[c].status \/ Unlocked(c))
    BY <1>1, <1>3
  <2>6. req' \in [Reqs -> Requests]
    BY <2>3
  <2>hide. HIDE DEF row
  <2> QED
    BY <1>1, <1>2, <1>3, <1>5, <1>6, <2>4, <2>5, <2>6, RowMoves
<1> QED
  BY <1>7, <1>8

\* A request on a row goes on to expire it: Undelivered, CountNothing.
LEMMA GoesOnToVoid ==
    ASSUME IInv, NEW q \in Reqs, At(q, "sending") \/ At(q, "counting"),
           Moves(q, "voiding"), UNCHANGED <<accounts, rows, lock, told, spent>>
    PROVE  IInv'
<1> DEFINE r == [req[q] EXCEPT !.at = "voiding"]
<1>1. r \in Requests /\ r.at = "voiding" /\ r.code = req[q].code /\ r.user = req[q].user
      /\ r.purpose = req[q].purpose /\ r.value = req[q].value
  BY NextPlace DEF Places
<1>2. OnItsRow(req[q])
  BY OnUsedRow DEF At
<1>3. Filled(r)
  BY <1>1, <1>2 DEF Filled, OnItsRow
<1>4. Becomes(q, r)
  BY DEF Moves, Becomes
<1>hide. HIDE DEF r
<1> QED
  BY <1>1, <1>3, <1>4, RequestMoves DEF At

\* The rows retired are in nobody's transaction, and only pending ones are retired.
LEMMA RetireKeeps ==
    ASSUME IInv, NEW q \in Reqs, Retire(q)
    PROVE  IInv'
<1> DEFINE C == Open(req[q].user, req[q].purpose)
           at == IF At(q, "clearing") THEN "retiring" ELSE "creating"
           r == [req[q] EXCEPT !.at = at]
<1>1. at \in Places /\ at \in {"retiring", "creating"}
  BY DEF Places
<1>2. r \in Requests /\ r.at = at /\ r.user = req[q].user
      /\ r.purpose = req[q].purpose /\ r.value = req[q].value
  BY <1>1, NextPlace
<1>3. req' = [req EXCEPT ![q] = r] /\ req[q].at \in {"clearing", "retiring"}
      /\ UNCHANGED <<accounts, lock, told, spent>>
  BY DEF Retire, Moves
<1>4. \A p \in Reqs : req'[p] = IF p = q THEN r ELSE req[p]
  BY <1>3 DEF IInv, TypeOK
<1>5. rows' = [c \in Codes |-> IF c \in C THEN [rows[c] EXCEPT !.status = "expired"]
                                           ELSE rows[c]]
      /\ \A c \in C : Unlocked(c)
  BY DEF Retire
<1>6. rows' \in [Codes -> Rows]
      /\ \A c \in Codes :
            /\ rows'[c].owner = rows[c].owner /\ rows'[c].purpose = rows[c].purpose
            /\ rows'[c].value = rows[c].value /\ rows'[c].tries = rows[c].tries
            /\ rows'[c] = rows[c]
               \/ (rows[c].status = "pending" /\ rows'[c].status = "expired" /\ Unlocked(c))
  <2> SUFFICES ASSUME NEW c \in Codes
               PROVE  /\ rows'[c] \in Rows
                      /\ rows'[c].owner = rows[c].owner /\ rows'[c].purpose = rows[c].purpose
                      /\ rows'[c].value = rows[c].value /\ rows'[c].tries = rows[c].tries
                      /\ rows'[c] = rows[c]
                         \/ (rows[c].status = "pending" /\ rows'[c].status = "expired"
                             /\ Unlocked(c))
    BY <1>5
  <2>1. rows[c] \in Rows
    BY DEF IInv, TypeOK
  <2>2. CASE c \in C
    <3>1. rows'[c] = [rows[c] EXCEPT !.status = "expired"] /\ Unlocked(c)
      BY <1>5, <2>2
    <3>2. rows[c].status = "pending"
      BY <2>2 DEF Open
    <3> QED
      BY <2>1, <3>1, <3>2 DEF Rows
  <2>3. CASE c \notin C
    BY <1>5, <2>1, <2>3
  <2> QED
    BY <2>2, <2>3
<1>hide. HIDE DEF r, at, C
<1>7. TypeOK'
  BY <1>2, <1>3, <1>6 DEF IInv, TypeOK, accounts
<1>8. GuessesCapped' /\ CountsAgree'
  BY <1>3, <1>6 DEF IInv, GuessesCapped, CountsAgree
<1>9. RowsFilled' /\ SpentIsShut'
  BY <1>3, <1>6 DEF IInv, RowsFilled, SpentIsShut
<1>10. \A x : OnItsRow(x) => OnItsRow(x)'
  BY <1>6 DEF OnItsRow
<1>11. AsksFilled'
  <2> SUFFICES ASSUME NEW p \in Reqs
               PROVE  Filled(req[p])'
    BY DEF AsksFilled
  <2>1. CASE p = q
    <3>1. Filled(req[q])
      BY DEF IInv, AsksFilled
    <3> QED
      BY <2>1, <3>1, <1>1, <1>2, <1>3, <1>4 DEF Filled
  <2>2. CASE p # q
    BY <2>2, <1>4, <1>10 DEF IInv, AsksFilled, Filled
  <2> QED
    BY <2>1, <2>2
<1>12. LocksHeld'
  BY <1>1, <1>2, <1>3, <1>4, <1>6 DEF IInv, LocksHeld, TypeOK, Unlocked
<1> QED
  BY <1>7, <1>8, <1>9, <1>11, <1>12 DEF IInv

\* A new row is nobody's but the request's that created it.
LEMMA CreateKeeps ==
    ASSUME IInv, CodeAssumption, NEW q \in Reqs, NEW c \in Codes, Create(q, c)
    PROVE  IInv'
<1> DEFINE row == NewRow(req[q])
           r == [req[q] EXCEPT !.at = "sending", !.code = c]
<1>1. req[q] \in Requests /\ req[q].user \in Users /\ req[q].purpose \in AllPurposes
      /\ (req[q].purpose = "contact" => req[q].value \in Contacts)
  BY DEF Create, At, IInv, TypeOK, AsksFilled, Filled
<1>2. r \in Requests /\ r.at = "sending" /\ r.code = c /\ r.user = req[q].user
      /\ r.purpose = req[q].purpose /\ r.value = req[q].value
  BY <1>1 DEF Requests, Places
<1>3. row \in Rows /\ row.status = "pending" /\ row.owner = req[q].user
      /\ row.purpose = req[q].purpose /\ row.value = req[q].value /\ row.tries = 0
  <2>1. req[q].value \in Contacts \cup {None} /\ req[q].anchor \in Contacts \cup {None}
    BY <1>1 DEF Requests
  <2>2. 0 \in 0..MaxAttempts /\ 0 \in 0..3
    BY DEF CodeAssumption
  <2>3. (req[q].purpose = "reset") \in BOOLEAN
    OBVIOUS
  <2> QED
    BY <1>1, <2>1, <2>2, <2>3 DEF NewRow, Rows, Cooling, Old
<1>4. /\ rows' = [rows EXCEPT ![c] = row] /\ rows[c].status = "none"
      /\ req' = [req EXCEPT ![q] = r] /\ req[q].at = "creating"
      /\ UNCHANGED <<accounts, lock, told, spent>>
  BY DEF Create, At, Becomes
<1>5. /\ \A d \in Codes : rows'[d] = IF d = c THEN row ELSE rows[d]
      /\ \A p \in Reqs : req'[p] = IF p = q THEN r ELSE req[p]
  BY <1>4 DEF IInv, TypeOK
<1>hide. HIDE DEF r, row
<1>6. TypeOK'
  BY <1>2, <1>3, <1>4 DEF IInv, TypeOK, accounts
<1>7. GuessesCapped'
  BY <1>4 DEF IInv, GuessesCapped
<1>8. RowsFilled'
  BY <1>1, <1>3, <1>5 DEF IInv, RowsFilled
<1>9. AsksFilled'
  <2> SUFFICES ASSUME NEW p \in Reqs
               PROVE  Filled(req[p])'
    BY DEF AsksFilled
  <2>1. CASE p = q
    BY <2>1, <1>2, <1>3, <1>5 DEF Filled, OnItsRow
  <2>2. CASE p # q
    <3>1. \A x : OnItsRow(x) => OnItsRow(x)'
      BY <1>4, <1>5 DEF OnItsRow
    <3> QED
      BY <2>2, <3>1, <1>5 DEF IInv, AsksFilled, Filled
  <2> QED
    BY <2>1, <2>2
<1>10. LocksHeld'
  BY <1>2, <1>3, <1>4, <1>5 DEF IInv, LocksHeld, TypeOK
<1>11. SpentIsShut'
  BY <1>4, <1>5 DEF IInv, SpentIsShut
<1>12. CountsAgree'
  <2>1. rows[c].tries = 0
    BY <1>4 DEF IInv, RowsFilled, NoRow
  <2>2. told[c] = 0
    BY <2>1 DEF IInv, CountsAgree, TypeOK
  <2> QED
    BY <2>2, <1>3, <1>4, <1>5 DEF IInv, CountsAgree
<1> QED
  BY <1>6, <1>7, <1>8, <1>9, <1>10, <1>11, <1>12 DEF IInv

\* No row moves: a transaction opens, goes on or is rolled back, or a sign-up is written.
LEMMA LockMoves ==
    ASSUME IInv, NEW q \in Reqs, NEW r \in Requests, req' = [req EXCEPT ![q] = r], Filled(r),
           contact' \in [Users -> Contacts \cup {None}],
           lock' \in [Codes -> Reqs \cup {None}], LocksHeld',
           UNCHANGED <<word, rows, told, spent>>
    PROVE  IInv'
<1>1. \A p \in Reqs : req'[p] = IF p = q THEN r ELSE req[p]
  BY DEF IInv, TypeOK
<1>2. TypeOK'
  BY DEF IInv, TypeOK
<1>3. GuessesCapped' /\ RowsFilled' /\ SpentIsShut' /\ CountsAgree'
  BY DEF IInv, GuessesCapped, RowsFilled, SpentIsShut, CountsAgree
<1>4. AsksFilled'
  BY <1>1 DEF IInv, AsksFilled, Filled, OnItsRow
<1> QED
  BY <1>2, <1>3, <1>4 DEF IInv

\* A request that ends takes the lock it held with it, and no other.
LEMMA UnlockedApart ==
    ASSUME IInv, CodeAssumption, NEW q \in Reqs,
           req' = [req EXCEPT ![q] = NoRequest], rows' = rows,
           lock' \in [Codes -> Reqs \cup {None}],
           \A c \in Codes : lock'[c] = IF lock[c] = q THEN None ELSE lock[c]
    PROVE  LocksHeld'
<1>1. \A p \in Reqs : req'[p] = IF p = q THEN NoRequest ELSE req[p]
  BY DEF IInv, TypeOK
<1>2. ASSUME NEW c \in Codes, lock'[c] # None
      PROVE  /\ req'[lock'[c]].at \in {"rechecking", "writing"} /\ req'[lock'[c]].code = c
             /\ rows'[c].status = "pending"
  <2>1. lock'[c] = lock[c] /\ lock[c] # q /\ lock[c] # None /\ lock[c] \in Reqs
    BY <1>2 DEF IInv, TypeOK
  <2> QED
    BY <2>1, <1>1 DEF IInv, LocksHeld
<1>3. ASSUME NEW p \in Reqs, req'[p].at \in {"rechecking", "writing"}
      PROVE  lock'[req'[p].code] = p
  <2>1. p # q /\ req'[p] = req[p]
    BY <1>1, <1>3 DEF NoRequest, Request
  <2>2. req[p].code \in Codes
    BY <2>1, <1>3, OnUsedRow
  <2>3. lock[req[p].code] = p
    BY <2>1, <1>3 DEF IInv, LocksHeld
  <2> QED
    BY <2>1, <2>2, <2>3
<1> QED
  BY <1>2, <1>3 DEF LocksHeld

LEMMA FailKeeps ==
    ASSUME IInv, CodeAssumption, NEW q \in Reqs, Fail(q)
    PROVE  IInv'
<1>1. req' = [req EXCEPT ![q] = NoRequest] /\ UNCHANGED <<contact, word, rows, told, spent>>
  BY DEF Fail, Ends, Becomes, accounts
<1>2. lock' \in [Codes -> Reqs \cup {None}]
      /\ \A c \in Codes : lock'[c] = IF lock[c] = q THEN None ELSE lock[c]
  BY DEF Fail, IInv, TypeOK
<1>3. LocksHeld'
  BY <1>1, <1>2, UnlockedApart
<1>4. contact' \in [Users -> Contacts \cup {None}]
  BY <1>1 DEF IInv, TypeOK
<1> QED
  BY <1>1, <1>2, <1>3, <1>4, RequestTypes, IdleFilled, LockMoves

\* A rollback releases the lock of the request's own transaction.
LEMMA RollbackReleases ==
    ASSUME IInv, CodeAssumption, NEW q \in Reqs, Rollback(q),
           req[q].at \in {"rechecking", "writing"}
    PROVE  /\ req' = [req EXCEPT ![q] = NoRequest]
           /\ lock' \in [Codes -> Reqs \cup {None}]
           /\ \A c \in Codes : lock'[c] = IF lock[c] = q THEN None ELSE lock[c]
<1>1. req[q].code \in Codes /\ lock[req[q].code] = q
  BY OnUsedRow DEF IInv, LocksHeld
<1>2. \A c \in Codes : lock[c] = q => c = req[q].code
  BY DEF IInv, LocksHeld, CodeAssumption
<1> QED
  BY <1>1, <1>2 DEF Rollback, Ends, Becomes, IInv, TypeOK

\* A confirm whose contact was taken is rolled back: Recheck, WriteTaken.
LEMMA RollbackKeeps ==
    ASSUME IInv, CodeAssumption, NEW q \in Reqs, Rollback(q),
           req[q].at \in {"rechecking", "writing"},
           UNCHANGED <<accounts, rows, told, spent>>
    PROVE  IInv'
<1>1. LocksHeld'
  BY RollbackReleases, UnlockedApart
<1>2. contact' \in [Users -> Contacts \cup {None}] /\ UNCHANGED <<word, rows, told, spent>>
  BY DEF IInv, TypeOK, accounts
<1> QED
  BY <1>1, <1>2, RollbackReleases, RequestTypes, IdleFilled, LockMoves

LEMMA SpendKeeps ==
    ASSUME IInv, CodeAssumption, NEW q \in Reqs, Spend(q)
    PROVE  IInv'
<1> DEFINE c == req[q].code
           at == IF req[q].purpose = "contact" THEN "rechecking" ELSE "writing"
           r == [req[q] EXCEPT !.at = at]
<1>1. req[q].at = "spending" /\ lock[c] = None /\ UNCHANGED <<accounts, rows, told, spent>>
  BY DEF Spend, At, Unlocked
<1>2. c \in Codes /\ OnItsRow(req[q])
  BY <1>1, OnUsedRow
<1>3. CASE ~Live(c)
  BY <1>1, <1>3, RequestTypes, IdleFilled, RequestMoves
     DEF Spend, Ends, NoRequest, Request
<1>4. CASE Live(c)
  <2>1. at \in {"rechecking", "writing"} /\ at \in Places
    BY DEF Places
  <2>2. r \in Requests /\ r.at = at /\ r.code = c /\ r.user = req[q].user
        /\ r.purpose = req[q].purpose /\ r.value = req[q].value
    BY <2>1, NextPlace
  <2>3. req' = [req EXCEPT ![q] = r] /\ lock' = [lock EXCEPT ![c] = q]
    BY <1>4 DEF Spend, Moves
  <2>4. /\ \A p \in Reqs : req'[p] = IF p = q THEN r ELSE req[p]
        /\ lock' \in [Codes -> Reqs \cup {None}]
        /\ \A d \in Codes : lock'[d] = IF d = c THEN q ELSE lock[d]
    BY <2>3, <1>2 DEF IInv, TypeOK
  <2>5. Filled(r)
    BY <2>1, <2>2, <1>2 DEF Filled, OnItsRow
  <2>6. rows[c].status = "pending"
    BY <1>4 DEF Live
  <2>hide. HIDE DEF r, at, c
  <2>7. LocksHeld'
    <3>1. ASSUME NEW d \in Codes, lock'[d] # None
          PROVE  /\ req'[lock'[d]].at \in {"rechecking", "writing"}
                 /\ req'[lock'[d]].code = d /\ rows'[d].status = "pending"
      <4>1. CASE d = c
        BY <4>1, <1>1, <2>1, <2>2, <2>4, <2>6
      <4>2. CASE d # c
        <5>1. lock'[d] = lock[d] /\ lock[d] \in Reqs
          BY <4>2, <3>1, <2>4 DEF IInv, TypeOK
        <5>2. req[lock[d]].at \in {"rechecking", "writing"} /\ req[lock[d]].code = d
              /\ rows[d].status = "pending"
          BY <3>1, <5>1 DEF IInv, LocksHeld
        <5> QED
          BY <5>1, <5>2, <1>1, <2>4
      <4> QED
        BY <4>1, <4>2
    <3>2. ASSUME NEW p \in Reqs, req'[p].at \in {"rechecking", "writing"}
          PROVE  lock'[req'[p].code] = p
      <4>1. CASE p = q
        BY <4>1, <1>2, <2>2, <2>4
      <4>2. CASE p # q
        <5>1. req'[p] = req[p] /\ lock[req[p].code] = p
          BY <4>2, <3>2, <2>4 DEF IInv, LocksHeld
        <5>2. req[p].code \in Codes /\ req[p].code # c
          BY <5>1, <3>2, <1>1, OnUsedRow DEF CodeAssumption
        <5> QED
          BY <5>1, <5>2, <2>4
      <4> QED
        BY <4>1, <4>2
    <3> QED
      BY <3>1, <3>2 DEF LocksHeld
  <2>8. contact' \in [Users -> Contacts \cup {None}] /\ UNCHANGED <<word, rows, told, spent>>
    BY <1>1 DEF IInv, TypeOK, accounts
  <2> QED
    BY <2>2, <2>3, <2>4, <2>5, <2>7, <2>8, LockMoves
<1> QED
  BY <1>3, <1>4

LEMMA RecheckKeeps ==
    ASSUME IInv, CodeAssumption, NEW q \in Reqs, Recheck(q)
    PROVE  IInv'
<1>1. CASE Taken(req[q].value, req[q].user)
  BY <1>1, RollbackKeeps DEF Recheck, At
<1>2. CASE ~Taken(req[q].value, req[q].user)
  <2> DEFINE r == [req[q] EXCEPT !.at = "writing"]
  <2>1. r \in Requests /\ r.at = "writing" /\ r.code = req[q].code /\ r.user = req[q].user
        /\ r.purpose = req[q].purpose /\ r.value = req[q].value
    BY NextPlace DEF Places
  <2>2. req' = [req EXCEPT ![q] = r] /\ req[q].at = "rechecking"
        /\ UNCHANGED <<contact, word, rows, lock, told, spent>>
    BY <1>2 DEF Recheck, Moves, At, accounts
  <2>3. OnItsRow(req[q])
    BY <2>2, OnUsedRow
  <2>4. Filled(r)
    BY <2>1, <2>3 DEF Filled, OnItsRow
  <2>5. \A p \in Reqs : req'[p] = IF p = q THEN r ELSE req[p]
    BY <2>2 DEF IInv, TypeOK
  <2>hide. HIDE DEF r
  <2>6. LocksHeld'
    BY <2>1, <2>2, <2>5 DEF IInv, LocksHeld, TypeOK
  <2>7. contact' \in [Users -> Contacts \cup {None}] /\ lock' \in [Codes -> Reqs \cup {None}]
    BY <2>2 DEF IInv, TypeOK
  <2> QED
    BY <2>1, <2>2, <2>4, <2>6, <2>7, LockMoves
<1> QED
  BY <1>1, <1>2

LEMMA WriteJoinKeeps ==
    ASSUME IInv, CodeAssumption, NEW q \in Reqs, WriteJoin(q)
    PROVE  IInv'
<1>1. req' = [req EXCEPT ![q] = NoRequest] /\ req[q].at = "joining"
      /\ UNCHANGED <<word, rows, lock, told, spent>>
  BY DEF WriteJoin, At, Ends, Becomes
<1>2. req[q].user \in Users /\ req[q].value \in Contacts
  BY <1>1 DEF IInv, AsksFilled, Filled
<1>3. contact' \in [Users -> Contacts \cup {None}]
  BY <1>2 DEF WriteJoin, IInv, TypeOK
<1>4. \A c \in Codes : lock'[c] = IF lock[c] = q THEN None ELSE lock[c]
  BY <1>1 DEF IInv, LocksHeld, CodeAssumption
<1>5. lock' \in [Codes -> Reqs \cup {None}]
  BY <1>1 DEF IInv, TypeOK
<1>6. LocksHeld'
  BY <1>1, <1>4, <1>5, UnlockedApart
<1> QED
  BY <1>1, <1>3, <1>5, <1>6, RequestTypes, IdleFilled, LockMoves

\* What a commit writes, and where.
LEMMA Commits ==
    ASSUME IInv, CodeAssumption, NEW q \in Reqs, Write(q)
    PROVE  LET c == req[q].code  u == req[q].user
           IN /\ c \in Codes /\ u \in Users /\ OnItsRow(req[q]) /\ lock[c] = q
              /\ rows[c].status = "pending" /\ c \notin spent
              /\ \A d \in Codes : rows'[d] = IF d = c THEN [rows[c] EXCEPT !.status = "consumed"]
                                                      ELSE rows[d]
              /\ \A p \in Reqs : req'[p] = IF p = q THEN NoRequest ELSE req[p]
              /\ req[q].purpose = "contact" => req[q].value \in Contacts
              /\ spent' = spent \cup {c} /\ told' = told
<1>1. req[q].at = "writing"
  BY DEF Write, At
<1>2. req[q].code \in Codes /\ OnItsRow(req[q]) /\ lock[req[q].code] = q
  BY <1>1, OnUsedRow DEF IInv, LocksHeld
<1>3. rows[req[q].code].status = "pending"
  BY <1>2 DEF IInv, LocksHeld, CodeAssumption
<1>4. req[q].user \in Users /\ (req[q].purpose = "contact" => req[q].value \in Contacts)
  BY <1>2, <1>3 DEF OnItsRow, IInv, RowsFilled
<1>5. req[q].code \notin spent
  BY <1>2, <1>3 DEF IInv, SpentIsShut
<1>6. \A d \in Codes :
         rows'[d] = IF d = req[q].code THEN [rows[req[q].code] EXCEPT !.status = "consumed"]
                                       ELSE rows[d]
  BY <1>2 DEF Write, IInv, TypeOK
<1>7. \A p \in Reqs : req'[p] = IF p = q THEN NoRequest ELSE req[p]
  BY DEF Write, Rollback, Ends, Becomes, IInv, TypeOK
<1>8. spent' = spent \cup {req[q].code} /\ told' = told
  BY DEF Write
<1> QED
  BY <1>2, <1>3, <1>4, <1>5, <1>6, <1>7, <1>8

LEMMA WriteKeeps ==
    ASSUME IInv, CodeAssumption, NEW q \in Reqs, Write(q)
    PROVE  IInv'
<1> DEFINE c == req[q].code
<1>1. /\ c \in Codes /\ req[q].user \in Users /\ lock[c] = q /\ rows[c].status = "pending"
      /\ \A d \in Codes : rows'[d] = IF d = c THEN [rows[c] EXCEPT !.status = "consumed"]
                                              ELSE rows[d]
      /\ \A p \in Reqs : req'[p] = IF p = q THEN NoRequest ELSE req[p]
      /\ req[q].purpose = "contact" => req[q].value \in Contacts
      /\ spent' = spent \cup {c} /\ told' = told
  BY Commits
<1>2. /\ lock' \in [Codes -> Reqs \cup {None}]
      /\ \A d \in Codes : lock'[d] = IF lock[d] = q THEN None ELSE lock[d]
  BY RollbackReleases DEF Write, At
<1>3. rows[c] \in Rows
  BY <1>1 DEF IInv, TypeOK
<1>4. /\ rows' \in [Codes -> Rows]
      /\ \A d \in Codes :
            /\ rows'[d].owner = rows[d].owner /\ rows'[d].purpose = rows[d].purpose
            /\ rows'[d].value = rows[d].value /\ rows'[d].tries = rows[d].tries
            /\ d # c => rows'[d] = rows[d]
      /\ rows'[c].status = "consumed"
  <2>1. rows' = [rows EXCEPT ![c].status = "consumed"]
    BY DEF Write
  <2>2. rows' \in [Codes -> Rows]
    BY <1>1, <1>3, <2>1 DEF IInv, TypeOK, Rows
  <2> QED
    BY <1>1, <1>3, <2>2 DEF Rows
<1>hide. HIDE DEF c
<1>5. TypeOK'
  <2>1. contact' \in [Users -> Contacts \cup {None}] /\ word' \in [Users -> Codes \cup {None}]
    BY <1>1 DEF Write, IInv, TypeOK, c
  <2>2. req' \in [Reqs -> Requests]
    BY RequestTypes DEF Write, Rollback, Ends, Becomes, IInv, TypeOK
  <2> QED
    BY <2>1, <2>2, <1>1, <1>2, <1>4 DEF IInv, TypeOK
<1>6. GuessesCapped' /\ CountsAgree'
  BY <1>1, <1>4 DEF IInv, GuessesCapped, CountsAgree
<1>7. RowsFilled'
  BY <1>1, <1>4 DEF IInv, RowsFilled
<1>8. \A x : OnItsRow(x) => OnItsRow(x)'
  BY <1>4 DEF OnItsRow
<1>9. AsksFilled'
  BY <1>1, <1>8, IdleFilled DEF IInv, AsksFilled, Filled
<1>10. SpentIsShut'
  BY <1>1, <1>4 DEF IInv, SpentIsShut
<1>11. LocksHeld'
  <2>1. ASSUME NEW d \in Codes, lock'[d] # None
        PROVE  /\ req'[lock'[d]].at \in {"rechecking", "writing"}
               /\ req'[lock'[d]].code = d /\ rows'[d].status = "pending"
    <3>1. lock'[d] = lock[d] /\ lock[d] # q /\ lock[d] \in Reqs /\ lock[d] # None
      BY <2>1, <1>2 DEF IInv, TypeOK
    <3>2. d # c
      BY <3>1, <1>1
    <3>3. req[lock[d]].at \in {"rechecking", "writing"} /\ req[lock[d]].code = d
          /\ rows[d].status = "pending"
      BY <3>1 DEF IInv, LocksHeld
    <3> QED
      BY <3>1, <3>2, <3>3, <1>1, <1>4
  <2>2. ASSUME NEW p \in Reqs, req'[p].at \in {"rechecking", "writing"}
        PROVE  lock'[req'[p].code] = p
    <3>1. p # q /\ req'[p] = req[p]
      BY <1>1, <2>2 DEF NoRequest, Request
    <3>2. req[p].code \in Codes /\ lock[req[p].code] = p
      BY <3>1, <2>2, OnUsedRow DEF IInv, LocksHeld
    <3> QED
      BY <3>1, <3>2, <1>2
  <2> QED
    BY <2>1, <2>2 DEF LocksHeld
<1> QED
  BY <1>5, <1>6, <1>7, <1>9, <1>10, <1>11 DEF IInv

LEMMA StepKeeps ==
    ASSUME IInv, CodeAssumption, NEW q \in Reqs, Step(q)
    PROVE  IInv'
<1>1. CASE Undelivered(q)
  BY <1>1, GoesOnToVoid DEF Undelivered
<1>2. CASE CountNothing(q)
  BY <1>2, GoesOnToVoid DEF CountNothing
<1>3. CASE WriteTaken(q)
  BY <1>3, RollbackKeeps DEF WriteTaken, At
<1>4. CASE \E c \in Codes : Create(q, c)
  BY <1>4, CreateKeeps
<1> QED
  BY <1>1, <1>2, <1>3, <1>4, RetireKeeps, DeliveredKeeps, VoidKeeps, CountKeeps, SpendKeeps,
     RecheckKeeps, WriteKeeps, WriteJoinKeeps, FailKeeps DEF Step

\* The invariant holds at first, and every step keeps it (AccountCode's actions).
LEMMA InitHolds ==
    ASSUME Init, CodeAssumption
    PROVE  IInv
<1>1. NoRow \in Rows
  BY DEF NoRow, Rows, CodeAssumption, Cooling, Old
<1>2. TypeOK
  BY <1>1, RequestTypes DEF Init, TypeOK, CodeAssumption
<1>3. RowsFilled /\ CountsAgree
  BY DEF Init, RowsFilled, CountsAgree, NoRow
<1>4. GuessesCapped
  BY DEF Init, GuessesCapped, CodeAssumption
<1>5. AsksFilled
  BY IdleFilled DEF Init, AsksFilled
<1>6. LocksHeld /\ SpentIsShut
  BY DEF Init, LocksHeld, SpentIsShut, NoRequest, Request
<1> QED
  BY <1>2, <1>3, <1>4, <1>5, <1>6 DEF IInv

LEMMA NextKeeps ==
    ASSUME IInv, CodeAssumption, [Next]_vars
    PROVE  IInv'
<1>1. CASE UNCHANGED vars
  BY <1>1 DEF vars, IInv, TypeOK, GuessesCapped, RowsFilled, AsksFilled, Filled, OnItsRow,
              LocksHeld, SpentIsShut, CountsAgree
<1>2. CASE \E q \in Reqs : Step(q) \/ Ask(q)
  BY <1>2, StepKeeps, AskKeeps
<1>3. CASE \E c \in Codes : Age(c)
  BY <1>3, AgeKeeps
<1> QED
  BY <1>1, <1>2, <1>3 DEF Next

\* The inductive invariant holds of every code, account and request.
THEOREM CodeInvariance == Spec => []IInv
<1>1. Init => IInv
  BY InitHolds, CodeAssumption
<1>2. IInv /\ [Next]_vars => IInv'
  BY NextKeeps, CodeAssumption
<1> QED
  BY <1>1, <1>2, PTL DEF Spec

\* Concurrent wrong codes cannot slip past the cap (recordWrongCode,
\* countFailedAttempt): whatever the cap and however many requests there are.
THEOREM CapHolds == Spec => [](TypeOK /\ GuessesCapped)
<1>1. IInv => TypeOK /\ GuessesCapped
  BY DEF IInv
<1> QED
  BY <1>1, CodeInvariance, PTL

(***************************************************************************)
(* One spelling: two accounts never share a contact                        *)
(***************************************************************************)

\* Contacts written one way are told apart by their line.
LEMMA OneSpelling ==
    ASSUME Spellings = {Stored}, NEW k \in Contacts, NEW l \in Contacts, k[1] = l[1]
    PROVE  k = l
  BY DEF Contacts

\* A contact moves only to one that no other account has written.
LEMMA ContactMoves ==
    ASSUME IInv, CodeAssumption, [Next]_vars
    PROVE  \/ contact' = contact
           \/ \E u \in Users, k \in Contacts :
                 ~Collides(k, u) /\ contact' = [contact EXCEPT ![u] = k]
<1>1. ASSUME NEW q \in Reqs, Write(q), contact' # contact
      PROVE  \E u \in Users, k \in Contacts :
                ~Collides(k, u) /\ contact' = [contact EXCEPT ![u] = k]
  <2>1. req[q].purpose = "contact"
    BY <1>1 DEF Write
  <2>2. req[q].user \in Users /\ req[q].value \in Contacts
    BY <1>1, <2>1, Commits
  <2> QED
    BY <1>1, <2>1, <2>2 DEF Write
<1>2. ASSUME NEW q \in Reqs, WriteJoin(q)
      PROVE  \E u \in Users, k \in Contacts :
                ~Collides(k, u) /\ contact' = [contact EXCEPT ![u] = k]
  <2>1. req[q].user \in Users /\ req[q].value \in Contacts
    BY <1>2 DEF WriteJoin, At, IInv, AsksFilled, Filled
  <2> QED
    BY <1>2, <2>1 DEF WriteJoin
<1>3. ASSUME NEW q \in Reqs, Step(q), ~Write(q), ~WriteJoin(q)
      PROVE  contact' = contact
  BY <1>3 DEF Step, Retire, Delivered, Undelivered, Void, Count, CountNothing, Spend,
              Recheck, WriteTaken, Fail, Create, accounts
<1>4. ASSUME NEW q \in Reqs, Ask(q)
      PROVE  contact' = contact
  BY <1>4 DEF Ask, AskStart, AskJoin, AskConfirm, Condemn, Mistype, AskResend, accounts
<1>5. ASSUME NEW c \in Codes, Age(c)
      PROVE  contact' = contact
  BY <1>5 DEF Age, accounts
<1>6. CASE UNCHANGED vars
  BY <1>6 DEF vars
<1> QED
  BY <1>1, <1>2, <1>3, <1>4, <1>5, <1>6 DEF Next

\* No two accounts sign in with one contact, whatever the order of two confirms' and
\* sign-ups' checks and writes (applyContactChange): if contacts are written one way, as
\* emails are.
THEOREM ContactsApart ==
    ASSUME Spellings = {Stored}
    PROVE  Spec => []NoSharedContact
<1>1. Init => NoSharedContact
  BY DEF Init, NoSharedContact, Taken
<1>2. IInv /\ NoSharedContact /\ [Next]_vars => NoSharedContact'
  <2> SUFFICES ASSUME IInv, NoSharedContact, [Next]_vars, contact' # contact
               PROVE  NoSharedContact'
    BY DEF NoSharedContact
  <2>1. PICK u \in Users, k \in Contacts :
           ~Collides(k, u) /\ contact' = [contact EXCEPT ![u] = k]
    BY ContactMoves, CodeAssumption
  <2>2. \A v \in Users : contact'[v] = IF v = u THEN k ELSE contact[v]
    BY <2>1 DEF IInv, TypeOK
  <2>3. ASSUME NEW v \in Users \ {u}, contact[v] # None
        PROVE  contact[v][1] # k[1]
    BY <2>1, <2>3, OneSpelling DEF Collides, IInv, TypeOK
  <2> QED
    BY <2>2, <2>3 DEF NoSharedContact
<1> QED
  BY <1>1, <1>2, CodeInvariance, PTL DEF Spec

(***************************************************************************)
(* One spelling: the flows implement OneUse                                *)
(***************************************************************************)

\* What OneUse sees of the rows.
LEMMA GrantTypes ==
    ASSUME IInv, NEW c \in Codes
    PROVE  GrantOf(c) \in Promise!Grants
<1>1. rows[c] \in Rows
  BY DEF IInv, TypeOK
<1> QED
  BY <1>1 DEF GrantOf, Rows, Promise!Grants, AllPurposes, Contacts, Promise!Contacts

\* Nothing OneUse sees moves.
LEMMA Stutters ==
    ASSUME UNCHANGED <<contact, word, spent>>,
           \A c \in Codes : GrantOf(c)' = GrantOf(c)
    PROVE  UNCHANGED <<contact, word, [c \in Codes |-> GrantOf(c)], spent>>
  OBVIOUS

\* Rows that are not moved, or only in what OneUse does not see.
LEMMA SameGrants ==
    ASSUME \A c \in Codes : /\ rows'[c].status = rows[c].status
                            /\ rows'[c].owner = rows[c].owner
                            /\ rows'[c].purpose = rows[c].purpose
                            /\ rows'[c].value = rows[c].value
    PROVE  \A c \in Codes : GrantOf(c)' = GrantOf(c)
  BY DEF GrantOf

\* Rows that stay or go from pending to expired are withdrawn.
LEMMA Withdraws ==
    ASSUME IInv, IInv', UNCHANGED <<contact, word, spent>>,
           \A c \in Codes :
              /\ rows'[c].owner = rows[c].owner /\ rows'[c].purpose = rows[c].purpose
              /\ rows'[c].value = rows[c].value
              /\ \/ rows'[c].status = rows[c].status
                 \/ rows[c].status # "none" /\ rows'[c].status = "expired"
    PROVE  Promise!Next
<1>1. \A c \in Codes : GrantOf(c)' \in Promise!Grants
  <2>1. ASSUME NEW c \in Codes
        PROVE  rows'[c] \in Rows
    BY DEF IInv, TypeOK
  <2> QED
    BY <2>1 DEF GrantOf, Rows, Promise!Grants, AllPurposes, Contacts, Promise!Contacts
<1>2. ASSUME NEW c \in Codes
      PROVE  \/ GrantOf(c)' = GrantOf(c)
             \/ GrantOf(c).state = "open" /\ GrantOf(c)' = Promise!Shut(GrantOf(c))
  BY DEF GrantOf, Promise!Shut
<1>3. Promise!Withdraw
  BY <1>1, <1>2 DEF Promise!Withdraw
<1> QED
  BY <1>3 DEF Promise!Next

\* With contacts written one way, one nobody else has written is free.
LEMMA FreeContact ==
    ASSUME Spellings = {Stored}, IInv, NEW u \in Users, NEW k \in Contacts, ~Collides(k, u)
    PROVE  Promise!Free(k, u)
<1> SUFFICES ASSUME NEW o \in Users, contact[o] # None, contact[o][1] = k[1], o # u
             PROVE  FALSE
  BY DEF Promise!Free
<1>1. contact[o] \in Contacts
  BY DEF IInv, TypeOK
<1>2. contact[o] = k
  BY <1>1, OneSpelling
<1> QED
  BY <1>2 DEF Collides

\* A commit is the use of its code.
LEMMA WriteUses ==
    ASSUME Spellings = {Stored}, IInv, CodeAssumption, NEW q \in Reqs, Write(q)
    PROVE  Promise!Next
<1>0. req[q].code \in Codes /\ req[q].user \in Users
  BY Commits
<1> SUFFICES ASSUME NEW c \in Codes, NEW u \in Users, c = req[q].code, u = req[q].user
             PROVE  Promise!Next
  BY <1>0
<1>1. /\ c \in Codes /\ u \in Users /\ OnItsRow(req[q])
      /\ rows[c].status = "pending" /\ c \notin spent
      /\ \A d \in Codes : rows'[d] = IF d = c THEN [rows[c] EXCEPT !.status = "consumed"]
                                              ELSE rows[d]
      /\ req[q].purpose = "contact" => req[q].value \in Contacts
      /\ spent' = spent \cup {c}
  BY Commits
<1>2. rows[c] \in Rows
  BY <1>1 DEF IInv, TypeOK
<1>3. GrantOf(c).state = "open" /\ GrantOf(c).owner = u
      /\ GrantOf(c).purpose = req[q].purpose /\ GrantOf(c).value = req[q].value
  BY <1>1 DEF GrantOf, OnItsRow
<1>4. GrantOf(c)' = Promise!Shut(GrantOf(c))
  <2>1. rows'[c].status = "consumed" /\ rows'[c].owner = rows[c].owner
        /\ rows'[c].purpose = rows[c].purpose /\ rows'[c].value = rows[c].value
    BY <1>1, <1>2 DEF Rows
  <2> QED
    BY <2>1 DEF GrantOf, Promise!Shut
<1>5. \A d \in Codes : d # c => GrantOf(d)' = GrantOf(d)
  BY <1>1 DEF GrantOf
<1>6. [d \in Codes |-> GrantOf(d)]' =
          [[d \in Codes |-> GrantOf(d)] EXCEPT ![c] = Promise!Shut(GrantOf(c))]
  BY <1>1, <1>4, <1>5
<1>7. IF GrantOf(c).purpose = "contact"
      THEN /\ Promise!Free(GrantOf(c).value, GrantOf(c).owner)
           /\ contact' = [contact EXCEPT ![GrantOf(c).owner] = GrantOf(c).value]
           /\ UNCHANGED word
      ELSE /\ word' = [word EXCEPT ![GrantOf(c).owner] = c]
           /\ UNCHANGED contact
  <2>1. CASE req[q].purpose = "contact"
    <3>1. /\ ~Collides(req[q].value, u) /\ UNCHANGED word
          /\ contact' = [contact EXCEPT ![u] = req[q].value]
      BY <2>1 DEF Write
    <3>2. Promise!Free(req[q].value, u)
      BY <1>1, <2>1, <3>1, FreeContact
    <3> QED
      BY <1>3, <2>1, <3>1, <3>2
  <2>2. CASE req[q].purpose # "contact"
    <3>1. word' = [word EXCEPT ![u] = c] /\ UNCHANGED contact
      BY <2>2 DEF Write
    <3> QED
      BY <1>3, <2>2, <3>1
  <2> QED
    BY <2>1, <2>2
<1>8. Promise!Use(c)
  BY <1>1, <1>3, <1>6, <1>7 DEF Promise!Use
<1> QED
  BY <1>1, <1>8 DEF Promise!Next

\* A new row is a grant.
LEMMA CreateGrants ==
    ASSUME IInv, IInv', NEW q \in Reqs, NEW c \in Codes, Create(q, c)
    PROVE  Promise!Next
<1>1. /\ \A d \in Codes : rows'[d] = IF d = c THEN NewRow(req[q]) ELSE rows[d]
      /\ rows[c].status = "none" /\ UNCHANGED <<contact, word, spent>>
  BY DEF Create, IInv, TypeOK, accounts
<1>2. GrantOf(c).state = "none" /\ GrantOf(c)'.state = "open"
  BY <1>1 DEF GrantOf, NewRow
<1>3. GrantOf(c)' \in Promise!Grants
  <2>1. rows'[c] \in Rows
    BY DEF IInv, TypeOK
  <2> QED
    BY <2>1 DEF GrantOf, Rows, Promise!Grants, AllPurposes, Contacts, Promise!Contacts
<1>4. \A d \in Codes : d # c => GrantOf(d)' = GrantOf(d)
  BY <1>1 DEF GrantOf
<1>5. [d \in Codes |-> GrantOf(d)]' = [[d \in Codes |-> GrantOf(d)] EXCEPT ![c] = GrantOf(c)']
  BY <1>4
<1>6. Promise!Grant(c)
  BY <1>1, <1>2, <1>3, <1>5 DEF Promise!Grant
<1> QED
  BY <1>6 DEF Promise!Next

\* A sign-up written is a join.
LEMMA WriteJoinJoins ==
    ASSUME Spellings = {Stored}, IInv, NEW q \in Reqs, WriteJoin(q)
    PROVE  Promise!Next
<1> DEFINE u == req[q].user
           k == req[q].value
<1>1. u \in Users /\ k \in Contacts
  BY DEF WriteJoin, At, IInv, AsksFilled, Filled
<1>2. contact[u] = None /\ ~Collides(k, u) /\ contact' = [contact EXCEPT ![u] = k]
      /\ UNCHANGED <<word, rows, spent>>
  BY DEF WriteJoin
<1>3. Promise!Free(k, u)
  BY <1>1, <1>2, FreeContact
<1>4. \A c \in Codes : GrantOf(c)' = GrantOf(c)
  BY <1>2 DEF GrantOf
<1>5. Promise!Join(u, k)
  BY <1>2, <1>3, <1>4 DEF Promise!Join
<1> QED
  BY <1>1, <1>5 DEF Promise!Next, Promise!Contacts, Contacts

\* Every step of the flows is a step of OneUse, or none of its concern.
LEMMA StepsPromised ==
    ASSUME Spellings = {Stored}, IInv, IInv', CodeAssumption, [Next]_vars
    PROVE  [Promise!Next]_<<contact, word, [c \in Codes |-> GrantOf(c)], spent>>
<1>1. CASE UNCHANGED <<contact, word, rows, spent>>
  BY <1>1, SameGrants, Stutters
<1>2. ASSUME NEW q \in Reqs, Step(q)
      PROVE  [Promise!Next]_<<contact, word, [c \in Codes |-> GrantOf(c)], spent>>
  <2>1. CASE Retire(q)
    <3>1. UNCHANGED <<contact, word, spent>>
      BY <2>1 DEF Retire, accounts
    <3>2. ASSUME NEW c \in Codes
          PROVE  /\ rows'[c].owner = rows[c].owner /\ rows'[c].purpose = rows[c].purpose
                 /\ rows'[c].value = rows[c].value
                 /\ \/ rows'[c].status = rows[c].status
                    \/ rows[c].status # "none" /\ rows'[c].status = "expired"
      <4>1. rows[c] \in Rows
        BY DEF IInv, TypeOK
      <4>2. \/ rows'[c] = rows[c]
            \/ rows[c].status = "pending" /\ rows'[c] = [rows[c] EXCEPT !.status = "expired"]
        BY <2>1 DEF Retire, Open
      <4> QED
        BY <4>1, <4>2 DEF Rows
    <3> QED
      BY <3>1, <3>2, Withdraws
  <2>2. CASE Void(q)
    <3>1. UNCHANGED <<contact, word, spent>>
      BY <2>2 DEF Void, accounts
    <3>2. req[q].code \in Codes /\ rows[req[q].code].status # "none"
      BY <2>2, OnUsedRow DEF Void, At
    <3>3. ASSUME NEW c \in Codes
          PROVE  /\ rows'[c].owner = rows[c].owner /\ rows'[c].purpose = rows[c].purpose
                 /\ rows'[c].value = rows[c].value
                 /\ \/ rows'[c].status = rows[c].status
                    \/ rows[c].status # "none" /\ rows'[c].status = "expired"
      <4>1. rows[c] \in Rows
        BY DEF IInv, TypeOK
      <4>2. rows'[c] = IF c = req[q].code THEN [rows[c] EXCEPT !.status = "expired"]
                                          ELSE rows[c]
        BY <2>2 DEF Void, IInv, TypeOK
      <4> QED
        BY <3>2, <4>1, <4>2 DEF Rows
    <3> QED
      BY <3>1, <3>3, Withdraws
  <2>3. CASE Delivered(q)
    <3>1. ASSUME NEW c \in Codes
          PROVE  /\ rows'[c].status = rows[c].status /\ rows'[c].owner = rows[c].owner
                 /\ rows'[c].purpose = rows[c].purpose /\ rows'[c].value = rows[c].value
      <4>1. rows[c] \in Rows
        BY DEF IInv, TypeOK
      <4>2. rows'[c] = IF c = req[q].code THEN [rows[c] EXCEPT !.out = TRUE] ELSE rows[c]
        BY <2>3 DEF Delivered, IInv, TypeOK
      <4> QED
        BY <4>1, <4>2 DEF Rows
    <3>2. UNCHANGED <<contact, word, spent>>
      BY <2>3 DEF Delivered, accounts
    <3> QED
      BY <3>1, <3>2, SameGrants, Stutters
  <2>4. CASE Count(q)
    <3>1. ASSUME NEW c \in Codes
          PROVE  /\ rows'[c].status = rows[c].status /\ rows'[c].owner = rows[c].owner
                 /\ rows'[c].purpose = rows[c].purpose /\ rows'[c].value = rows[c].value
      <4>1. rows[c] \in Rows
        BY DEF IInv, TypeOK
      <4>2. rows'[c] = IF c = req[q].code THEN [rows[c] EXCEPT !.tries = @ + 1] ELSE rows[c]
        BY <2>4 DEF Count, IInv, TypeOK
      <4> QED
        BY <4>1, <4>2 DEF Rows
    <3>2. UNCHANGED <<contact, word, spent>>
      BY <2>4 DEF Count, accounts
    <3> QED
      BY <3>1, <3>2, SameGrants, Stutters
  <2>5. CASE \E c \in Codes : Create(q, c)
    BY <2>5, CreateGrants
  <2>6. CASE Undelivered(q) \/ CountNothing(q) \/ Spend(q) \/ Recheck(q) \/ WriteTaken(q)
             \/ Fail(q)
    <3>1. UNCHANGED <<contact, word, rows, spent>>
      BY <2>6 DEF Undelivered, CountNothing, Spend, Recheck, WriteTaken, Fail, accounts
    <3> QED
      BY <3>1, <1>1
  <2>7. CASE Write(q)
    BY <2>7, WriteUses
  <2>8. CASE WriteJoin(q)
    BY <2>8, WriteJoinJoins
  <2> QED
    BY <1>2, <2>1, <2>2, <2>3, <2>4, <2>5, <2>6, <2>7, <2>8 DEF Step
<1>3. ASSUME NEW q \in Reqs, Ask(q)
      PROVE  UNCHANGED <<contact, word, rows, spent>>
  BY <1>3 DEF Ask, AskStart, AskJoin, AskConfirm, Condemn, Mistype, AskResend, accounts
<1>4. ASSUME NEW c \in Codes, Age(c)
      PROVE  [Promise!Next]_<<contact, word, [d \in Codes |-> GrantOf(d)], spent>>
  <2>1. ASSUME NEW d \in Codes
        PROVE  /\ rows'[d].status = rows[d].status /\ rows'[d].owner = rows[d].owner
               /\ rows'[d].purpose = rows[d].purpose /\ rows'[d].value = rows[d].value
    <3>1. rows[d] \in Rows
      BY DEF IInv, TypeOK
    <3>2. rows'[d] = IF d = c THEN [rows[d] EXCEPT !.age = @ + 1] ELSE rows[d]
      BY <1>4 DEF Age, IInv, TypeOK
    <3> QED
      BY <3>1, <3>2 DEF Rows
  <2>2. UNCHANGED <<contact, word, spent>>
    BY <1>4 DEF Age, accounts
  <2> QED
    BY <2>1, <2>2, SameGrants, Stutters
<1>5. CASE UNCHANGED vars
  BY <1>5, <1>1 DEF vars
<1>6. CASE \E q \in Reqs : Step(q) \/ Ask(q)
  BY <1>6, <1>1, <1>2, <1>3
<1> QED
  BY <1>4, <1>5, <1>6 DEF Next

\* A code makes its own change once at most and never after it was retired, and an
\* account changes in no other way (account-code.repository): the flows implement
\* OneUse, if contacts are written one way.
THEOREM PromiseKept ==
    ASSUME Spellings = {Stored}
    PROVE  Spec => KeepsPromise
<1>1. Init => Promise!Init
  <2> SUFFICES ASSUME Init PROVE Promise!Init
    OBVIOUS
  <2>1. \A u \in Users : contact[u] # None => Promise!Free(contact[u], u)
    BY DEF Init, Taken, Promise!Free
  <2>2. [c \in Codes |-> GrantOf(c)] = [c \in Codes |-> Promise!Nothing]
    BY DEF Init, GrantOf, NoRow, Promise!Nothing
  <2> QED
    BY <2>1, <2>2 DEF Init, Promise!Init, Contacts, Promise!Contacts
<1>2. IInv /\ IInv' /\ [Next]_vars =>
          [Promise!Next]_<<contact, word, [c \in Codes |-> GrantOf(c)], spent>>
  BY StepsPromised, CodeAssumption
<1> QED
  BY <1>1, <1>2, CodeInvariance, PTL DEF Spec, KeepsPromise, Promise!Spec
====
