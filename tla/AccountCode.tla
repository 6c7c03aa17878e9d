---- MODULE AccountCode ----
(***************************************************************************)
(* The codes that move an account's sign-in contact or password            *)
(* (apps/backend/src/features/account-code). A code row is issued by       *)
(* start or resend, sent, and spent by confirm in one transaction with the *)
(* change it stands for; wrong codes are counted and end it.               *)
(*                                                                         *)
(* One instance is about one of the two contacts, email or phone. Its      *)
(* rows, the accounts and the requests' steps are as the database sees     *)
(* them: a confirm's transaction holds the row lock of its code from the   *)
(* spend to its end, and every other write of that row waits for it. The   *)
(* proof of identity may refuse any start, and is left out; so is a        *)
(* refused request. Sign-up is the other writer of contacts.               *)
(***************************************************************************)
EXTENDS Naturals

CONSTANTS
    Users, Codes, Reqs,
    Kind,           \* the contact in question: "email" or "phone"
    Lines,          \* what sign-in tells apart: an inbox, a number
    Spellings,      \* the ways a contact is written by sign-up
    Stored,         \* the one confirm writes: lower case, or + and digits
    Purposes,       \* the flows that run: a subset of AllPurposes
    MaxAttempts,    \* MAX_CODE_ATTEMPTS
    None

AllPurposes == {"contact", "password", "reset"}
Contacts == Lines \X Spellings

ASSUME CodeAssumption ==
    /\ Stored \in Spellings /\ Purposes \subseteq AllPurposes
    /\ MaxAttempts \in Nat \ {0}
    /\ None \notin Users \cup Codes \cup Reqs \cup Contacts

VARIABLES
    contact,    \* [Users -> Contacts \cup {None}]  user.email or user.phone_num
    word,       \* [Users -> Codes \cup {None}]     the code the password came with
    rows,       \* [Codes -> Rows]
    lock,       \* [Codes -> Reqs \cup {None}]      the row lock of a confirm
    req,        \* [Reqs -> Requests]
    told,       \* [Codes -> Nat]  history: wrong codes answered "Invalid code"
    spent       \* history: codes whose confirm has committed

vars == <<contact, word, rows, lock, req, told, spent>>
accounts == <<contact, word>>

\* How old a code is: still cooling down, spendable, lapsed but good for a resend,
\* too old for that.
Cooling == 0
Lapsed == 2
Old == 3

Rows == [status : {"none", "pending", "expired", "consumed"},
         owner : Users \cup {None}, purpose : AllPurposes \cup {None},
         value : Contacts \cup {None}, anchor : Contacts \cup {None},
         tries : 0..MaxAttempts, age : 0..Old, out : BOOLEAN]
NoRow == [status |-> "none", owner |-> None, purpose |-> None, value |-> None,
          anchor |-> None, tries |-> 0, age |-> Cooling, out |-> FALSE]

Places == {"idle", "clearing", "retiring", "creating", "sending", "voiding",
           "counting", "spending", "rechecking", "writing", "joining"}
Requests == [at : Places, user : Users \cup {None}, purpose : AllPurposes \cup {None},
             value : Contacts \cup {None}, anchor : Contacts \cup {None},
             code : Codes \cup {None}]
Request(at, u, p, k, a, c) ==
    [at |-> at, user |-> u, purpose |-> p, value |-> k, anchor |-> a, code |-> c]
NoRequest == Request("idle", None, None, None, None, None)
On(at, c) == Request(at, rows[c].owner, rows[c].purpose, rows[c].value, None, c)

At(q, at) == req[q].at = at
Becomes(q, r) == req' = [req EXCEPT ![q] = r]
Moves(q, at) == req' = [req EXCEPT ![q].at = at]
Ends(q) == Becomes(q, NoRequest)

(***************************************************************************)
(* What the code asks of the tables                                        *)
(***************************************************************************)

\* isContactTaken, isLoginValueTaken: another account signs in with this.
Taken(k, u) == \E o \in Users \ {u} : contact[o] # None /\ contact[o][1] = k[1]

\* user_email_unique, user_phone_num_unique: over the columns as written. Slip: no index.
CollidesNot(k, u) == FALSE
Collides(k, u) == \E o \in Users \ {u} : contact[o] = k

\* phoneAnchor: a code is anchored to the phone, whatever it changes.
Anchor(u) == IF Kind = "phone" THEN contact[u] ELSE None

Open(u, p) == {c \in Codes :
    rows[c].status = "pending" /\ rows[c].owner = u /\ rows[c].purpose = p}
Live(c) == rows[c].status = "pending" /\ rows[c].age < Lapsed
Unlocked(c) == lock[c] = None

\* cooldownRemaining of the newest pending row: any row that cools down is newer than
\* one that does not. (A failing read answers as no row, and is left out.)
InCooldown(u, p) == \E c \in Open(u, p) : rows[c].age = Cooling

\* isCurrentValue, isContactTaken, and that only a contact change names a contact.
MayAsk(u, p, k) ==
    IF p = "contact" THEN /\ k \in Lines \X {Stored}
                          /\ k[1] # contact[u][1] /\ ~Taken(k, u)
                     ELSE k = None

(***************************************************************************)
(* Issuing a code                                                          *)
(***************************************************************************)

Init ==
    /\ contact \in [Users -> Contacts \cup {None}]
    /\ \A u \in Users : contact[u] # None => ~Taken(contact[u], u)
    /\ word = [u \in Users |-> None]
    /\ rows = [c \in Codes |-> NoRow]
    /\ lock = [c \in Codes |-> None]
    /\ req = [q \in Reqs |-> NoRequest]
    /\ told = [c \in Codes |-> 0]
    /\ spent = {}

\* start, of any of the three flows: only the contact change retires rows of its own
\* before issueCode does.
AskStart(q, u, p, k) ==
    /\ At(q, "idle") /\ contact[u] # None
    /\ MayAsk(u, p, k) /\ ~InCooldown(u, p)
    /\ Becomes(q, Request(IF p = "contact" THEN "clearing" ELSE "retiring",
                          u, p, k, Anchor(u), None))
    /\ UNCHANGED <<accounts, rows, lock, told, spent>>

\* resend, standing on a row handed out earlier (resendable).
AskResend(q, c, k) ==
    /\ At(q, "idle")
    /\ rows[c].out /\ rows[c].purpose \in {"contact", "password"}
    /\ rows[c].status \in {"pending", "expired"}
    /\ rows[c].age \notin {Cooling, Old}
    /\ MayAsk(rows[c].owner, rows[c].purpose, k)
    /\ Becomes(q, Request("retiring", rows[c].owner, rows[c].purpose, k,
                          Anchor(rows[c].owner), None))
    /\ UNCHANGED <<accounts, rows, lock, told, spent>>

\* expireOpenForCreator.
Retire(q) ==
    LET C == Open(req[q].user, req[q].purpose)
    IN /\ req[q].at \in {"clearing", "retiring"}
       /\ \A c \in C : Unlocked(c)
       /\ rows' = [c \in Codes |->
             IF c \in C THEN [rows[c] EXCEPT !.status = "expired"] ELSE rows[c]]
       /\ Moves(q, IF At(q, "clearing") THEN "retiring" ELSE "creating")
       /\ UNCHANGED <<accounts, lock, told, spent>>

\* codes.create. A reset hands its id out before it is delivered.
NewRow(r) ==
    [status |-> "pending", owner |-> r.user, purpose |-> r.purpose, value |-> r.value,
     anchor |-> r.anchor, tries |-> 0, age |-> Cooling, out |-> r.purpose = "reset"]
Create(q, c) ==
    /\ At(q, "creating") /\ rows[c].status = "none"
    /\ rows' = [rows EXCEPT ![c] = NewRow(req[q])]
    /\ Becomes(q, [req[q] EXCEPT !.at = "sending", !.code = c])
    /\ UNCHANGED <<accounts, lock, told, spent>>

\* deliver reached a channel: the request is answered "Code sent".
Delivered(q) ==
    /\ At(q, "sending")
    /\ rows' = [rows EXCEPT ![req[q].code].out = TRUE]
    /\ Ends(q)
    /\ UNCHANGED <<accounts, lock, told, spent>>

\* deliver reached none.
Undelivered(q) ==
    /\ At(q, "sending")
    /\ Moves(q, "voiding")
    /\ UNCHANGED <<accounts, rows, lock, told, spent>>

\* codes.update(id, expired), whatever the row has become.
Void(q) ==
    /\ At(q, "voiding") /\ Unlocked(req[q].code)
    /\ rows' = [rows EXCEPT ![req[q].code].status = "expired"]
    /\ Ends(q)
    /\ UNCHANGED <<accounts, lock, told, spent>>

(***************************************************************************)
(* Confirming with a code                                                  *)
(***************************************************************************)

\* confirm or complete with the right code, to the end of its reads.
AskConfirm(q, c) ==
    /\ At(q, "idle") /\ rows[c].out /\ Live(c)
    /\ rows[c].purpose = "reset" => rows[c].tries < MaxAttempts
    /\ rows[c].purpose = "contact" =>
          rows[c].anchor = Anchor(rows[c].owner) /\ ~Taken(rows[c].value, rows[c].owner)
    /\ Becomes(q, On("spending", c))
    /\ UNCHANGED <<accounts, rows, lock, told, spent>>

\* A reset meets a spent budget, or an account that may no longer be reset.
Condemn(q, c) ==
    /\ At(q, "idle") /\ rows[c].out /\ Live(c) /\ rows[c].purpose = "reset"
    /\ Becomes(q, On("voiding", c))
    /\ UNCHANGED <<accounts, rows, lock, told, spent>>

\* confirm or complete with a wrong code.
Mistype(q, c) ==
    /\ At(q, "idle") /\ rows[c].out /\ Live(c)
    /\ rows[c].purpose = "reset" => rows[c].tries < MaxAttempts
    /\ Becomes(q, On("counting", c))
    /\ UNCHANGED <<accounts, rows, lock, told, spent>>

\* Slip: the cap is taken for one code later.
CountOver(q) ==
    LET c == req[q].code
    IN /\ At(q, "counting") /\ Unlocked(c) /\ rows[c].tries < MaxAttempts
       /\ rows' = [rows EXCEPT ![c].tries = @ + 1]
       /\ told' = [told EXCEPT ![c] = @ + 1] /\ Ends(q)
       /\ UNCHANGED <<accounts, lock, spent>>

\* countFailedAttempt: one statement counts and caps; short of the cap the answer is
\* "Invalid code", at the cap the row is to be expired.
Count(q) ==
    LET c == req[q].code
    IN /\ At(q, "counting") /\ Unlocked(c) /\ rows[c].tries < MaxAttempts
       /\ rows' = [rows EXCEPT ![c].tries = @ + 1]
       /\ IF rows[c].tries + 1 < MaxAttempts
          THEN told' = [told EXCEPT ![c] = @ + 1] /\ Ends(q)
          ELSE UNCHANGED told /\ Moves(q, "voiding")
       /\ UNCHANGED <<accounts, lock, spent>>

\* countFailedAttempt answers null: the budget was spent, or the statement failed.
CountNothing(q) ==
    /\ At(q, "counting")
    /\ Moves(q, "voiding")
    /\ UNCHANGED <<accounts, rows, lock, told, spent>>

\* Slip: the code is spent whatever became of it since it was read.
SpendAnyway(q) ==
    LET c == req[q].code
    IN /\ At(q, "spending") /\ Unlocked(c)
       /\ lock' = [lock EXCEPT ![c] = q]
       /\ Moves(q, IF req[q].purpose = "contact" THEN "rechecking" ELSE "writing")
       /\ UNCHANGED <<accounts, rows, told, spent>>

\* The transaction's first statement spends the row only if it is still live, and locks
\* it; else the answer is "already used".
Spend(q) ==
    LET c == req[q].code
    IN /\ At(q, "spending") /\ Unlocked(c)
       /\ IF Live(c)
          THEN /\ lock' = [lock EXCEPT ![c] = q]
               /\ Moves(q, IF req[q].purpose = "contact" THEN "rechecking" ELSE "writing")
          ELSE UNCHANGED lock /\ Ends(q)
       /\ UNCHANGED <<accounts, rows, told, spent>>

Rollback(q) == lock' = [lock EXCEPT ![req[q].code] = None] /\ Ends(q)

\* isContactTaken, inside the transaction.
Recheck(q) ==
    /\ At(q, "rechecking")
    /\ IF Taken(req[q].value, req[q].user)
       THEN Rollback(q) ELSE Moves(q, "writing") /\ UNCHANGED lock
    /\ UNCHANGED <<accounts, rows, told, spent>>

\* The account's row and the commit.
Write(q) ==
    LET u == req[q].user  c == req[q].code
    IN /\ At(q, "writing")
       /\ IF req[q].purpose = "contact"
          THEN /\ ~Collides(req[q].value, u)
               /\ contact' = [contact EXCEPT ![u] = req[q].value]
               /\ UNCHANGED word
          ELSE word' = [word EXCEPT ![u] = c] /\ UNCHANGED contact
       /\ rows' = [rows EXCEPT ![c].status = "consumed"]
       /\ spent' = spent \cup {c}
       /\ Rollback(q)
       /\ UNCHANGED told

\* 23505: the value went to another account a moment ago.
WriteTaken(q) ==
    /\ At(q, "writing") /\ req[q].purpose = "contact"
    /\ Collides(req[q].value, req[q].user)
    /\ Rollback(q)
    /\ UNCHANGED <<accounts, rows, told, spent>>

(***************************************************************************)
(* Sign-up, faults and time                                                *)
(***************************************************************************)

\* A sign-up asks whether its contact is free, and inserts the account later.
AskJoin(q, u, k) ==
    /\ At(q, "idle") /\ contact[u] = None /\ ~Taken(k, u)
    /\ Becomes(q, Request("joining", u, None, k, None, None))
    /\ UNCHANGED <<accounts, rows, lock, told, spent>>

WriteJoin(q) ==
    /\ At(q, "joining")
    /\ contact[req[q].user] = None /\ ~Collides(req[q].value, req[q].user)
    /\ contact' = [contact EXCEPT ![req[q].user] = req[q].value]
    /\ Ends(q)
    /\ UNCHANGED <<word, rows, lock, told, spent>>

\* A statement fails, or the process dies: an open transaction is rolled back.
Fail(q) ==
    /\ ~At(q, "idle")
    /\ lock' = [c \in Codes |-> IF lock[c] = q THEN None ELSE lock[c]]
    /\ Ends(q)
    /\ UNCHANGED <<accounts, rows, told, spent>>

Age(c) ==
    /\ rows[c].status # "none" /\ rows[c].age < Old
    /\ rows' = [rows EXCEPT ![c].age = @ + 1]
    /\ UNCHANGED <<accounts, lock, req, told, spent>>

Step(q) ==
    \/ Retire(q) \/ Delivered(q) \/ Undelivered(q) \/ Void(q)
    \/ Count(q) \/ CountNothing(q)
    \/ Spend(q) \/ Recheck(q) \/ Write(q) \/ WriteTaken(q)
    \/ WriteJoin(q) \/ Fail(q)
    \/ \E c \in Codes : Create(q, c)

Ask(q) ==
    \/ \E u \in Users, p \in Purposes, k \in Contacts \cup {None} : AskStart(q, u, p, k)
    \/ \E u \in Users, k \in Contacts : AskJoin(q, u, k)
    \/ \E c \in Codes :
          \/ AskConfirm(q, c) \/ Condemn(q, c) \/ Mistype(q, c)
          \/ \E k \in Contacts \cup {None} : AskResend(q, c, k)

Next ==
    \/ \E q \in Reqs : Step(q) \/ Ask(q)
    \/ \E c \in Codes : Age(c)

Spec == Init /\ [][Next]_vars

(***************************************************************************)
(* Properties                                                              *)
(***************************************************************************)

\* The tables and the requests hold what they may (phone_verification, user).
TypeOK ==
    /\ contact \in [Users -> Contacts \cup {None}]
    /\ word \in [Users -> Codes \cup {None}]
    /\ rows \in [Codes -> Rows]
    /\ lock \in [Codes -> Reqs \cup {None}]
    /\ req \in [Reqs -> Requests]
    /\ told \in [Codes -> Nat]
    /\ spent \subseteq Codes

\* No two accounts sign in with one contact: neither two confirms, nor a confirm and a
\* sign-up, whose checks each ran before the other's write (applyContactChange).
NoSharedContact ==
    \A u, o \in Users : u # o /\ contact[u] # None /\ contact[o] # None =>
        contact[u][1] # contact[o][1]

\* "Concurrent wrong guesses cannot all read the same count and slip past the cap": of
\* MaxAttempts wrong codes the last is answered "Too many attempts" (recordWrongCode).
GuessesCapped == \A c \in Codes : told[c] < MaxAttempts

\* A request on a code row is about that row's account, flow and contact.
OnItsRow(r) ==
    /\ r.code \in Codes
    /\ rows[r.code].status # "none" /\ rows[r.code].owner = r.user
    /\ rows[r.code].purpose = r.purpose /\ rows[r.code].value = r.value

\* A row in use has an owner and a flow, and names a contact if it is to change one.
RowsFilled ==
    \A c \in Codes :
        /\ rows[c].status = "none" => rows[c] = NoRow
        /\ rows[c].status # "none" =>
              /\ rows[c].owner \in Users /\ rows[c].purpose \in AllPurposes
              /\ rows[c].purpose = "contact" => rows[c].value \in Contacts

\* What a request carries is what its place says.
Filled(r) ==
    /\ r.at \in {"clearing", "retiring", "creating"} =>
          /\ r.user \in Users /\ r.purpose \in AllPurposes
          /\ r.purpose = "contact" => r.value \in Contacts
    /\ r.at \in {"sending", "voiding", "counting", "spending", "rechecking", "writing"} =>
          OnItsRow(r)
    /\ r.at = "rechecking" => r.purpose = "contact"
    /\ r.at = "joining" => r.user \in Users /\ r.value \in Contacts
AsksFilled == \A q \in Reqs : Filled(req[q])

\* The lock of a row and the request at its transaction name each other.
LocksHeld ==
    /\ \A c \in Codes : lock[c] # None =>
          /\ req[lock[c]].at \in {"rechecking", "writing"} /\ req[lock[c]].code = c
          /\ rows[c].status = "pending"
    /\ \A q \in Reqs : req[q].at \in {"rechecking", "writing"} => lock[req[q].code] = q

\* A code is spent when its transaction commits, and is not open again after.
SpentIsShut ==
    \A c \in Codes : c \in spent => rows[c].status \in {"consumed", "expired"}

CountsAgree == \A c \in Codes : told[c] <= rows[c].tries

\* The inductive invariant.
IInv == TypeOK /\ GuessesCapped /\ RowsFilled /\ AsksFilled /\ LocksHeld
        /\ SpentIsShut /\ CountsAgree

\* The flows keep what a code promises: used once at most, never after it was retired,
\* lapsed or exhausted, it makes the change it was issued for, on its own account; and
\* an account changes in no other way ("neither can happen without the other",
\* account-code.repository).
GrantOf(c) ==
    [state |-> IF rows[c].status = "none" THEN "none"
               ELSE IF rows[c].status = "pending" THEN "open" ELSE "shut",
     owner |-> rows[c].owner, purpose |-> rows[c].purpose, value |-> rows[c].value]
Promise == INSTANCE OneUse WITH grant <- [c \in Codes |-> GrantOf(c)]
KeepsPromise == Promise!Spec

\* "Consumed: the code was spent and the thing it authorised has happened. A resend
\* there would mint a code for a finished request": a spent row stays consumed
\* (resendable).
SpentStaysConsumed == \A c \in spent : rows[c].status = "consumed"

\* "A fresh code makes every earlier one useless the moment it is issued"
\* (expireOpenForCreator).
OneOpenCode ==
    \A u \in Users, p \in Purposes : \A c, d \in Open(u, p) :
        rows[c].out /\ rows[d].out => c = d
====
