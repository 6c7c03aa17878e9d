---- MODULE OneUse ----
(***************************************************************************)
(* What the codes an account is sent promise. A code is granted to one     *)
(* account for one change. Used once at most, and never after it was       *)
(* withdrawn, it makes that very change; a sign-in contact and a password  *)
(* change in no other way, except that a person signing up brings a        *)
(* contact. Two accounts never share one.                                  *)
(***************************************************************************)
CONSTANTS Users, Codes, Lines, Spellings, None

VARIABLES
    contact,    \* [Users -> Contacts \cup {None}]  None: no account yet
    word,       \* [Users -> Codes \cup {None}]     the code the password is from
    grant,      \* [Codes -> Grants]
    spent       \* codes used

Contacts == Lines \X Spellings
Grants == [state : {"none", "open", "shut"}, owner : Users \cup {None},
           purpose : {"contact", "password", "reset", None}, value : Contacts \cup {None}]
Nothing == [state |-> "none", owner |-> None, purpose |-> None, value |-> None]
Shut(g) == [state |-> "shut", owner |-> g.owner, purpose |-> g.purpose, value |-> g.value]

Free(k, u) == \A o \in Users : contact[o] # None /\ contact[o][1] = k[1] => o = u

Init ==
    /\ contact \in [Users -> Contacts \cup {None}]
    /\ \A u \in Users : contact[u] # None => Free(contact[u], u)
    /\ word = [u \in Users |-> None]
    /\ grant = [c \in Codes |-> Nothing]
    /\ spent = {}

Grant(c) ==
    /\ grant[c].state = "none"
    /\ grant'[c] \in Grants /\ grant'[c].state = "open"
    /\ grant' = [grant EXCEPT ![c] = grant'[c]]
    /\ UNCHANGED <<contact, word, spent>>

Withdraw ==
    /\ grant' \in [Codes -> Grants]
    /\ \A c \in Codes : \/ grant'[c] = grant[c]
                        \/ grant[c].state = "open" /\ grant'[c] = Shut(grant[c])
    /\ UNCHANGED <<contact, word, spent>>

Use(c) ==
    /\ grant[c].state = "open" /\ c \notin spent
    /\ grant' = [grant EXCEPT ![c] = Shut(grant[c])]
    /\ spent' = spent \cup {c}
    /\ IF grant[c].purpose = "contact"
       THEN /\ Free(grant[c].value, grant[c].owner)
            /\ contact' = [contact EXCEPT ![grant[c].owner] = grant[c].value]
            /\ UNCHANGED word
       ELSE /\ word' = [word EXCEPT ![grant[c].owner] = c]
            /\ UNCHANGED contact

Join(u, k) ==
    /\ contact[u] = None /\ Free(k, u)
    /\ contact' = [contact EXCEPT ![u] = k]
    /\ UNCHANGED <<word, grant, spent>>

Next ==
    \/ Withdraw
    \/ \E c \in Codes : Use(c) \/ Grant(c)
    \/ \E u \in Users, k \in Contacts : Join(u, k)

Spec == Init /\ [][Next]_<<contact, word, grant, spent>>
====
