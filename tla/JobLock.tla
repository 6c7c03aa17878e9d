---- MODULE JobLock ----
(***************************************************************************)
(* One scheduled job under the scheduler's locks (apps/backend/src/        *)
(* scheduler): every backend process ticks on the same cron, a script may  *)
(* run the job by hand, and a transaction-scoped Postgres advisory lock    *)
(* decides who runs it.                                                    *)
(*                                                                         *)
(* Time is counted in steps of a cycle of one cron interval. The processes *)
(* fire a tick during the first Skew steps of its cycle. Steps that take   *)
(* no time (asking for the lock, a timer that is due) happen before the    *)
(* clock moves on.                                                         *)
(***************************************************************************)
EXTENDS Integers, FiniteSets

CONSTANTS
    Processes,  \* backend processes
    Scripts,    \* runs by hand (manual-run.ts), each a process of its own
    Interval,   \* time between two ticks of the job
    Skew,       \* the latest a process fires or asks after the tick is due
    MinHold,    \* JOB_LOCK_MIN_HOLD_MS
    MaxRun,     \* JOB_LOCK_MAX_RUN_MS
    MaxFaults,  \* bound: crashes and dropped connections
    None

Runners == Processes \cup Scripts

ASSUME RunnersAssumption == None \notin Runners /\ Processes \cap Scripts = {}
ASSUME TimesAssumption ==
    /\ {Interval, Skew, MinHold, MaxRun, MaxFaults} \subseteq Nat
    /\ Skew < MinHold           \* far longer than any gap between two processes' ticks
    /\ MinHold + Skew < Interval    \* the hold could never swallow the next tick
    /\ MinHold <= MaxRun

VARIABLES
    clock,      \* steps since the last tick was due
    fired,      \* [Processes -> BOOLEAN]  has it fired this cycle's tick?
    up,         \* [Runners -> BOOLEAN]
    phase,      \* [Runners -> Phases]     its call of runExclusive; `running' when not idle
    age,        \* [Runners -> 0..MaxRun]  time since the run won the lock, capped
    ghost,      \* the runners with an abandoned body still executing
    lock,       \* who holds the advisory lock
    spent,      \* history: has this cycle's tick been run, and did its lock last?
    faults      \* bound: faults so far

vars == <<clock, fired, up, phase, age, ghost, lock, spent, faults>>

Phases == {"idle", "asking", "working", "holding"}

Init ==
    /\ clock = 0
    /\ fired = [p \in Processes |-> FALSE]
    /\ up = [p \in Runners |-> TRUE]
    /\ phase = [p \in Runners |-> "idle"]
    /\ age = [p \in Runners |-> 0]
    /\ ghost = {}
    /\ lock = None
    /\ spent = "no"
    /\ faults = 0

\* Leave p's call of runExclusive, and the lock if p still has it.
Leave(p) ==
    /\ phase' = [phase EXCEPT ![p] = "idle"]
    /\ lock' = IF lock = p THEN None ELSE lock

(***************************************************************************)
(* Starting                                                                *)
(***************************************************************************)

\* The cron fires; a process whose last run is not over skips the tick.
FireTick(p) ==
    /\ p \in Processes /\ up[p] /\ ~fired[p]
    /\ clock <= Skew
    /\ fired' = [fired EXCEPT ![p] = TRUE]
    /\ phase' = [phase EXCEPT ![p] = IF @ = "idle" THEN "asking" ELSE @]
    /\ UNCHANGED <<clock, up, age, ghost, lock, spent, faults>>

\* runJobByHand, at any time.
Launch(p) ==
    /\ p \in Scripts /\ up[p] /\ phase[p] = "idle"
    /\ phase' = [phase EXCEPT ![p] = "asking"]
    /\ UNCHANGED <<clock, fired, up, age, ghost, lock, spent, faults>>

\* Slip in Win: the lock is waited for, not tried: whoever asked also runs.
WinAfterWaiting(p) ==
    /\ phase[p] = "asking"
    /\ phase' = [phase EXCEPT ![p] = "working"]
    /\ age' = [age EXCEPT ![p] = 0]
    /\ lock' = p
    /\ spent' = "yes"
    /\ UNCHANGED <<clock, fired, up, ghost, faults>>

\* pg_try_advisory_xact_lock answers true: the body starts.
Win(p) ==
    /\ phase[p] = "asking" /\ lock = None
    /\ phase' = [phase EXCEPT ![p] = "working"]
    /\ age' = [age EXCEPT ![p] = 0]
    /\ lock' = p
    /\ spent' = "yes"
    /\ UNCHANGED <<clock, fired, up, ghost, faults>>

\* It answers false: another process holds this run, skipped here.
Skip(p) ==
    /\ phase[p] = "asking" /\ lock # None
    /\ Leave(p)
    /\ UNCHANGED <<clock, fired, up, age, ghost, spent, faults>>

(***************************************************************************)
(* Running                                                                 *)
(***************************************************************************)

\* Slip in Finish: the hold counts from the end of the body, not from its start.
FinishThenHold(p) ==
    /\ phase[p] = "working"
    /\ phase' = [phase EXCEPT ![p] = "holding"]
    /\ age' = [age EXCEPT ![p] = 0]
    /\ UNCHANGED <<clock, fired, up, ghost, lock, spent, faults>>

\* The body returns or throws; either way the tick is spent.
Finish(p) ==
    /\ phase[p] = "working"
    /\ phase' = [phase EXCEPT ![p] = "holding"]
    /\ UNCHANGED <<clock, fired, up, age, ghost, lock, spent, faults>>

\* Slip in Abandon: no deadline, a hung body keeps its run.
AbandonNever(p) == FALSE /\ UNCHANGED vars /\ phase[p] = "working"

\* withinDeadline gives up on the body, which goes on executing.
Abandon(p) ==
    /\ phase[p] = "working" /\ age[p] >= MaxRun
    /\ phase' = [phase EXCEPT ![p] = "holding"]
    /\ ghost' = ghost \cup {p}
    /\ UNCHANGED <<clock, fired, up, age, lock, spent, faults>>

GhostEnds(p) ==
    /\ p \in ghost
    /\ ghost' = ghost \ {p}
    /\ UNCHANGED <<clock, fired, up, phase, age, lock, spent, faults>>

\* Slip in Close: exclusive while running is taken for one run per tick.
CloseAtOnce(p) ==
    /\ phase[p] = "holding"
    /\ Leave(p)
    /\ UNCHANGED <<clock, fired, up, age, ghost, spent, faults>>

\* The minimum hold is over: COMMIT or ROLLBACK, and the lock goes with it. A
\* script's process exits, and an abandoned body with it.
Close(p) ==
    /\ phase[p] = "holding" /\ age[p] >= MinHold
    /\ Leave(p)
    /\ ghost' = IF p \in Scripts THEN ghost \ {p} ELSE ghost
    /\ UNCHANGED <<clock, fired, up, age, spent, faults>>

(***************************************************************************)
(* Faults                                                                  *)
(***************************************************************************)

\* The tick's own run lost its lock before the hold was over.
Spoiled(p) == IF spent = "yes" /\ lock = p THEN "spoiled" ELSE spent

\* The lock's connection drops; a run under way knows nothing of it, a try-lock
\* that was being asked throws.
Drop(p) ==
    /\ faults < MaxFaults
    /\ phase[p] = "asking" \/ lock = p
    /\ IF phase[p] = "asking"
         THEN Leave(p) /\ UNCHANGED spent
         ELSE lock' = None /\ spent' = Spoiled(p) /\ UNCHANGED phase
    /\ faults' = faults + 1
    /\ UNCHANGED <<clock, fired, up, age, ghost>>

\* Slip in Crash: a session's lock, which a pooled connection keeps.
CrashKeepsLock(p) ==
    /\ faults < MaxFaults
    /\ up[p]
    /\ up' = [up EXCEPT ![p] = FALSE]
    /\ phase' = [phase EXCEPT ![p] = "idle"]
    /\ ghost' = ghost \ {p}
    /\ faults' = faults + 1
    /\ UNCHANGED <<clock, fired, age, lock, spent>>

\* The process dies with every body in it; the server ends its transaction.
Crash(p) ==
    /\ faults < MaxFaults
    /\ up[p]
    /\ up' = [up EXCEPT ![p] = FALSE]
    /\ Leave(p)
    /\ ghost' = ghost \ {p}
    /\ spent' = Spoiled(p)
    /\ faults' = faults + 1
    /\ UNCHANGED <<clock, fired, age>>

\* scheduler.start() in a new process: a tick that is past is not fired.
Restart(p) ==
    /\ ~up[p]
    /\ up' = [up EXCEPT ![p] = TRUE]
    /\ IF p \in Processes
         THEN \E late \in BOOLEAN :
                /\ clock > Skew => late
                /\ fired' = [fired EXCEPT ![p] = @ \/ late]
         ELSE UNCHANGED fired
    /\ UNCHANGED <<clock, phase, age, ghost, lock, spent, faults>>

(***************************************************************************)
(* Time                                                                    *)
(***************************************************************************)

\* Nothing is due now: no question to the server is open, no timer has run out,
\* and every process that is up has fired while it was still time.
Settled ==
    /\ \A p \in Runners :
          /\ phase[p] # "asking"
          /\ phase[p] = "holding" => age[p] < MinHold
          /\ phase[p] = "working" => age[p] < MaxRun
    /\ clock = Skew => \A p \in Processes : up[p] => fired[p]

\* Past MaxRun every timer of the run has gone off: its age is not counted on.
Older(n) == IF n < MaxRun THEN n + 1 ELSE n

Pass ==
    /\ Settled
    /\ age' = [p \in Runners |-> IF phase[p] \in {"working", "holding"}
                                   THEN Older(age[p]) ELSE age[p]]
    /\ IF clock + 1 = Interval
         THEN clock' = 0 /\ fired' = [p \in Processes |-> FALSE] /\ spent' = "no"
         ELSE clock' = clock + 1 /\ UNCHANGED <<fired, spent>>
    /\ UNCHANGED <<up, phase, ghost, lock, faults>>

Next ==
    \/ \E p \in Runners :
          \/ FireTick(p) \/ Launch(p) \/ Win(p) \/ Skip(p)
          \/ Finish(p) \/ Abandon(p) \/ GhostEnds(p) \/ Close(p)
          \/ Drop(p) \/ Crash(p) \/ Restart(p)
    \/ Pass

Spec == Init /\ [][Next]_vars

\* Timers fire, the server answers, a supervisor restarts a dead process and time
\* goes on. Nothing makes a body return.
FairSpec ==
    /\ Spec
    /\ SF_vars(Pass)
    /\ \A p \in Runners :
          WF_vars(FireTick(p)) /\ WF_vars(Win(p) \/ Skip(p)) /\ WF_vars(Abandon(p))
            /\ WF_vars(Close(p))
    /\ \A p \in Processes : WF_vars(Restart(p))

(***************************************************************************)
(* Properties                                                              *)
(***************************************************************************)

\* Every variable has its type (scheduler.ts's running set and job-lock.ts's
\* locals, with the clock they read).
TypeOK ==
    /\ clock \in 0..(Interval - 1)
    /\ fired \in [Processes -> BOOLEAN]
    /\ up \in [Runners -> BOOLEAN]
    /\ phase \in [Runners -> Phases]
    /\ age \in [Runners -> 0..MaxRun]
    /\ ghost \subseteq Runners
    /\ lock \in Runners \cup {None}
    /\ spent \in {"no", "yes", "spoiled"}
    /\ faults \in 0..MaxFaults

\* While no connection drops and no process dies, two bodies run side by side only
\* when the deadline gave one up (job-lock.ts: "any other process does not wait").
RunsAlone ==
    faults = 0 =>
        \A p, o \in Runners : phase[p] = "working" /\ phase[o] = "working" => p = o

\* "One run per tick, across every backend process": once a tick has been run and
\* its lock has not been lost, nobody wins the lock again while processes are still
\* firing that tick.
OncePerTick ==
    [][lock = None /\ lock' # None /\ spent = "yes" => clock > Skew]_vars

\* "It could never swallow the next tick": a process that finds a scheduled run
\* with its body over and its hold still to run out skips a tick that has been run
\* already, never the next one (runExclusive sleeps minHoldMs - ms).
TickNotSwallowed ==
    [][\A p \in Processes :
          Skip(p) /\ lock \in Processes /\ phase[lock] = "holding" /\ age[lock] < MinHold
            => spent = "yes"]_vars

Running(p) == phase[p] \in {"working", "holding"}

\* The lock is held by a run, and by every run while nothing has failed.
HeldByRun ==
    /\ lock \in Runners => Running(lock)
    /\ faults = 0 => \A p \in Runners : Running(p) => lock = p

\* A process asks only while its tick is being fired.
AsksOnTime == \A p \in Processes : phase[p] = "asking" => clock <= Skew

\* While processes may still fire a tick that has been run, its lock is held.
TickGuarded ==
    spent = "yes" /\ clock <= Skew => lock \in Runners /\ age[lock] <= clock

\* A scheduled run is either past its minimum hold or as old as this cycle's tick.
HoldIsOfThisTick ==
    lock \in Processes =>
        \/ age[lock] >= MinHold
        \/ spent = "yes" /\ age[lock] <= clock /\ clock <= age[lock] + Skew

\* The inductive invariant: transaction, run and tick stay together
\* (runExclusive, TRANSACTION-SCOPED, on purpose).
IInv == TypeOK /\ HeldByRun /\ AsksOnTime /\ TickGuarded /\ HoldIsOfThisTick

\* A job that hangs does not end the job: however many bodies never return, runs
\* go on being started (JOB_LOCK_MAX_RUN_MS).
JobKeepsRunning == []<><<\E p \in Runners : Win(p)>>_vars
====
