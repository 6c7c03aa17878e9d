---- MODULE JobLockProofs ----
(***************************************************************************)
(* The scheduler's lock, for any number of processes and scripts and any   *)
(* interval, hold and deadline that TimesAssumption allows: IInv is        *)
(* inductive, and what the runs check follows from it.                     *)
(***************************************************************************)
EXTENDS JobLock, TLAPS

USE RunnersAssumption, TimesAssumption

\* Leaving takes the lock along only when the lock was the leaver's.
LEMMA LeaveType ==
    ASSUME TypeOK, NEW p \in Runners, Leave(p)
    PROVE  /\ phase' \in [Runners -> Phases]
           /\ lock' \in Runners \cup {None}
BY DEF TypeOK, Leave, Phases

\* Every action keeps every variable in its type.
LEMMA StepType ==
    ASSUME TypeOK, [Next]_vars
    PROVE  TypeOK'
<1> USE DEF TypeOK, Phases
<1>1. ASSUME NEW p \in Runners, FireTick(p)
      PROVE  TypeOK'
  BY <1>1 DEF FireTick
<1>2. ASSUME NEW p \in Runners, Launch(p)
      PROVE  TypeOK'
  BY <1>2 DEF Launch
<1>3. ASSUME NEW p \in Runners, Win(p)
      PROVE  TypeOK'
  BY <1>3 DEF Win
<1>4. ASSUME NEW p \in Runners, Skip(p)
      PROVE  TypeOK'
  BY <1>4, LeaveType DEF Skip
<1>5. ASSUME NEW p \in Runners, Finish(p)
      PROVE  TypeOK'
  BY <1>5 DEF Finish
<1>6. ASSUME NEW p \in Runners, Abandon(p)
      PROVE  TypeOK'
  BY <1>6 DEF Abandon
<1>7. ASSUME NEW p \in Runners, GhostEnds(p)
      PROVE  TypeOK'
  BY <1>7 DEF GhostEnds
<1>8. ASSUME NEW p \in Runners, Close(p)
      PROVE  TypeOK'
  BY <1>8, LeaveType DEF Close
<1>9. ASSUME NEW p \in Runners, Drop(p)
      PROVE  TypeOK'
  <2>1. CASE phase[p] = "asking"
    BY <1>9, <2>1, LeaveType DEF Drop
  <2>2. CASE phase[p] # "asking"
    BY <1>9, <2>2 DEF Drop, Spoiled
  <2> QED BY <2>1, <2>2
<1>10. ASSUME NEW p \in Runners, Crash(p)
       PROVE  TypeOK'
  BY <1>10, LeaveType DEF Crash, Spoiled
<1>11. ASSUME NEW p \in Runners, Restart(p)
       PROVE  TypeOK'
  BY <1>11 DEF Restart
<1>12. ASSUME Pass
       PROVE  TypeOK'
  <2>1. age' \in [Runners -> 0..MaxRun]
    <3>1. \A n \in 0..MaxRun : Older(n) \in 0..MaxRun
      BY DEF Older
    <3> QED BY <1>12, <3>1 DEF Pass
  <2>2. CASE clock + 1 = Interval
    <3>1. clock' = 0 /\ fired' = [o \in Processes |-> FALSE] /\ spent' = "no"
      BY <1>12, <2>2 DEF Pass
    <3>2. UNCHANGED <<up, phase, ghost, lock, faults>>
      BY <1>12 DEF Pass
    <3>3. 0 \in 0..(Interval - 1)
      OBVIOUS
    <3> QED BY <2>1, <3>1, <3>2, <3>3
  <2>3. CASE clock + 1 # Interval
    BY <1>12, <2>1, <2>3 DEF Pass
  <2> QED BY <2>2, <2>3
<1>13. CASE UNCHANGED vars
  BY <1>13 DEF vars
<1> QED
  BY <1>1, <1>2, <1>3, <1>4, <1>5, <1>6, <1>7, <1>8, <1>9, <1>10, <1>11, <1>12,
     <1>13 DEF Next

\* Every reachable state of the scheduler's lock is well typed.
THEOREM TypeCorrect == Spec => []TypeOK
<1>1. Init => TypeOK
  BY DEF Init, TypeOK, Phases
<1> QED BY <1>1, StepType, PTL DEF Spec

\* A step of a process's call that neither takes the lock nor gives it up.
LEMMA StepUnderWay ==
    ASSUME IInv, TypeOK',
           NEW p \in Runners,
           FireTick(p) \/ Launch(p) \/ Finish(p) \/ Abandon(p) \/ GhostEnds(p)
             \/ Restart(p)
    PROVE  IInv'
<1> USE DEF IInv, TypeOK
<1>1. UNCHANGED <<clock, age, lock, spent, faults>>
  BY DEF FireTick, Launch, Finish, Abandon, GhostEnds, Restart
<1>2. \A o \in Runners : Running(o)' <=> Running(o)
  BY DEF FireTick, Launch, Finish, Abandon, GhostEnds, Restart, Running
<1>3. HeldByRun'
  BY <1>1, <1>2 DEF HeldByRun
<1>4. \A o \in Processes : phase'[o] = "asking" => phase[o] = "asking" \/ clock <= Skew
  BY DEF FireTick, Launch, Finish, Abandon, GhostEnds, Restart, Runners
<1>5. AsksOnTime'
  BY <1>1, <1>4 DEF AsksOnTime
<1>6. TickGuarded' /\ HoldIsOfThisTick'
  BY <1>1 DEF TickGuarded, HoldIsOfThisTick
<1> QED BY <1>3, <1>5, <1>6

\* A process that wins the lock is its only holder, and a scheduled run wins it
\* while its tick is being fired.
LEMMA StepWin ==
    ASSUME IInv, TypeOK', NEW p \in Runners, Win(p)
    PROVE  IInv'
<1> USE DEF IInv, TypeOK
<1>1. lock' = p /\ age'[p] = 0 /\ spent' = "yes" /\ Running(p)' /\ lock = None
      /\ UNCHANGED <<clock, faults>>
  BY DEF Win, Running
<1>2. \A o \in Runners \ {p} : phase'[o] = phase[o]
  BY DEF Win
<1>3. HeldByRun'
  BY <1>1, <1>2 DEF HeldByRun, Running
<1>4. AsksOnTime'
  BY DEF AsksOnTime, Win, Runners
<1>5. TickGuarded'
  BY <1>1 DEF TickGuarded
<1>6. p \in Processes => clock <= Skew
  BY DEF AsksOnTime, Win
<1>7. HoldIsOfThisTick'
  BY <1>1, <1>6 DEF HoldIsOfThisTick
<1> QED BY <1>3, <1>4, <1>5, <1>7

\* A call that leaves without the lock, refused or broken off, changes nothing the
\* others rely on.
LEMMA StepLeaveAsking ==
    ASSUME IInv, TypeOK', NEW p \in Runners, phase[p] = "asking", Leave(p),
           UNCHANGED <<clock, age, spent>>, faults' \in {faults, faults + 1}
    PROVE  IInv'
<1> USE DEF IInv, TypeOK
<1>1. lock' = lock
  BY DEF Leave, HeldByRun, Running
<1>2. \A o \in Runners : Running(o)' <=> Running(o)
  BY DEF Leave, Running
<1>3. faults' = 0 => faults = 0
  OBVIOUS
<1>4. HeldByRun'
  BY <1>1, <1>2, <1>3 DEF HeldByRun
<1>5. AsksOnTime'
  BY DEF AsksOnTime, Leave, Runners
<1>6. TickGuarded' /\ HoldIsOfThisTick'
  BY <1>1 DEF TickGuarded, HoldIsOfThisTick
<1> QED BY <1>4, <1>5, <1>6

\* A transaction ends only after the minimum hold: by then nobody fires the tick
\* the run was started by.
LEMMA StepClose ==
    ASSUME IInv, TypeOK', NEW p \in Runners, Close(p)
    PROVE  IInv'
<1> USE DEF IInv, TypeOK
<1>1. /\ lock' = IF lock = p THEN None ELSE lock
      /\ phase' = [phase EXCEPT ![p] = "idle"]
      /\ UNCHANGED <<clock, age, spent, faults>>
      /\ age[p] >= MinHold
  BY DEF Close, Leave
<1>2. HeldByRun'
  BY <1>1 DEF HeldByRun, Running
<1>3. AsksOnTime'
  BY <1>1 DEF AsksOnTime, Runners
<1>4. spent = "yes" /\ clock <= Skew => lock # p
  BY <1>1 DEF TickGuarded
<1>5. TickGuarded'
  BY <1>1, <1>4 DEF TickGuarded
<1>6. HoldIsOfThisTick'
  BY <1>1 DEF HoldIsOfThisTick, Runners
<1> QED BY <1>2, <1>3, <1>5, <1>6

\* A lost connection or a dead process ends its hold, and with it the promise of
\* one run per tick.
LEMMA StepFault ==
    ASSUME IInv, TypeOK', NEW p \in Runners, Drop(p) \/ Crash(p)
    PROVE  IInv'
<1> USE DEF IInv, TypeOK
<1>1. CASE Drop(p) /\ phase[p] = "asking"
  BY <1>1, StepLeaveAsking DEF Drop
<1>2. CASE ~(Drop(p) /\ phase[p] = "asking")
  <2>1. /\ lock' = IF lock = p THEN None ELSE lock
        /\ phase' \in {phase, [phase EXCEPT ![p] = "idle"]}
        /\ spent' = Spoiled(p)
        /\ faults' = faults + 1
        /\ UNCHANGED <<clock, age>>
    BY <1>2 DEF Drop, Crash, Leave
  <2>2. HeldByRun'
    BY <2>1 DEF HeldByRun, Running
  <2>3. AsksOnTime'
    BY <2>1 DEF AsksOnTime, Runners
  <2>4. CASE lock = p
    BY <2>1, <2>2, <2>3, <2>4 DEF TickGuarded, HoldIsOfThisTick, Spoiled, Runners
  <2>5. CASE lock # p
    <3>1. lock' = lock /\ spent' = spent
      BY <2>1, <2>5 DEF Spoiled
    <3> QED BY <2>1, <2>2, <2>3, <3>1 DEF TickGuarded, HoldIsOfThisTick
  <2> QED BY <2>4, <2>5
<1> QED BY <1>1, <1>2

\* Time: a run ages with the clock, so one of this tick is past its hold when the
\* next tick is due.
LEMMA StepPass ==
    ASSUME IInv, TypeOK', Pass
    PROVE  IInv'
<1> USE DEF IInv, TypeOK
<1>1. UNCHANGED <<phase, lock, faults>>
  BY DEF Pass
<1>2. HeldByRun'
  BY <1>1 DEF HeldByRun, Running
<1>3. AsksOnTime'
  BY <1>1 DEF AsksOnTime, Pass, Settled, Runners
<1>4. lock \in Runners => age'[lock] = Older(age[lock])
  BY DEF Pass, HeldByRun, Running
<1>5. lock \in Runners =>
          \/ age'[lock] = age[lock] + 1
          \/ age'[lock] >= MinHold /\ age'[lock] = age[lock]
  BY <1>4 DEF Older
<1>6. CASE clock + 1 = Interval
  <2>1. clock' = 0 /\ spent' = "no"
    BY <1>6 DEF Pass
  <2>2. lock \in Processes => age'[lock] >= MinHold
    BY <1>5, <1>6 DEF HoldIsOfThisTick, Runners
  <2> QED BY <1>1, <1>2, <1>3, <2>1, <2>2 DEF TickGuarded, HoldIsOfThisTick
<1>7. CASE clock + 1 # Interval
  <2>1. clock' = clock + 1 /\ spent' = spent
    BY <1>7 DEF Pass
  <2>2. TickGuarded'
    BY <1>1, <1>5, <2>1 DEF TickGuarded
  <2>3. HoldIsOfThisTick'
    BY <1>1, <1>5, <2>1 DEF HoldIsOfThisTick, Runners
  <2> QED BY <1>2, <1>3, <2>2, <2>3
<1> QED BY <1>6, <1>7

\* The strengthened invariant holds in every reachable state.
THEOREM InvariantHolds == Spec => []IInv
<1>1. Init => IInv
  BY DEF Init, IInv, TypeOK, Phases, HeldByRun, Running, AsksOnTime, TickGuarded,
         HoldIsOfThisTick, Runners
<1>2. ASSUME IInv, [Next]_vars
      PROVE  IInv'
  <2>1. TypeOK'
    BY <1>2, StepType DEF IInv
  <2>2. ASSUME NEW p \in Runners, Skip(p)
        PROVE  IInv'
    BY <1>2, <2>1, <2>2, StepLeaveAsking DEF Skip
  <2>3. CASE UNCHANGED vars
    BY <1>2, <2>1, <2>3 DEF vars, IInv, HeldByRun, Running, AsksOnTime, TickGuarded,
                            HoldIsOfThisTick
  <2> QED
    BY <1>2, <2>1, <2>2, <2>3, StepUnderWay, StepWin, StepClose, StepFault, StepPass
       DEF Next
<1> QED BY <1>1, <1>2, PTL DEF Spec

\* However many processes tick together, no two bodies of the job run side by side
\* until a connection drops, a process dies or the deadline gives a body up.
THEOREM NoTwoRuns == Spec => []RunsAlone
<1>1. IInv => RunsAlone
  BY DEF IInv, HeldByRun, Running, RunsAlone
<1> QED BY <1>1, InvariantHolds, PTL

\* A tick that has been run, and whose lock has not been lost, is not run again by
\* a process that fires it late.
THEOREM OneRunPerTick == Spec => OncePerTick
<1>1. IInv => [lock = None /\ lock' # None /\ spent = "yes" => clock > Skew]_vars
  BY DEF IInv, TypeOK, TickGuarded
<1> QED BY <1>1, InvariantHolds, PTL DEF OncePerTick

\* A hold that is still to run out costs no process a tick that was not run.
THEOREM HoldSwallowsNoTick == Spec => TickNotSwallowed
<1>1. IInv => [\A p \in Processes :
                  Skip(p) /\ lock \in Processes /\ phase[lock] = "holding"
                      /\ age[lock] < MinHold
                    => spent = "yes"]_vars
  BY DEF IInv, TypeOK, HoldIsOfThisTick, Runners
<1> QED BY <1>1, InvariantHolds, PTL DEF TickNotSwallowed
====
