------------------------------ MODULE Debouncer ------------------------------
(***************************************************************************)
(* The rollout debouncer of internal/agent/debounce.go: the first change   *)
(* is applied at once; those that come during the cooldown wait for a      *)
(* quiet period, but no longer than MaxWait.  Its caller is one event loop *)
(* that reports changes, with their time, and sets a timer for NextAt.     *)
(***************************************************************************)
EXTENDS Integers

CONSTANTS
    Cooldown, QuietPeriod, MaxWait,
    Late,      \* how late the caller's timer may be
    Lag,       \* how much older than its arrival a change's reported time may be
    MaxTime    \* the last instant considered

\* DebounceConfig.Validate
ASSUME DebounceAssumption ==
    /\ Cooldown \in Nat \ {0} /\ QuietPeriod \in Nat \ {0} /\ MaxWait \in Nat
    /\ MaxWait >= QuietPeriod /\ MaxWait >= Cooldown
    /\ Late \in Nat /\ Lag \in Nat /\ MaxTime \in Nat

VARIABLES
    clock,        \* the caller's clock; 0 is time.Time{}, before every instant
    debouncer,
    waiting,      \* history: when the oldest change not yet applied arrived, 0 if none
    lastApply     \* history: the last time the caller was told to apply, 0 if never

debounceVars == <<clock, debouncer, waiting, lastApply>>

\* A debouncer with nothing pending.
Idle(until) ==
    [cooldownUntil |-> until, pending |-> FALSE, debounceStart |-> 0, lastChange |-> 0]

DebounceInit == clock = 1 /\ debouncer = Idle(0) /\ waiting = 0 /\ lastApply = 0

Earlier(s, t) == IF s < t THEN s ELSE t
Later(s, t) == IF s < t THEN t ELSE s

\* The slips: a forgotten cooldown; a maximal wait counted from the last change.
DueDespiteCooldown ==
    Earlier(debouncer.lastChange + QuietPeriod, debouncer.debounceStart + MaxWait)
DueWhenQuiet == Later(debouncer.cooldownUntil, debouncer.lastChange + QuietPeriod)

\* nextDueAtAndReason
NextDueAt ==
    Later(debouncer.cooldownUntil,
          Earlier(debouncer.lastChange + QuietPeriod, debouncer.debounceStart + MaxWait))

Overdue(at) == debouncer.pending /\ at >= NextDueAt

\* The caller is told to apply: what had arrived before is done with.
Apply == lastApply' = clock

(***************************************************************************)
(* RecordChange.                                                           *)
(***************************************************************************)
ApplyAtOnce(at) ==
    /\ ~debouncer.pending /\ at >= debouncer.cooldownUntil
    /\ debouncer' = [debouncer EXCEPT !.cooldownUntil = at + Cooldown]
    /\ Apply
    /\ UNCHANGED waiting

\* Slip: the change that starts the window leaves no mark.
BatchUnmarked(at) ==
    /\ IF debouncer.pending THEN ~Overdue(at) ELSE at < debouncer.cooldownUntil
    /\ debouncer' = [debouncer EXCEPT
           !.debounceStart = IF debouncer.pending THEN Earlier(@, at) ELSE at,
           !.lastChange = at]
    /\ waiting' = IF waiting = 0 THEN clock ELSE waiting
    /\ UNCHANGED lastApply

Batch(at) ==
    /\ IF debouncer.pending THEN ~Overdue(at) ELSE at < debouncer.cooldownUntil
    /\ debouncer' = [debouncer EXCEPT
           !.pending = TRUE,
           !.debounceStart = IF debouncer.pending THEN Earlier(@, at) ELSE at,
           !.lastChange = at]
    /\ waiting' = IF waiting = 0 THEN clock ELSE waiting
    /\ UNCHANGED lastApply

\* A change at the very instant the batch is due goes with it.
Coalesce(at) ==
    /\ Overdue(at) /\ at = NextDueAt
    /\ debouncer' = Idle(at + Cooldown)
    /\ Apply
    /\ waiting' = 0

\* A later one flushes the overdue batch and starts the next.
FlushAndRecord(at) ==
    /\ Overdue(at) /\ at > NextDueAt
    /\ debouncer' = [cooldownUntil |-> at + Cooldown, pending |-> TRUE,
                     debounceStart |-> at, lastChange |-> at]
    /\ Apply
    /\ waiting' = clock

RecordChange(at) ==
    /\ ApplyAtOnce(at) \/ Batch(at) \/ Coalesce(at) \/ FlushAndRecord(at)
    /\ UNCHANGED clock

\* Due, when the timer fires.
Due ==
    /\ Overdue(clock)
    /\ debouncer' = Idle(clock + Cooldown)
    /\ Apply
    /\ waiting' = 0
    /\ UNCHANGED clock

Tick ==
    /\ clock < MaxTime
    /\ debouncer.pending => clock < NextDueAt + Late
    /\ clock' = clock + 1
    /\ UNCHANGED <<debouncer, waiting, lastApply>>

DebounceNext ==
    \/ \E at \in 1..MaxTime : clock - Lag <= at /\ at <= clock /\ RecordChange(at)
    \/ Due
    \/ Tick

DebounceSpec == DebounceInit /\ [][DebounceNext]_debounceVars

(***************************************************************************)
(* What should be true.                                                    *)
(***************************************************************************)
\* The debouncer's fields have their types, and it is pending exactly when some
\* change has arrived that no decision to apply has covered: none is forgotten,
\* and no rollout is due for nothing (RecordChange, Due).
DebounceTypeOK ==
    /\ clock \in Nat /\ waiting \in Nat /\ lastApply \in Nat
    /\ debouncer \in [cooldownUntil : Nat, pending : BOOLEAN,
                      debounceStart : Nat, lastChange : Nat]
    /\ debouncer.pending <=> waiting # 0

\* However changes keep arriving, a change waits for its rollout no longer than
\* the maximal wait and what the caller's timer is late, the cooldown notwithstanding
\* (nextDueAtAndReason; MaxWait >= Cooldown is what makes it possible).
AppliedInTime == waiting # 0 => clock - waiting <= MaxWait + Late

\* Two rollouts are a cooldown apart, less what the time reported for a change
\* lags behind its arrival (the caller reports the commit's time, and the cooldown
\* is counted from it).
AppliesApart ==
    [][lastApply' # lastApply =>
          \/ lastApply = 0
          \/ lastApply' - lastApply >= Cooldown - Lag]_debounceVars

=============================================================================
