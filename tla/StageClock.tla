----------------------------- MODULE StageClock -----------------------------
(***************************************************************************)
(* The time budget of one browser stage (ChatGptBrowserWorker.runStage) on *)
(* a machine that may sleep.  The monotonic clock runs on while it sleeps, *)
(* so ChatGptSuspensionClock finds the sleep in the gap between two of its *)
(* ticks, and the stage's timer gives the slept time back before it lets   *)
(* the stage fail.  After a wake-up both callbacks are overdue and may run *)
(* in either order.  One unit of time is the tick interval.                *)
(***************************************************************************)
EXTENDS Naturals

CONSTANTS
    Budget,      \* the stage's timeout
    Gap,         \* gapThresholdMs: a gap between two ticks of that length holds a sleep
    Nap,         \* the lengths a suspension may have, those below Gap included
    MaxSleeps    \* sleeps in one stage

ASSUME StageClockAssumption ==
    /\ Budget \in Nat \ {0} /\ Gap \in Nat /\ MaxSleeps \in Nat
    /\ Gap > 1 /\ Nap \subseteq Nat

VARIABLES
    now,        \* performance.now()
    ticker,     \* ChatGptSuspensionClock: the last tick, and suspendedTotalMs
    stage,      \* when it started, suspendedMs() then, its timer, its end
    truth       \* history: awake time the stage had, sleeps, and sleep that may be charged to it

stageVars == <<now, ticker, stage, truth>>

StageInit ==
    /\ now = 0
    /\ ticker = [last |-> 0, slept |-> 0]
    /\ stage = [timer |-> Budget, end |-> "running"]
    /\ truth = [awake |-> 0, sleeps |-> 0, charged |-> 0]

Running == stage.end = "running"
TickDue == now > ticker.last
TimerDue == Running /\ now >= stage.timer

\* ChatGptSuspensionClock.tick
Ticked == [last |-> now,
           slept |-> IF now - ticker.last >= Gap THEN ticker.slept + (now - ticker.last) - 1
                     ELSE ticker.slept]

\* The machine is awake: nothing overdue is left waiting.
Pass ==
    /\ Running /\ ~TickDue /\ ~TimerDue
    /\ now' = now + 1
    /\ truth' = [truth EXCEPT !.awake = @ + 1]
    /\ UNCHANGED <<ticker, stage>>
\* The clock cannot tell the whole of a nap shorter than its threshold from awake time, and
\* the interval of the tick that finds a longer one.
Sleeps(d) ==
    /\ Running /\ truth.sleeps < MaxSleeps
    /\ now' = now + d
    /\ truth' = [awake |-> truth.awake, sleeps |-> truth.sleeps + 1,
                 charged |-> truth.charged + IF d >= Gap THEN 1 ELSE d]
    /\ UNCHANGED <<ticker, stage>>

Tick ==
    /\ Running /\ TickDue
    /\ ticker' = Ticked
    /\ UNCHANGED <<now, stage, truth>>

\* remainingStageBudgetMs: what is left of the budget of awake time.
Remaining(slept) == Budget - (IF now > slept THEN now - slept ELSE 0)

\* fireOrRearm: suspendedMs() looks at the gap itself, in case the tick that
\* would have seen it has not run yet.
TimerFiresOnLastTick ==
    /\ TimerDue
    /\ stage' = IF ticker.slept + Budget > now THEN [stage EXCEPT !.timer = now + Remaining(ticker.slept)]
                ELSE [stage EXCEPT !.end = "timed_out"]
    /\ UNCHANGED <<now, ticker, truth>>
TimerFires ==
    /\ TimerDue
    /\ ticker' = Ticked
    /\ stage' = IF Ticked.slept + Budget > now THEN [stage EXCEPT !.timer = now + Remaining(Ticked.slept)]
                ELSE [stage EXCEPT !.end = "timed_out"]
    /\ UNCHANGED <<now, truth>>

\* The action settles first.
StageDone ==
    /\ Running
    /\ stage' = [stage EXCEPT !.end = "settled"]
    /\ UNCHANGED <<now, ticker, truth>>

StageNext == Pass \/ Tick \/ TimerFires \/ StageDone \/ \E d \in Nap : Sleeps(d)

StageSpec == StageInit /\ [][StageNext]_stageVars

\* A stage fails only when it had its budget awake, less one tick for each sleep the clock
\* can tell and less the naps it cannot, and never runs on past it: whichever of the two
\* callbacks a wake-up runs first (runStage 2201-2222, ChatGptSuspensionClock 916-946).
BudgetIsAwakeTime ==
    /\ stage.end = "timed_out" => truth.awake + truth.charged >= Budget
    /\ Running => truth.awake <= Budget
=============================================================================
