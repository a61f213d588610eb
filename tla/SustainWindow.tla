----------------------------- MODULE SustainWindow -----------------------------
(***************************************************************************)
(* The sustain window of one rule and pod: _evaluate_rule of               *)
(* src/metrics_adapter.py, check after check, with the time of the first   *)
(* violation that MetricsAdapter keeps under one key of _violation_start.  *)
(*                                                                         *)
(* The unit of time is at most the time between two checks.                *)
(***************************************************************************)
EXTENDS Integers

CONSTANT ForSeconds   \* for_seconds of the rule

ASSUME WindowAssumption == ForSeconds \in Nat

VARIABLES
  kept,      \* the adapter lives from check to check, see Start
  due,       \* the interval between two checks has passed
  first,     \* age of the first violation, _violation_start, or Unset
  violated,  \* what the last check said of the rule and pod
  seen       \* history: the samples by age

window == <<kept, due, first, violated, seen>>

\* An age is cut at ForSeconds, the only one asked for.
Ages == 0 .. ForSeconds
Unset == -1

\* "over" the threshold, not over it, or no sample: no check, no vector for the
\* pod, a query that failed or a value that is not a number.  Of what is older
\* than ForSeconds the last sample counts.
Sample == {"over", "under", "none"}

WindowTypeOK ==
  /\ kept \in BOOLEAN
  /\ due \in BOOLEAN
  /\ first \in Ages \cup {Unset}
  /\ violated \in BOOLEAN
  /\ seen \in [Ages -> Sample]

\* on_timer makes an adapter for every check and drops it; the class, and its
\* tests, are written for one that is kept.
WindowInit ==
  /\ kept \in BOOLEAN
  /\ due = TRUE
  /\ first = Unset
  /\ violated = FALSE
  /\ seen = [a \in Ages |-> "none"]

-------------------------------------------------------------------------------
Start == IF kept THEN first ELSE Unset

\* Mutant: a violation that ends is not forgotten.
KeepStart(sample) == IF Start = Unset /\ sample = "over" THEN 0 ELSE Start

\* _violation_start after a sample.
Started(sample) ==
  CASE sample = "over" -> IF Start = Unset THEN 0 ELSE Start
    [] sample = "under" -> Unset
    [] sample = "none" -> Start

\* Mutant: the window is over with the first violation.
AtOnce(sample) == sample = "over"

\* elapsed >= rule.for_seconds.
Triggers(sample) == sample = "over" /\ Started(sample) >= ForSeconds

Evaluate(sample) ==
  /\ due
  /\ due' = FALSE
  /\ first' = Started(sample)
  /\ violated' = Triggers(sample)
  /\ seen' = IF sample = "none" THEN seen ELSE [seen EXCEPT ![0] = sample]
  /\ UNCHANGED kept

Aged(a) == IF a = Unset \/ a = ForSeconds THEN a ELSE a + 1

WindowTick ==
  /\ due' = TRUE
  /\ first' = Aged(first)
  /\ seen' = [a \in Ages |->
       CASE a = ForSeconds ->
              IF a = 0 \/ seen[a - 1] = "none" THEN seen[a] ELSE seen[a - 1]
         [] a = 0 /\ a # ForSeconds -> "none"
         [] OTHER -> seen[a - 1]]
  /\ UNCHANGED <<kept, violated>>

WindowNext == (\E sample \in Sample : Evaluate(sample)) \/ WindowTick

WindowSpec == WindowInit /\ [][WindowNext]_window

-------------------------------------------------------------------------------
(* Properties *)

\* The samples show that the rule has been violated for ForSeconds: one that old
\* is over the threshold, and none since is not.
Sustained(samples) ==
  /\ samples[ForSeconds] = "over"
  /\ \A a \in Ages : samples[a] # "under"

Checked == due /\ ~due'

\* "How long the condition must hold before triggering" (deploy/crd.yaml): a rule
\* triggers only when its samples show it, and an adapter that is kept misses
\* none, through gaps in the samples and violations that come and go.
WindowIsExact ==
  [][/\ Checked /\ violated' => Sustained(seen')
     /\ kept /\ Evaluate("over") /\ Sustained(seen') => violated']_window

\* The same of the adapters that on_timer makes: what has been violated at every
\* check for ForSeconds triggers.
SustainedTriggers ==
  [][Evaluate("over") /\ Sustained(seen') => violated']_window

-------------------------------------------------------------------------------
(* Why WindowIsExact holds: the inductive invariant *)

\* A sample over the threshold that no later one contradicts.
Standing(a) == seen[a] = "over" /\ \A b \in Ages : b < a => seen[b] # "under"

\* _violation_start is the oldest of them.
OldestStanding ==
  /\ first # Unset => Standing(first)
  /\ kept => \A a \in Ages : Standing(a) => first # Unset /\ a <= first

\* A check meets no sample of its own time.
NoneYet == due /\ ForSeconds > 0 => seen[0] = "none"

WindowIInv == WindowTypeOK /\ OldestStanding /\ NoneYet

===============================================================================
