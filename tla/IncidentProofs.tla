----------------------------- MODULE IncidentProofs ----------------------------
(***************************************************************************)
(* Theorems about Incident, SustainWindow and TicketRetry, for any window, *)
(* number of attempts, delays, jitter and cooldown.                        *)
(***************************************************************************)
EXTENDS Incident, FiniteSetTheorems, TLAPS

-------------------------------------------------------------------------------
(* The sustain window *)

LEMMA WindowInitOK == WindowInit => WindowIInv
  <1> SUFFICES ASSUME WindowInit PROVE WindowIInv
    OBVIOUS
  <1>1. WindowTypeOK
    BY DEF WindowInit, WindowTypeOK, Sample
  <1>2. \A a \in Ages : seen[a] = "none"
    BY DEF WindowInit
  <1>3. OldestStanding
    BY <1>2 DEF WindowInit, OldestStanding, Standing
  <1>4. NoneYet
    BY <1>2, WindowAssumption DEF NoneYet, Ages
  <1>5. QED
    BY <1>1, <1>3, <1>4 DEF WindowIInv

LEMMA EvaluateKeeps ==
  ASSUME WindowIInv, NEW sample \in Sample, Evaluate(sample)
  PROVE  WindowIInv'
  <1> USE WindowAssumption DEF WindowIInv, Ages, Unset
  <1>1. /\ seen' \in [Ages -> Sample]
        /\ \A a \in Ages : a > 0 => seen'[a] = seen[a]
        /\ seen'[0] = IF sample = "none" THEN seen[0] ELSE sample
    BY DEF Evaluate, WindowTypeOK
  <1>2. first' = Started(sample) /\ kept' = kept /\ due' = FALSE
    BY DEF Evaluate
  <1>3. WindowTypeOK'
    <2>1. first' \in Ages \cup {Unset}
      BY <1>2 DEF WindowTypeOK, Started, Start, Sample
    <2>2. violated' \in BOOLEAN
      BY DEF Evaluate, Triggers
    <2>3. kept' \in BOOLEAN /\ due' \in BOOLEAN
      BY <1>2 DEF WindowTypeOK
    <2>4. QED
      BY <1>1, <2>1, <2>2, <2>3 DEF WindowTypeOK
  <1>4. ForSeconds > 0 => seen[0] = "none"
    BY DEF Evaluate, NoneYet
  <1>5. CASE sample = "none"
    BY <1>1, <1>2, <1>3, <1>5 DEF OldestStanding, Standing, NoneYet, Started, Start, WindowTypeOK
  <1>6. CASE sample = "under"
    <2>1. \A a \in Ages : ~Standing(a)'
      BY <1>1, <1>6 DEF Standing
    <2>2. QED
      BY <1>2, <1>3, <1>6, <2>1 DEF OldestStanding, NoneYet, Started
  <1>7. CASE sample = "over"
    <2>1. \A a \in Ages : a > 0 => (Standing(a)' <=> Standing(a))
      BY <1>1, <1>4, <1>7 DEF Standing
    <2>2. Standing(0)'
      BY <1>1, <1>7 DEF Standing
    <2>3. QED
      BY <1>2, <1>3, <1>7, <2>1, <2>2 DEF OldestStanding, NoneYet, Started, Start, WindowTypeOK
  <1>8. QED
    BY <1>5, <1>6, <1>7 DEF Sample

\* Time moves the samples, and with them the oldest that stands.
LEMMA WindowTickKeeps ==
  ASSUME WindowIInv, WindowTick
  PROVE  WindowIInv'
  <1> USE WindowAssumption DEF WindowIInv, Ages, Unset
  <1>1. /\ first' = Aged(first) /\ kept' = kept /\ due' = TRUE /\ violated' = violated
        /\ first' \in Ages \cup {Unset}
    BY DEF WindowTick, WindowTypeOK, Aged
  <1>2. CASE ForSeconds = 0
    <2>1. seen' = seen /\ first' = first
      BY <1>1, <1>2 DEF WindowTick, WindowTypeOK, Aged
    <2>2. QED
      BY <1>1, <1>2, <2>1 DEF WindowTypeOK, OldestStanding, Standing, NoneYet
  <1>3. CASE ForSeconds > 0
    <2>1. /\ seen' \in [Ages -> Sample]
          /\ seen'[0] = "none"
          /\ \A a \in Ages : 0 < a /\ a < ForSeconds => seen'[a] = seen[a - 1]
          /\ seen'[ForSeconds] = IF seen[ForSeconds - 1] = "none" THEN seen[ForSeconds]
                                 ELSE seen[ForSeconds - 1]
      BY <1>3 DEF WindowTick, WindowTypeOK, Sample
    <2>2. WindowTypeOK' /\ NoneYet'
      BY <1>1, <2>1 DEF WindowTypeOK, NoneYet
    <2>3. ASSUME NEW a \in Ages, Standing(a)'
          PROVE  \/ a > 0 /\ Standing(a - 1)
                 \/ a = ForSeconds /\ Standing(a)
      <3>1. a > 0
        BY <2>1, <2>3 DEF Standing
      <3>2. \A b \in Ages : b + 1 < a => seen[b] # "under"
        <4> SUFFICES ASSUME NEW b \in Ages, b + 1 < a PROVE seen[b] # "under"
          OBVIOUS
        <4>1. b + 1 \in Ages /\ seen'[b + 1] = seen[b]
          BY <2>1
        <4>2. QED
          BY <2>3, <4>1 DEF Standing
      <3>3. QED
        BY <2>1, <2>3, <3>1, <3>2 DEF Standing
    <2>4. ASSUME NEW a \in Ages, Standing(a)
          PROVE  /\ seen'[Aged(a)] = "over"
                 /\ \A b \in Ages : b < Aged(a) => seen'[b] # "under"
      <3>1. \A b \in Ages : b < Aged(a) => seen'[b] # "under"
        BY <2>1, <2>4 DEF Standing, Aged
      <3>2. seen'[Aged(a)] = "over"
        <4>1. CASE a = ForSeconds
          <5>1. seen[a - 1] # "under" /\ seen[a - 1] \in Sample
            BY <1>3, <2>4, <4>1 DEF Standing, WindowTypeOK
          <5>2. QED
            BY <2>1, <2>4, <4>1, <5>1 DEF Standing, Sample, Aged
        <4>2. CASE a < ForSeconds
          BY <2>1, <2>4, <4>2 DEF Standing, Aged
        <4>3. QED
          BY <4>1, <4>2
      <3>3. QED
        BY <3>1, <3>2
    <2>5. (first # Unset => Standing(first))'
      <3>1. first = Unset => first' = Unset
        BY <1>1 DEF Aged
      <3>2. CASE first # Unset
        <4>1. first \in Ages /\ Standing(first) /\ first' = Aged(first)
          BY <1>1, <3>2 DEF OldestStanding, WindowTypeOK
        <4>2. QED
          BY <2>4, <4>1 DEF Standing
      <3>3. QED
        BY <3>1, <3>2
    <2>6. kept' => \A a \in Ages : Standing(a)' => first' # Unset /\ a <= first'
      BY <1>1, <2>3 DEF OldestStanding, Aged, WindowTypeOK
    <2>7. QED
      BY <2>2, <2>5, <2>6 DEF OldestStanding
  <1>4. QED
    BY <1>2, <1>3

-------------------------------------------------------------------------------
(* The ticket *)

LEMMA LongestInNat == Longest \in Nat /\ MaxDelay <= Longest
  <1>1. MaxDelay \div JitterPart \in Nat
    BY TicketAssumption
  <1>2. QED
    BY <1>1, TicketAssumption DEF Longest, Jittered

\* A backoff is at most the longest one.
LEMMA BackoffBounded ==
  ASSUME NEW attempt \in Nat, NEW wait \in Backoff(attempt)
  PROVE  wait \in 0 .. Longest
  <1> DEFINE delay == Delay(attempt)
  <1>1. 2 ^ attempt \in Int
    OBVIOUS
  <1>2. BaseDelay * 2 ^ attempt \in Int
    BY <1>1, TicketAssumption
  <1>3. delay \in Int /\ delay <= MaxDelay
    BY <1>2, TicketAssumption DEF Delay
  <1>4. delay \div JitterPart \in Int /\ delay \div JitterPart <= MaxDelay \div JitterPart
    <2> HIDE DEF delay
    <2> QED
      BY <1>3, TicketAssumption
  <1>5. MaxDelay \div JitterPart \in Nat
    BY TicketAssumption
  <1> HIDE DEF delay
  <1>6. Positive(delay - delay \div JitterPart) \in Nat
    BY <1>3, <1>4 DEF Positive
  <1>7. Jittered(delay) \in Int /\ Jittered(delay) <= Longest
    BY <1>3, <1>4, <1>5, TicketAssumption DEF Jittered, Longest
  <1>8. wait \in Positive(delay - delay \div JitterPart) .. Jittered(delay)
    BY DEF delay, Backoff
  <1>9. QED
    BY <1>6, <1>7, <1>8, LongestInNat

\* n backoffs of at most k are no longer than m of them, and one more adds k.
LEMMA Times ==
  ASSUME NEW n \in Nat, NEW m \in Nat, NEW k \in Nat, n <= m
  PROVE  /\ n * k \in Nat
         /\ n * k <= m * k
         /\ (n + 1) * k = n * k + k
  OBVIOUS

LEMMA TicketInitOK == TicketInit => TicketIInv
  BY TicketAssumption, LongestInNat, Times
  DEF TicketInit, TicketIInv, TicketTypeOK, Call, Outcome, PerAttempt, OnePayload,
      DuplicatesNeedLostAnswers

\* While a call runs, what it slept fits the attempts but the last.
LEMMA SleptSoFar ==
  ASSUME TicketIInv, call.pc # "idle"
  PROVE  /\ call.attempt \in Nat /\ call.wait \in Nat /\ slept \in Nat
         /\ MaxAttempts \in Nat /\ call.attempt + 1 <= MaxAttempts
         /\ slept + call.wait <= call.attempt * Longest
         /\ call.attempt * Longest <= (MaxAttempts - 1) * Longest
         /\ (MaxAttempts - 1) * Longest <= MaxAttempts * Longest
  <1>1. /\ call.attempt \in Nat /\ call.wait \in Nat /\ slept \in Nat
        /\ MaxAttempts \in Nat /\ call.attempt + 1 <= MaxAttempts
        /\ slept + call.wait <= call.attempt * Longest
    BY LongestInNat, TicketAssumption DEF TicketIInv, TicketTypeOK, Call, PerAttempt
  <1>2. MaxAttempts - 1 \in Nat
    BY <1>1
  <1>3. QED
    BY <1>1, <1>2, Times, LongestInNat

LEMMA BeginKeeps == ASSUME TicketIInv, Begin PROVE TicketIInv'
  <1>1. /\ tickets' = 0 /\ lost' = 0 /\ incidents' = {} /\ slept' = 0
        /\ outcome' = IF MaxAttempts = 0 THEN "failed" ELSE "none"
        /\ call' = [pc |-> IF MaxAttempts = 0 THEN "idle" ELSE "request",
                    attempt |-> 0, wait |-> 0, made |-> 0]
    BY DEF Begin
  <1>2. 0 * Longest = 0 /\ 0 \in 0 .. MaxAttempts * Longest
    BY LongestInNat, TicketAssumption, Times
  <1>3. TicketTypeOK'
    BY <1>1, <1>2, LongestInNat, TicketAssumption DEF TicketTypeOK, Call, Outcome
  <1>4. QED
    BY <1>1, <1>2, <1>3, TicketAssumption
    DEF TicketIInv, PerAttempt, OnePayload, DuplicatesNeedLostAnswers

\* A call that ends with or without a ticket.
LEMMA EndKeeps ==
  ASSUME TicketIInv, call.pc = "request", Opens \/ OpensNone,
         NEW how \in {"created", "raised", "refused"}, End(how),
         Opens => how # "refused", UNCHANGED <<lost, slept>>
  PROVE  TicketIInv'
  <1>1. call' = [call EXCEPT !.pc = "idle"] /\ outcome' = how
    BY DEF End
  <1>2. tickets <= call.attempt /\ tickets \in Nat /\ tickets <= lost /\ outcome = "none"
        /\ call.wait = 0 /\ lost \in 0 .. tickets
    BY DEF TicketIInv, PerAttempt, TicketTypeOK, Call, DuplicatesNeedLostAnswers
  <1>3. /\ tickets' = tickets + 1 \/ tickets' = tickets
        /\ how = "refused" => tickets' = tickets
        /\ incidents' \subseteq {call.made} /\ call.made \in 0 .. MaxAttempts * Longest
    BY DEF Opens, OpensNone, TicketIInv, OnePayload, TicketTypeOK, Call
  <1>4. TicketTypeOK'
    <2>1. tickets' \in 0 .. MaxAttempts
      BY <1>2, <1>3, SleptSoFar
    <2>2. lost' \in 0 .. tickets'
      BY <1>2, <1>3
    <2>3. QED
      BY <1>1, <1>3, <2>1, <2>2 DEF TicketTypeOK, TicketIInv, Call, Outcome
  <1>5. PerAttempt' /\ OnePayload'
    BY <1>1, <1>2, <1>3 DEF PerAttempt, OnePayload, TicketIInv, TicketTypeOK, Call
  <1>6. DuplicatesNeedLostAnswers'
    BY <1>1, <1>2, <1>3 DEF DuplicatesNeedLostAnswers
  <1>7. QED
    BY <1>4, <1>5, <1>6 DEF TicketIInv

LEMMA UnansweredKeeps == ASSUME TicketIInv, Unanswered PROVE TicketIInv'
  <1>1. tickets <= call.attempt /\ tickets \in Nat /\ tickets <= lost /\ outcome = "none"
        /\ call.wait = 0 /\ lost \in 0 .. tickets /\ lost = tickets /\ call.pc = "request"
    BY DEF TicketIInv, PerAttempt, TicketTypeOK, Call, DuplicatesNeedLostAnswers, Unanswered
  <1>2. /\ tickets' = tickets + 1 \/ tickets' = tickets
        /\ lost' = tickets' /\ slept' = slept
        /\ incidents' \subseteq {call.made} /\ call.made \in 0 .. MaxAttempts * Longest
    BY <1>1 DEF Unanswered, Opens, OpensNone, TicketIInv, OnePayload, TicketTypeOK, Call
  <1>3. /\ call.attempt \in Nat /\ slept \in Nat /\ MaxAttempts \in Nat
        /\ call.attempt + 1 <= MaxAttempts /\ slept <= call.attempt * Longest
        /\ tickets' \in 0 .. MaxAttempts
    BY <1>1, <1>2, SleptSoFar
  <1>4. CASE call.attempt + 1 = MaxAttempts /\ End("failed")
    <2>1. call' = [call EXCEPT !.pc = "idle"] /\ outcome' = "failed"
      BY <1>4 DEF End
    <2>2. TicketTypeOK'
      BY <1>2, <1>3, <2>1 DEF TicketTypeOK, TicketIInv, Call, Outcome
    <2>3. PerAttempt' /\ OnePayload' /\ DuplicatesNeedLostAnswers'
      BY <1>1, <1>2, <1>3, <2>1
      DEF PerAttempt, OnePayload, DuplicatesNeedLostAnswers, TicketIInv, TicketTypeOK, Call
    <2>4. QED
      BY <2>2, <2>3 DEF TicketIInv
  <1>5. ASSUME call.attempt + 1 < MaxAttempts, NEW wait \in Backoff(call.attempt),
               call' = [call EXCEPT !.pc = "backoff", !.attempt = @ + 1, !.wait = wait],
               UNCHANGED outcome
        PROVE  TicketIInv'
    <2>1. wait \in 0 .. Longest
      BY <1>3, <1>5, BackoffBounded
    <2>2. /\ call'.pc = "backoff" /\ call'.attempt = call.attempt + 1 /\ call'.wait = wait
          /\ call'.made = call.made
      BY <1>5 DEF TicketIInv, TicketTypeOK, Call
    <2>3. slept + wait <= (call.attempt + 1) * Longest
      <3>1. (call.attempt + 1) * Longest = call.attempt * Longest + Longest
            /\ call.attempt * Longest \in Nat
        BY <1>3, Times, LongestInNat
      <3>2. QED
        BY <1>3, <2>1, <3>1, LongestInNat
    <2>4. TicketTypeOK'
      <3>1. call' \in Call
        <4>1. call \in Call /\ call.attempt + 1 \in 0 .. MaxAttempts
          BY <1>3, <1>5 DEF TicketTypeOK, TicketIInv
        <4>2. QED
          BY <1>5, <2>1, <4>1 DEF Call
      <3>2. slept' \in 0 .. MaxAttempts * Longest /\ incidents' \subseteq 0 .. MaxAttempts * Longest
        BY <1>2 DEF TicketTypeOK, TicketIInv
      <3>3. QED
        BY <1>1, <1>2, <1>3, <1>5, <3>1, <3>2 DEF TicketTypeOK, Outcome
    <2>5. PerAttempt' /\ OnePayload' /\ DuplicatesNeedLostAnswers'
      BY <1>1, <1>2, <1>3, <1>5, <2>2, <2>3
      DEF PerAttempt, OnePayload, DuplicatesNeedLostAnswers
    <2>6. QED
      BY <2>4, <2>5 DEF TicketIInv
  <1>6. QED
    BY <1>4, <1>5 DEF Unanswered, BackOff

LEMMA WakeKeeps == ASSUME TicketIInv, Wake PROVE TicketIInv'
  BY DEF Wake, TicketIInv, TicketTypeOK, Call, PerAttempt, OnePayload,
         DuplicatesNeedLostAnswers

\* Time spent in a backoff was part of it before.
LEMMA TicketTickKeeps == ASSUME TicketIInv, TicketTick PROVE TicketIInv'
  <1>1. CASE call.pc = "backoff" /\ call.wait > 0
    <2>1. /\ call' = [call EXCEPT !.wait = @ - 1] /\ slept' = slept + 1
          /\ outcome' = outcome /\ tickets' = tickets /\ lost' = lost /\ incidents' = incidents
      BY <1>1 DEF TicketTick
    <2>2. /\ call.attempt \in Nat /\ call.wait \in Nat /\ slept \in Nat
          /\ MaxAttempts \in Nat /\ call.attempt + 1 <= MaxAttempts
          /\ slept + call.wait <= call.attempt * Longest
          /\ call.attempt * Longest <= (MaxAttempts - 1) * Longest
          /\ (MaxAttempts - 1) * Longest <= MaxAttempts * Longest
      BY <1>1, SleptSoFar
    <2>3. /\ call.attempt * Longest \in Nat /\ (MaxAttempts - 1) * Longest \in Nat
          /\ MaxAttempts * Longest \in Nat
      BY <2>2, Times, LongestInNat
    <2>4. slept + 1 \in 0 .. MaxAttempts * Longest
      BY <1>1, <2>2, <2>3
    <2>5. TicketTypeOK'
      BY <1>1, <2>1, <2>4, LongestInNat DEF TicketTypeOK, TicketIInv, Call
    <2>6. PerAttempt' /\ OnePayload' /\ DuplicatesNeedLostAnswers'
      BY <1>1, <2>1, <2>2, <2>3
      DEF PerAttempt, OnePayload, DuplicatesNeedLostAnswers, TicketIInv, TicketTypeOK, Call
    <2>7. QED
      BY <2>5, <2>6 DEF TicketIInv
  <1>2. CASE ~(call.pc = "backoff" /\ call.wait > 0)
    BY <1>2 DEF TicketTick, TicketIInv, TicketTypeOK, PerAttempt, OnePayload,
                DuplicatesNeedLostAnswers
  <1>3. QED
    BY <1>1, <1>2

LEMMA AnswerKeeps == ASSUME TicketIInv, Answer PROVE TicketIInv'
  <1>1. CASE Accepted
    BY <1>1, EndKeeps DEF Accepted
  <1>2. CASE Redirected
    BY <1>2, EndKeeps DEF Redirected
  <1>3. CASE Refused
    <2>1. ~Opens
      BY <1>3 DEF Refused, OpensNone, Opens, TicketIInv, TicketTypeOK
    <2>2. QED
      BY <1>3, <2>1, EndKeeps DEF Refused
  <1>4. CASE Unanswered
    BY <1>4, UnansweredKeeps
  <1>5. QED
    BY <1>1, <1>2, <1>3, <1>4 DEF Answer

-------------------------------------------------------------------------------
(* Both *)

LEMMA WindowUnchanged ==
  ASSUME WindowIInv, UNCHANGED window
  PROVE  WindowIInv'
  BY DEF window, WindowIInv, WindowTypeOK, OldestStanding, Standing, NoneYet

LEMMA TicketUnchanged ==
  ASSUME TicketIInv, UNCHANGED ticketVars
  PROVE  TicketIInv'
  BY DEF ticketVars, TicketIInv, TicketTypeOK, PerAttempt, OnePayload,
         DuplicatesNeedLostAnswers

\* The invariant behind the theorems: the remembered violation is the oldest that
\* stands, and every attempt opened one ticket and slept one backoff at most.
THEOREM IncidentInductive == IncidentSpec => []IncidentIInv
  <1> USE IncidentAssumption
  <1>1. IncidentInit => IncidentIInv
    BY WindowInitOK, TicketInitOK
    DEF IncidentInit, IncidentIInv, IncidentTypeOK, WindowIInv, TicketIInv
  <1>2. IncidentIInv /\ [IncidentNext]_incidentVars => IncidentIInv'
    <2> SUFFICES ASSUME IncidentIInv, [IncidentNext]_incidentVars
                 PROVE  IncidentIInv'
      OBVIOUS
    <2>1. ASSUME WindowIInv', TicketIInv', (last \in 0 .. Cooldown)'
          PROVE  IncidentIInv'
      BY <2>1 DEF IncidentIInv, IncidentTypeOK, WindowIInv, TicketIInv
    <2>2. WindowIInv /\ TicketIInv /\ last \in 0 .. Cooldown
      BY DEF IncidentIInv, IncidentTypeOK
    <2>3. ASSUME NEW sample \in Sample, Check(sample) PROVE IncidentIInv'
      <3>1. WindowIInv'
        BY <2>2, <2>3, EvaluateKeeps DEF Check
      <3>2. TicketIInv' /\ (last \in 0 .. Cooldown)'
        BY <2>2, <2>3, BeginKeeps, TicketUnchanged DEF Check
      <3>3. QED
        BY <2>1, <3>1, <3>2
    <2>4. CASE Answers
      BY <2>1, <2>2, <2>4, AnswerKeeps, WindowUnchanged DEF Answers
    <2>5. CASE Wakes
      BY <2>1, <2>2, <2>5, WakeKeeps, WindowUnchanged DEF Wakes
    <2>6. CASE Tick
      <3>1. (last \in 0 .. Cooldown)'
        BY <2>2, <2>6 DEF Tick
      <3>2. QED
        BY <2>1, <2>2, <2>6, <3>1, TicketTickKeeps, WindowTickKeeps DEF Tick
    <2>7. CASE UNCHANGED incidentVars
      BY <2>1, <2>2, <2>7, WindowUnchanged, TicketUnchanged DEF incidentVars
    <2>8. QED
      BY <2>3, <2>4, <2>5, <2>6, <2>7 DEF IncidentNext
  <1>3. QED
    BY <1>1, <1>2, PTL DEF IncidentSpec

\* A check that triggers shows a sustained violation.
LEMMA TriggersIsSustained ==
  ASSUME WindowIInv, NEW sample \in Sample, Evaluate(sample), Triggers(sample)
  PROVE  Sustained(seen')
  <1> USE WindowAssumption DEF Ages, Unset
  <1>1. WindowIInv'
    BY EvaluateKeeps
  <1>2. first' = ForSeconds
    BY <1>1 DEF Evaluate, Triggers, WindowIInv, WindowTypeOK
  <1>3. seen'[ForSeconds] = "over" /\ \A b \in Ages : b < ForSeconds => seen'[b] # "under"
    BY <1>1, <1>2 DEF WindowIInv, OldestStanding, Standing
  <1>4. QED
    BY <1>3 DEF Sustained

\* A check of an adapter that is kept triggers when there is one.
LEMMA SustainedIsTriggers ==
  ASSUME WindowIInv, Evaluate("over"), kept, Sustained(seen')
  PROVE  Triggers("over")
  <1> USE WindowAssumption DEF Ages, Unset
  <1>1. WindowIInv' /\ kept' /\ first' = Started("over")
    BY EvaluateKeeps DEF Sample, Evaluate
  <1>2. ForSeconds \in Ages /\ Standing(ForSeconds)'
    BY DEF Sustained, Standing
  <1>3. first' # Unset /\ ForSeconds <= first' /\ first' \in Ages \cup {Unset}
    BY <1>1, <1>2 DEF WindowIInv, OldestStanding, WindowTypeOK
  <1>4. QED
    BY <1>1, <1>3 DEF Triggers

\* A check that asks for a ticket triggers.
LEMMA CheckAsks ==
  ASSUME WindowIInv, NEW sample \in Sample, Check(sample), call.pc = "idle", call'.pc # "idle"
  PROVE  Triggers(sample)
  BY DEF Check, Remediates, ticketVars

\* Time alone does not check.
LEMMA OnlyChecksCheck ==
  ASSUME [IncidentNext]_incidentVars, Checked
  PROVE  \E sample \in Sample : Check(sample)
  <1>1. ~Checked \/ ~(Answers \/ Wakes \/ Tick \/ UNCHANGED incidentVars)
    BY DEF Checked, Answers, Wakes, Tick, WindowTick, incidentVars, window
  <1>2. QED
    BY <1>1 DEF IncidentNext

LEMMA OnlyChecksAsk ==
  ASSUME [IncidentNext]_incidentVars, TicketIInv, call.pc = "idle", call'.pc # "idle"
  PROVE  \E sample \in Sample : Check(sample)
  <1>1. ~(Answers \/ Wakes \/ UNCHANGED incidentVars)
    BY DEF Answers, Answer, Accepted, Redirected, Refused, Unanswered, Wakes, Wake,
           incidentVars, ticketVars
  <1>2. ~Tick
    BY DEF Tick, TicketTick
  <1>3. QED
    BY <1>1, <1>2 DEF IncidentNext

-------------------------------------------------------------------------------
(* The theorems *)

\* Every variable has its type, at every moment: no call makes an attempt too
\* many, and no backoff is longer than the cap and its jitter.
THEOREM IncidentTypeCorrect == IncidentSpec => []IncidentTypeOK
  <1>1. IncidentIInv => IncidentTypeOK
    BY DEF IncidentIInv
  <1>2. QED
    BY <1>1, IncidentInductive, PTL

\* A rule triggers when, and for an adapter that is kept only when, its samples
\* show a violation of ForSeconds, in any order of samples and gaps.
THEOREM WindowTheorem == IncidentSpec => WindowIsExact
  <1>1. IncidentIInv /\ [IncidentNext]_incidentVars
          => [/\ Checked /\ violated' => Sustained(seen')
              /\ kept /\ Evaluate("over") /\ Sustained(seen') => violated']_window
    <2> SUFFICES ASSUME IncidentIInv, [IncidentNext]_incidentVars
                 PROVE  /\ Checked /\ violated' => Sustained(seen')
                        /\ kept /\ Evaluate("over") /\ Sustained(seen') => violated'
      OBVIOUS
    <2>1. WindowIInv
      BY DEF IncidentIInv
    <2>2. ASSUME Checked, violated' PROVE Sustained(seen')
      <3>1. PICK sample \in Sample : Check(sample)
        BY <2>2, OnlyChecksCheck
      <3>2. Evaluate(sample) /\ Triggers(sample)
        BY <2>2, <3>1 DEF Check, Evaluate
      <3>3. QED
        BY <2>1, <3>2, TriggersIsSustained
    <2>3. ASSUME kept, Evaluate("over"), Sustained(seen') PROVE violated'
      <3>1. Triggers("over")
        BY <2>1, <2>3, SustainedIsTriggers
      <3>2. QED
        BY <2>3, <3>1 DEF Evaluate
    <2>4. QED
      BY <2>2, <2>3
  <1>2. QED
    BY <1>1, IncidentInductive, PTL DEF IncidentSpec, WindowIsExact

\* A ticket is asked for only when the samples show a violation of ForSeconds.
THEOREM TicketTheorem == IncidentSpec => TicketIsForSustained
  <1>1. IncidentIInv /\ [IncidentNext]_incidentVars
          => [call.pc = "idle" /\ call'.pc # "idle" => Sustained(seen')]_incidentVars
    <2> SUFFICES ASSUME IncidentIInv, [IncidentNext]_incidentVars,
                        call.pc = "idle", call'.pc # "idle"
                 PROVE  Sustained(seen')
      OBVIOUS
    <2>1. WindowIInv /\ TicketIInv
      BY DEF IncidentIInv
    <2>2. PICK sample \in Sample : Check(sample)
      BY <2>1, OnlyChecksAsk
    <2>3. Evaluate(sample) /\ Triggers(sample)
      BY <2>1, <2>2, CheckAsks DEF Check
    <2>4. QED
      BY <2>1, <2>3, TriggersIsSustained
  <1>2. QED
    BY <1>1, IncidentInductive, PTL DEF IncidentSpec, TicketIsForSustained

\* Tickets are no more than answers lost, and the one that arrived.
THEOREM DuplicatesTheorem == IncidentSpec => []DuplicatesNeedLostAnswers
  <1>1. IncidentIInv => DuplicatesNeedLostAnswers
    BY DEF IncidentIInv, TicketIInv
  <1>2. QED
    BY <1>1, IncidentInductive, PTL

\* All attempts of a call bear one incident_id.
THEOREM OneIncidentTheorem == IncidentSpec => []OneIncident
  <1>1. IncidentIInv => OneIncident
    <2> SUFFICES ASSUME IncidentIInv PROVE OneIncident
      OBVIOUS
    <2>1. incidents = {} \/ incidents = {call.made}
      BY DEF IncidentIInv, TicketIInv, OnePayload
    <2>2. Cardinality(incidents) \in {0, 1}
      BY <2>1, FS_EmptySet, FS_Singleton
    <2>3. QED
      BY <2>2 DEF OneIncident
  <1>2. QED
    BY <1>1, IncidentInductive, PTL

-------------------------------------------------------------------------------
(* The end of a call *)

\* What is left of a call that runs: no less than one more attempt.
LEMMA LeftOfCall ==
  ASSUME TicketIInv, call.pc # "idle"
  PROVE  /\ Left \in Nat
         /\ (MaxAttempts - call.attempt - 1) * (Longest + 2) \in Nat
         /\ Left = (MaxAttempts - call.attempt - 1) * (Longest + 2) + Longest + 2
                   + (IF call.pc = "backoff" THEN call.wait + 1 ELSE 0)
  <1> DEFINE n == MaxAttempts - call.attempt - 1
             k == Longest + 2
  <1>1. n \in Nat /\ k \in Nat /\ MaxAttempts - call.attempt = n + 1 /\ call.wait \in Nat
    BY SleptSoFar, LongestInNat
  <1>2. n * k \in Nat /\ (n + 1) * k = n * k + k
    <2> HIDE DEF n, k
    <2> QED
      BY <1>1, Times
  <1>3. Left = (n + 1) * k + (IF call.pc = "backoff" THEN call.wait + 1 ELSE 0)
    BY <1>1 DEF Left
  <1>4. Left = n * k + k + (IF call.pc = "backoff" THEN call.wait + 1 ELSE 0)
    BY <1>2, <1>3
  <1> HIDE DEF n
  <1>5. Left = n * k + Longest + 2 + (IF call.pc = "backoff" THEN call.wait + 1 ELSE 0)
    <2>1. n * (Longest + 2) \in Nat /\ Longest \in Nat
      BY <1>2, LongestInNat
    <2>2. QED
      BY <1>1, <1>4, <2>1
  <1>6. Left \in Nat
    BY <1>1, <1>2, <1>5, LongestInNat
  <1>7. QED
    BY <1>2, <1>5, <1>6 DEF n

LEMMA LeftType == TicketIInv => Left \in Nat
  BY LeftOfCall DEF Left

\* An answer ends the call, or leaves one attempt less.
LEMMA AnswerProgresses ==
  ASSUME TicketIInv, Answer
  PROVE  Left' < Left
  <1>1. call.pc = "request" /\ Left \in Nat /\ 0 < Left
    <2>1. call.pc = "request"
      BY DEF Answer, Accepted, Redirected, Refused, Unanswered
    <2>2. QED
      BY <2>1, LeftOfCall, LongestInNat
  <1>2. ASSUME NEW how, End(how) PROVE Left' < Left
    <2>1. call'.pc = "idle"
      BY <1>2 DEF End, TicketIInv, TicketTypeOK, Call
    <2>2. QED
      BY <1>1, <2>1 DEF Left
  <1>3. ASSUME call.attempt + 1 < MaxAttempts, NEW wait \in Backoff(call.attempt),
               call' = [call EXCEPT !.pc = "backoff", !.attempt = @ + 1, !.wait = wait]
        PROVE  Left' < Left
    <2>1. call'.pc = "backoff" /\ call'.attempt = call.attempt + 1 /\ call'.wait = wait
      BY <1>3 DEF TicketIInv, TicketTypeOK, Call
    <2>2. call.attempt \in Nat /\ MaxAttempts \in Nat
      BY <1>1, SleptSoFar
    <2>3. wait \in 0 .. Longest
      BY <2>2, BackoffBounded
    <2>4. Left' = (MaxAttempts - (call.attempt + 1)) * (Longest + 2) + (wait + 1)
      BY <2>1 DEF Left, Longest, Jittered
    <2>5. MaxAttempts - (call.attempt + 1) = MaxAttempts - call.attempt - 1
      BY <2>2
    <2>6. /\ Left = (MaxAttempts - call.attempt - 1) * (Longest + 2) + Longest + 2 + 0
          /\ (MaxAttempts - call.attempt - 1) * (Longest + 2) \in Nat
      BY <1>1, LeftOfCall
    <2> DEFINE others == (MaxAttempts - call.attempt - 1) * (Longest + 2)
    <2>7. Left' = others + (wait + 1) /\ Left = others + Longest + 2 + 0 /\ others \in Nat
      BY <2>4, <2>5, <2>6
    <2> HIDE DEF others
    <2>8. QED
      BY <2>3, <2>7, LongestInNat
  <1>4. QED
    BY <1>2, <1>3 DEF Answer, Accepted, Redirected, Refused, Unanswered, BackOff

\* The rest of a call is bounded at each of its steps: webhook failures cannot hold
\* a run of on_timer for ever (_retry_request), for any attempts and delays.
THEOREM ProgressTheorem == IncidentSpec => CallProgresses
  <1>1. TicketIInv' => (Left \in Nat)'
    BY LeftType, PTL
  <1>2. IncidentIInv /\ [IncidentNext]_incidentVars
          => [call.pc # "idle" => /\ Left' <= Left
                                  /\ call' # call => Left' < Left]_ticketVars
    <2> SUFFICES ASSUME IncidentIInv, [IncidentNext]_incidentVars, call.pc # "idle"
                 PROVE  Left' <= Left /\ (call' # call => Left' < Left)
      OBVIOUS
    <2>1. TicketIInv /\ Left \in Nat
      BY LeftOfCall DEF IncidentIInv
    <2>2. ASSUME Left' < Left PROVE Left' <= Left
      <3>1. TicketIInv'
        BY <2>1, AnswerKeeps, WakeKeeps, TicketTickKeeps, TicketUnchanged
        DEF IncidentNext, Check, Answers, Wakes, Tick, incidentVars
      <3>2. QED
        BY <1>1, <2>1, <2>2, <3>1
    <2>3. CASE call' = call
      <3>1. Left' = Left
        BY <2>3 DEF Left, Longest, Jittered
      <3>2. QED
        BY <2>1, <2>3, <3>1
    <2>4. CASE Answers
      BY <2>1, <2>2, <2>4, AnswerProgresses DEF Answers
    <2>5. CASE Wakes
      <3>1. call.pc = "backoff" /\ call.wait = 0 /\ call'.pc = "request"
            /\ call'.attempt = call.attempt
        BY <2>1, <2>5 DEF Wakes, Wake, TicketIInv, TicketTypeOK, Call
      <3>2. Left' < Left
        <4> DEFINE work == (MaxAttempts - call.attempt) * (Longest + 2)
        <4>1. Left = work + 1 /\ Left' = work + 0
          BY <3>1 DEF Left, Longest, Jittered
        <4>2. work \in Int
          BY SleptSoFar, LongestInNat, <2>1
        <4> HIDE DEF work
        <4>3. QED
          BY <4>1, <4>2
      <3>3. QED
        BY <2>2, <3>2
    <2>6. CASE Tick
      <3>1. CASE call.pc = "backoff" /\ call.wait > 0
        <4>1. call'.pc = "backoff" /\ call'.wait = call.wait - 1 /\ call'.attempt = call.attempt
          BY <2>1, <2>6, <3>1 DEF Tick, TicketTick, TicketIInv, TicketTypeOK, Call
        <4> DEFINE work == (MaxAttempts - call.attempt) * (Longest + 2)
        <4>2. Left = work + (call.wait + 1) /\ Left' = work + (call.wait - 1 + 1)
          BY <3>1, <4>1 DEF Left, Longest, Jittered
        <4>3. work \in Int /\ call.wait \in Nat
          BY SleptSoFar, LongestInNat, <2>1
        <4> HIDE DEF work
        <4>4. QED
          BY <4>2, <4>3
      <3>2. QED
        BY <2>3, <2>6, <3>1 DEF Tick, TicketTick
    <2>7. QED
      BY <2>3, <2>4, <2>5, <2>6 DEF IncidentNext, Check, incidentVars, ticketVars
  <1>3. QED
    BY <1>2, IncidentInductive, PTL DEF IncidentSpec, CallProgresses

-------------------------------------------------------------------------------
(* When SustainedTriggers holds after all *)

\* An adapter is kept, or made for every check, once and for all.
LEMMA KeptIsConstant == [IncidentNext]_incidentVars => kept' = kept
  BY DEF IncidentNext, Check, Evaluate, Answers, Wakes, Tick, WindowTick, incidentVars, window

\* Had on_timer kept its adapter, no violation of forSeconds would be missed.
THEOREM KeptAdapterTriggers == IncidentSpec /\ kept => SustainedTriggers
  <1>1. IncidentIInv /\ kept /\ [IncidentNext]_incidentVars
          => [Evaluate("over") /\ Sustained(seen') => violated']_window
    BY SustainedIsTriggers DEF IncidentIInv, Evaluate
  <1>2. kept /\ [IncidentNext]_incidentVars => kept'
    BY KeptIsConstant
  <1>3. QED
    BY <1>1, <1>2, IncidentInductive, PTL DEF IncidentSpec, SustainedTriggers

\* A rule with forSeconds of zero, the default (deploy/crd.yaml), misses none either
\* way, also of the adapters that on_timer makes.
THEOREM UnsustainedTriggers ==
  ASSUME ForSeconds = 0
  PROVE  IncidentSpec => SustainedTriggers
  <1>1. IncidentIInv /\ [IncidentNext]_incidentVars
          => [Evaluate("over") /\ Sustained(seen') => violated']_window
    <2> SUFFICES ASSUME IncidentIInv, Evaluate("over") PROVE violated'
      OBVIOUS
    <2>1. first \in Ages \cup {Unset}
      BY DEF IncidentIInv, WindowIInv, WindowTypeOK
    <2>2. Triggers("over")
      BY <2>1 DEF Triggers, Started, Start, Ages, Unset
    <2>3. QED
      BY <2>2 DEF Evaluate
  <1>2. QED
    BY <1>1, IncidentInductive, PTL DEF IncidentSpec, SustainedTriggers

\* With forSeconds, and the adapters that on_timer makes, no rule ever triggers and
\* no ticket is ever asked for, whatever the samples.
THEOREM FreshAdapterNeverTriggers ==
  ASSUME ForSeconds > 0
  PROVE  IncidentSpec /\ ~kept => [](~violated /\ call.pc = "idle" /\ tickets = 0)
  <1> DEFINE Never == ~kept /\ ~violated /\ call.pc = "idle" /\ tickets = 0
  <1>1. IncidentInit /\ ~kept => Never
    BY DEF IncidentInit, WindowInit, TicketInit
  <1>2. IncidentIInv /\ Never /\ [IncidentNext]_incidentVars => Never'
    <2> SUFFICES ASSUME IncidentIInv, Never, [IncidentNext]_incidentVars PROVE Never'
      OBVIOUS
    <2>1. ~kept'
      BY KeptIsConstant
    <2>2. ASSUME NEW sample \in Sample, Check(sample) PROVE Never'
      <3>1. ~Triggers(sample)
        BY WindowAssumption DEF Triggers, Started, Start
      <3>2. QED
        BY <2>1, <2>2, <3>1 DEF Check, Evaluate, Remediates, ticketVars
    <2>3. ~Answers /\ ~Wakes
      BY DEF Answers, Answer, Accepted, Redirected, Refused, Unanswered, Wakes, Wake
    <2>4. CASE Tick
      BY <2>1, <2>4 DEF Tick, TicketTick, WindowTick
    <2>5. CASE UNCHANGED incidentVars
      BY <2>5 DEF incidentVars, window, ticketVars
    <2>6. QED
      BY <2>2, <2>3, <2>4, <2>5 DEF IncidentNext
  <1>3. QED
    BY <1>1, <1>2, IncidentInductive, PTL DEF IncidentSpec

===============================================================================
