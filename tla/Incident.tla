-------------------------------- MODULE Incident -------------------------------
(***************************************************************************)
(* From the samples of a rule to its tickets: on_timer of src/operator.py  *)
(* reduced to what SustainWindow and TicketRetry do in it, for a leader    *)
(* with one critical rule and pod.  The steps of the pipeline before the   *)
(* ticket, and failures elsewhere, are Reconcile.tla's.                    *)
(***************************************************************************)
EXTENDS SustainWindow, TicketRetry

CONSTANT Cooldown   \* cooldownSeconds

ASSUME IncidentAssumption == Cooldown \in Nat \ {0}

VARIABLE last   \* age of lastRemediationTime, cut at Cooldown

incidentVars == <<window, ticketVars, last>>

IncidentTypeOK == WindowTypeOK /\ TicketTypeOK /\ last \in 0 .. Cooldown

IncidentInit == WindowInit /\ TicketInit /\ last = Cooldown

-------------------------------------------------------------------------------
\* Mutant: a rule that is over its threshold opens a ticket.
OverThreshold(sample) == sample = "over" /\ last >= Cooldown

\* The rule triggers and the cooldown is over.
Remediates(sample) == Triggers(sample) /\ last >= Cooldown

\* A check; the ticket, when there is one, is asked for in the same run of
\* on_timer, and the next check waits for its end.
Check(sample) ==
  /\ call.pc = "idle"
  /\ Evaluate(sample)
  /\ IF Remediates(sample)
     THEN Begin /\ last' = IF MaxAttempts = 0 THEN 0 ELSE last
     ELSE UNCHANGED <<ticketVars, last>>

\* The end of the call.  A result is written to the status with its time; a
\* refused ticket and any other exception end on_timer before that.
Answers ==
  /\ Answer
  /\ last' = IF call'.pc = "idle" /\ outcome' \in {"created", "failed"} THEN 0 ELSE last
  /\ UNCHANGED window

Wakes == Wake /\ UNCHANGED <<window, last>>

Tick ==
  /\ TicketTick
  /\ WindowTick
  /\ last' = IF last < Cooldown THEN last + 1 ELSE last

IncidentNext == (\E sample \in Sample : Check(sample)) \/ Answers \/ Wakes \/ Tick

IncidentSpec == IncidentInit /\ [][IncidentNext]_incidentVars

\* Every attempt is answered or times out, and the event loop wakes a sleeper.
IncidentFairness == WF_incidentVars(Answers \/ Wakes) /\ WF_incidentVars(Tick)

FairIncidentSpec == IncidentSpec /\ IncidentFairness

-------------------------------------------------------------------------------
(* Properties *)

\* "forSeconds prevents flapping on transient spikes" (README.md): a ticket is
\* asked for only when the samples show that the rule has been violated for
\* ForSeconds, also after the time that earlier calls took.
TicketIsForSustained ==
  [][call.pc = "idle" /\ call'.pc # "idle" => Sustained(seen')]_incidentVars

\* "webhook failures don't block the remediation pipeline" (README.md): every call
\* ends, and with it the run of on_timer that waits for it.
CallEnds == call.pc # "idle" ~> call.pc = "idle"

-------------------------------------------------------------------------------
(* The inductive invariant *)

IncidentIInv == IncidentTypeOK /\ WindowIInv /\ TicketIInv

===============================================================================
