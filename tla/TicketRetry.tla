------------------------------ MODULE TicketRetry ------------------------------
(***************************************************************************)
(* One call after another of create_ticket (src/ticket_integration.py),    *)
(* with the retries of _retry_request, against a webhook whose answers may *)
(* be lost after it has opened a ticket.                                   *)
(***************************************************************************)
EXTENDS Integers, FiniteSets

CONSTANTS
  MaxAttempts,   \* retry_max_attempts
  BaseDelay,     \* RETRY_BASE_DELAY
  MaxDelay,      \* RETRY_MAX_DELAY
  JitterPart     \* the jitter is up to one JitterPart-th of a delay, 10 in the code

ASSUME TicketAssumption ==
  /\ MaxAttempts \in Nat
  /\ BaseDelay \in Nat
  /\ MaxDelay \in Nat
  /\ JitterPart \in Nat \ {0}

VARIABLES
  call,      \* the run of create_ticket, see Call
  outcome,   \* how the last one ended
  \* history variables, of the call
  tickets,   \* number of tickets that the webhook opened
  lost,      \* number of those that it could not tell of
  incidents, \* the incident_ids of its tickets, by the sleep before they were made
  slept      \* time slept

ticketVars == <<call, outcome, tickets, lost, incidents, slept>>

\* "created", and "failed" after the last attempt, end in a result; "refused" is
\* a status that is not retried, "raised" any other exception.
Outcome == {"none", "created", "failed", "refused", "raised"}

Jittered(delay) == delay + delay \div JitterPart
Longest == Jittered(MaxDelay)

Call == [
  pc : {"idle", "request", "backoff"},
  attempt : 0 .. MaxAttempts,
  wait : 0 .. Longest,      \* what is left of a backoff
  made : 0 .. MaxAttempts * Longest]   \* when the payload was made, in time slept

TicketTypeOK ==
  /\ call \in Call
  /\ outcome \in Outcome
  /\ tickets \in 0 .. MaxAttempts
  /\ lost \in 0 .. tickets
  /\ incidents \subseteq 0 .. MaxAttempts * Longest
  /\ slept \in 0 .. MaxAttempts * Longest

TicketInit ==
  /\ call = [pc |-> "idle", attempt |-> 0, wait |-> 0, made |-> 0]
  /\ outcome = "none"
  /\ tickets = 0
  /\ lost = 0
  /\ incidents = {}
  /\ slept = 0

-------------------------------------------------------------------------------
(* Helpers *)

\* RETRY_BASE_DELAY * 2^attempt, up to the cap.
Delay(attempt) ==
  IF BaseDelay * 2 ^ attempt < MaxDelay THEN BaseDelay * 2 ^ attempt ELSE MaxDelay

Positive(n) == IF n > 0 THEN n ELSE 0

\* _compute_backoff: the jitter comes after the cap.
Backoff(attempt) ==
  LET delay == Delay(attempt) IN
  Positive(delay - delay \div JitterPart) .. Jittered(delay)

End(how) ==
  /\ call' = [call EXCEPT !.pc = "idle"]
  /\ outcome' = how

\* The webhook opens a ticket, or not.
Opens ==
  /\ tickets' = tickets + 1
  /\ incidents' = incidents \cup {call.made}
OpensNone == UNCHANGED <<tickets, incidents>>

-------------------------------------------------------------------------------
(* create_ticket *)

\* The payload, with its incident_id, is made once.  Without any attempt the
\* call fails at once.
Begin ==
  /\ call.pc = "idle"
  /\ call' = [pc |-> IF MaxAttempts = 0 THEN "idle" ELSE "request",
              attempt |-> 0, wait |-> 0, made |-> 0]
  /\ outcome' = IF MaxAttempts = 0 THEN "failed" ELSE "none"
  /\ tickets' = 0
  /\ lost' = 0
  /\ incidents' = {}
  /\ slept' = 0

\* Mutant: a created ticket whose answer cannot be read is asked for again.
AcceptedReadable ==
  /\ call.pc = "request"
  /\ Opens
  /\ \/ End("created")
     \/ /\ call.attempt + 1 < MaxAttempts
        /\ call' = [call EXCEPT !.attempt = @ + 1]
        /\ UNCHANGED outcome
  /\ UNCHANGED <<lost, slept>>

\* A ticket is opened and the answer says so; a body that is not an object
\* raises in _extract_ticket_id.
Accepted ==
  /\ call.pc = "request"
  /\ Opens
  /\ End("created") \/ End("raised")
  /\ UNCHANGED <<lost, slept>>

\* Any status below 400 counts as created, a redirection too, which httpx does
\* not follow; its body is read like any other.
Redirected ==
  /\ call.pc = "request"
  /\ OpensNone
  /\ End("created") \/ End("raised")
  /\ UNCHANGED <<lost, slept>>

\* A status that is not retried.
Refused ==
  /\ call.pc = "request"
  /\ OpensNone
  /\ End("refused")
  /\ UNCHANGED <<lost, slept>>

\* Mutant: every attempt makes its payload.
BackOffWithNewPayload ==
  \/ /\ call.attempt + 1 = MaxAttempts
     /\ End("failed")
  \/ /\ call.attempt + 1 < MaxAttempts
     /\ \E wait \in Backoff(call.attempt) :
          call' = [pc |-> "backoff", attempt |-> call.attempt + 1, wait |-> wait,
                   made |-> slept + wait]
     /\ UNCHANGED outcome

\* Mutant: one attempt too many.
BackOffOnceMore ==
  \/ /\ call.attempt = MaxAttempts
     /\ End("failed")
  \/ /\ call.attempt < MaxAttempts
     /\ \E wait \in Backoff(call.attempt) :
          call' = [call EXCEPT !.pc = "backoff", !.attempt = @ + 1, !.wait = wait]
     /\ UNCHANGED outcome

\* Mutant: the attempt is not counted.
BackOffUncounted ==
  \/ /\ call.attempt + 1 = MaxAttempts
     /\ End("failed")
  \/ /\ call.attempt + 1 < MaxAttempts
     /\ \E wait \in Backoff(call.attempt) :
          call' = [call EXCEPT !.pc = "backoff", !.wait = wait]
     /\ UNCHANGED outcome

\* No more waiting after the last attempt.
BackOff ==
  \/ /\ call.attempt + 1 = MaxAttempts
     /\ End("failed")
  \/ /\ call.attempt + 1 < MaxAttempts
     /\ \E wait \in Backoff(call.attempt) :
          call' = [call EXCEPT !.pc = "backoff", !.attempt = @ + 1, !.wait = wait]
     /\ UNCHANGED outcome

\* A time-out, a lost connection or a status to retry: the webhook may have
\* opened a ticket all the same.
Unanswered ==
  /\ call.pc = "request"
  /\ \/ Opens /\ lost' = lost + 1
     \/ OpensNone /\ UNCHANGED lost
  /\ BackOff
  /\ UNCHANGED slept

\* Mutant: a sleeper is woken a moment early, or not at all.
WakeEarly ==
  /\ call.pc = "backoff"
  /\ call.wait = 1
  /\ call' = [call EXCEPT !.pc = "request", !.wait = 0]
  /\ UNCHANGED <<outcome, tickets, lost, incidents, slept>>

Wake ==
  /\ call.pc = "backoff"
  /\ call.wait = 0
  /\ call' = [call EXCEPT !.pc = "request"]
  /\ UNCHANGED <<outcome, tickets, lost, incidents, slept>>

\* A sleeper may be woken late.
TicketTick ==
  LET sleeps == call.pc = "backoff" /\ call.wait > 0 IN
  /\ call' = IF sleeps THEN [call EXCEPT !.wait = @ - 1] ELSE call
  /\ slept' = IF sleeps THEN slept + 1 ELSE slept
  /\ UNCHANGED <<outcome, tickets, lost, incidents>>

Answer == Accepted \/ Redirected \/ Refused \/ Unanswered

TicketNext == Begin \/ Answer \/ Wake \/ TicketTick

TicketSpec == TicketInit /\ [][TicketNext]_ticketVars

-------------------------------------------------------------------------------
(* Properties *)

\* More tickets than one, or a ticket behind a failure, need an answer that was
\* lost each: neither an answer to retry nor the order of attempts makes one
\* (_retry_request).
DuplicatesNeedLostAnswers ==
  tickets <= lost + (IF outcome \in {"created", "raised"} THEN 1 ELSE 0)

\* "Deterministic incident ID ... prevents duplicates" (ticket_integration.py): all
\* attempts of a call bear one incident_id, however long they take, so a webhook
\* that goes by it opens one ticket.
OneIncident == Cardinality(incidents) <= 1

\* An upper bound of the steps and the time that are left of a call: each attempt
\* is a request, the longest backoff and a waking.
Left ==
  IF call.pc = "idle" THEN 0
  ELSE (MaxAttempts - call.attempt) * (Longest + 2)
       + (IF call.pc = "backoff" THEN call.wait + 1 ELSE 0)

\* "webhook failures don't block the remediation pipeline" (README.md): whatever
\* the webhook answers, and in whatever order, no step of a call leaves more to do
\* than there was, and an answer, a waking and time that is slept leave less.
CallProgresses ==
  [][call.pc # "idle" => /\ Left' <= Left
                         /\ call' # call => Left' < Left]_ticketVars

-------------------------------------------------------------------------------
(* What the documents promise and the code does not keep *)

\* "min(2^n * base +- jitter, max_delay)" (ticket_integration.py), "Backoff never
\* exceeds max delay" (tests/test_ticket_integration.py): no attempt waits longer
\* than the cap.
BackoffIsCapped == call.wait <= MaxDelay

-------------------------------------------------------------------------------
(* Why they hold: the inductive invariant *)

\* Every attempt so far opened at most one ticket and slept one backoff.
PerAttempt ==
  /\ call.wait > 0 => call.pc = "backoff"
  /\ call.pc # "idle" =>
       /\ call.attempt < MaxAttempts
       /\ outcome = "none"
       /\ tickets <= call.attempt
       /\ slept + call.wait <= call.attempt * Longest

OnePayload == incidents \subseteq {call.made}

TicketIInv ==
  /\ TicketTypeOK /\ PerAttempt /\ OnePayload
  /\ DuplicatesNeedLostAnswers

===============================================================================
