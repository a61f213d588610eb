--------------------------- MODULE LifecycleLiveness ---------------------------
(***************************************************************************)
(* What must happen in the life of a resource once faults have stopped:    *)
(* calls are answered and no replica dies any more.  Leaders may come and  *)
(* go for ever.                                                            *)
(***************************************************************************)
EXTENDS Lifecycle

VARIABLE calm   \* no fault from here on

liveVars == <<lifeVars, calm>>

LiveInit == LifeInit /\ calm = FALSE

LiveNext ==
  \/ Faultless /\ UNCHANGED calm
  \/ (\E r \in Replica : LifeFault(r)) /\ ~calm /\ UNCHANGED calm
  \/ ~calm /\ calm' = TRUE /\ UNCHANGED lifeVars

\* The event loop of every replica comes round to its handlers and to the watch
\* of the resource, and kopf calls again what raised.  Time passes.
Fairness ==
  /\ \A r \in Replica :
       /\ WF_liveVars((Reconciles(r) \/ Deletion(r)) /\ UNCHANGED calm)
       /\ WF_liveVars(Notice(r) /\ UNCHANGED calm)
  /\ WF_liveVars(Tick /\ UNCHANGED <<life, calm>>)

LiveSpec == LiveInit /\ [][LiveNext]_liveVars /\ Fairness

-------------------------------------------------------------------------------
(* Properties *)

\* A deleted resource does go: no failed clean-up, standby, unfinished on_timer
\* or missing leader keeps its finalizer for ever (on_delete and kopf's retries).
EventuallyGone == calm /\ resource = "deleting" ~> resource = "none"

\* No check from here on finds the application healthy.
NoRecovery ==
  [][\A r \in Replica :
        h[r].pc = "checking" /\ h'[r].pc = "record" => h'[r].found # <<>>]_liveVars

\* An application that stays critical is remediated again and again by a leader
\* that stays: neither the status that a check writes, nor what a former leader
\* or on_create writes late, postpones the end of the cooldown for ever
\* (on_timer, lastRemediationTime).
EventuallyRemediated ==
  \A r \in Replica :
    <>[](calm /\ r \in leaders /\ resource = "live") /\ <>NoRecovery =>
      []<>(h[r].pc \in Working)

===============================================================================
