--------------------------- MODULE ElectionLiveness ---------------------------
(***************************************************************************)
(* Leader election when the faults stop: after any MaxFaults API failures, *)
(* shutdowns, crashes and delays, in any order and at any moment, the      *)
(* replicas settle on one leader.                                          *)
(*                                                                         *)
(* The environment owes nothing: no fairness on faults, on shutdowns or on *)
(* crashes.  The code owes its loops: the heartbeat task repeats for ever  *)
(* (`while not self._stop_event.is_set()`), a call that is not refused is  *)
(* answered, a stopping process ends, and Kubernetes restarts it.          *)
(***************************************************************************)
EXTENDS LeaderElection

CONSTANT MaxFaults   \* bound: the faults that may still happen

ASSUME FaultAssumption == MaxFaults \in Nat

VARIABLE faults   \* how many have happened

LiveInit == Init /\ faults = 0

\* A create that meets a Lease created meanwhile is answered 409: no fault.
CreateConflict(r) ==
  seen[r] = NoLease /\ holder # NoLease /\ WriteRefused(r)

Beat(r) == Heartbeat(r) \/ CreateConflict(r)

Fault ==
  \/ \E r \in Replica : \/ ApiFault(r)
                        \/ Stop(r)
                        \/ phase[r] # "stopped" /\ Exit(r)
  \/ (\E r \in Replica : Late(r)) /\ Tick

OnTimeTick == (\A r \in Replica : ~Late(r)) /\ Tick

\* stop() is over: the process exits (and is restarted by Start).
Finish(r) == phase[r] = "stopped" /\ Exit(r)

Regular ==
  \/ \E r \in Replica : \/ Start(r)
                        \/ Beat(r)
                        \/ Shutdown(r)
                        \/ Finish(r)
  \/ OnTimeTick

LiveNext ==
  \/ Regular /\ UNCHANGED faults
  \/ faults < MaxFaults /\ Fault /\ faults' = faults + 1

liveVars == <<vars, faults>>

LiveSpec ==
  /\ LiveInit
  /\ [][LiveNext]_liveVars
  /\ \A r \in Replica : /\ WF_liveVars(Start(r) /\ UNCHANGED faults)
                        /\ WF_liveVars(Beat(r) /\ UNCHANGED faults)
                        /\ WF_liveVars(Shutdown(r) /\ UNCHANGED faults)
                        /\ WF_liveVars(Finish(r) /\ UNCHANGED faults)
  /\ WF_liveVars(OnTimeTick /\ UNCHANGED faults)

\* Once the faults are over there is one leader, and it stays: no Lease is left
\* that nobody takes over (a dead holder, an emptied holderIdentity), two
\* leaders that a race or a delay made do not last, and leadership does not
\* keep moving from one replica to another.
EventuallyOneLeader == <>[](\E r \in Replica : Leaders = {r})

===============================================================================
