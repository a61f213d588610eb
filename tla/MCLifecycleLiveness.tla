-------------------------- MODULE MCLifecycleLiveness --------------------------
(* LifecycleLiveness on the instances of MCLifecycle *)
EXTENDS LifecycleLiveness, MCLifecycle

\* A dry run makes no calls that could fail.
ForReal == ~dryRun

\* What some action reads to decide: neither the history variables nor what
\* the status only reports, nor who has a creation to handle when that is over.
\* With the resource gone both liveness properties are settled.
Present ==
  IF resource = "none" THEN <<>>
  ELSE <<leaders, [r \in Replica |-> <<h[r].pc, h[r].found, h[r].last, h[r].acted>>],
         status.unhealthy, status.last, ejected, dryRun, cleanup, calm,
         resource, IF resource = "live" THEN fresh ELSE {}>>

===============================================================================
