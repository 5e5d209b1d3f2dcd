--------------------------- MODULE ActionLifecycle ---------------------------
(***************************************************************************)
(* What the registry promises about a plugin action, with nothing of how:  *)
(* the statuses an action goes through (ActionStatus in plugin.go) and how *)
(* often the thing it stands for was done in the other system.             *)
(*                                                                         *)
(*      none --> pending --> running --> done | failed                     *)
(*                 |  ^         |                                          *)
(*                 |  +---------+   only while nothing was done            *)
(*                 +--> cancelled | expired                                *)
(*                                                                         *)
(* A running action is performed at most once.  One that failed because    *)
(* nobody waited for the answer may still be performed afterwards, but it  *)
(* is never offered for approval again.                                    *)
(***************************************************************************)
EXTENDS Naturals

CONSTANT Action                       \* action IDs

VARIABLES status,                     \* plugin_actions.status, "none" before the row exists
          performed                   \* how often the other system was changed

lifecycleVars == <<status, performed>>

Ended == {"done", "failed", "cancelled", "expired"}
Status == {"none", "pending", "running"} \cup Ended

LifecycleInit ==
  /\ status = [a \in Action |-> "none"]
  /\ performed = [a \in Action |-> 0]

\* The status changes an action may make.  Going back to pending, being
\* cancelled and expiring all say "nothing was submitted"; done says it was.
Moves(a) ==
  \/ status[a] = "none" /\ status'[a] = "pending"
  \/ status[a] = "pending" /\ status'[a] = "running"
  \/ status[a] = "pending" /\ status'[a] \in {"cancelled", "expired"}
  \/ status[a] = "running" /\ status'[a] = "pending" /\ performed[a] = 0
  \/ status[a] = "running" /\ status'[a] = "done" /\ performed[a] = 1
  \/ status[a] = "running" /\ status'[a] = "failed"

\* The other system is changed on behalf of a: once, and only after a was
\* claimed (the claim may already have been given up as failed).
Performs(a) ==
  /\ status[a] \in {"running", "failed"}
  /\ performed[a] = 0
  /\ performed'[a] = 1
  /\ status'[a] = status[a]

\* One step may move several actions (the janitor's bulk updates).
LifecycleNext ==
  \A a \in Action :
    \/ Moves(a) /\ performed'[a] = performed[a]
    \/ Performs(a)
    \/ status'[a] = status[a] /\ performed'[a] = performed[a]

LifecycleSpec == LifecycleInit /\ [][LifecycleNext]_lifecycleVars
=============================================================================
