------------------------------ MODULE MCSlackSync ------------------------------
(* SlackSync for a workspace of up to two channels. *)
EXTENDS SlackSync, TLC

CONSTANTS c1, c2, cron, api

\* The channels are not told apart.
Alike == Permutations({c1, c2})

\* What the properties of SlackSafety tell apart: a message that is indexed stays
\* so, and none of them looks at one in `blind` or in `due` that is.  States
\* that differ only in those have the same steps and are taken for one.
Relevant == <<now, posts, documents, queue, cursor, process, faults, blind \ documents,
              [s \in Syncs |-> [sync[s] EXCEPT !.due = @ \ documents]]>>
=============================================================================
