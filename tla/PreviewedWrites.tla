---------------------------- MODULE PreviewedWrites ----------------------------
(***************************************************************************)
(* What a person approves and what the plugin then writes.                 *)
(*                                                                         *)
(* A write tool of the DaouOffice plugin is called twice: in mode preview  *)
(* when the model asks for it, and in mode execute when the person has     *)
(* approved the pending action (internal/plugin/registry.go).  The runtime *)
(* (plugins/daouoffice/src/runtime.mjs, invoke) stores a digest of what    *)
(* the preview showed and lets an execute write only after it has compared *)
(* the plan it recomputed with that digest; the guard (guard.mjs) refuses  *)
(* every other write.  The digests are in the plugin's database and        *)
(* survive both processes.                                                 *)
(*                                                                         *)
(* The handlers are any code that plans, compares, writes and fails in any *)
(* order: the guard is what must stop them.  DaouOffice's content (world)  *)
(* changes at any time.  The account's lock, under which a handler runs,   *)
(* is left out: calls interleave here more than they can there.            *)
(***************************************************************************)
EXTENDS Naturals, FiniteSets

CONSTANTS
  Action,         \* pending actions the registry may create
  Key,            \* (owner, tool, arguments): what a digest is stored under
  World,          \* contents of DaouOffice
  Files,          \* attachments of a message; not part of the key
  KeyOf,          \* [Action -> Key]
  FilesOf,        \* [Action -> Files]
  Compared,       \* the keys whose tool has previewDigest
  None,
  MaxChanges,     \* bound: how often the world changes
  MaxFaults       \* bound: exits, restarts, timeouts, expired digests

ASSUME PreviewAssumption ==
  /\ KeyOf \in [Action -> Key] /\ FilesOf \in [Action -> Files]
  /\ Compared \subseteq Key
  /\ MaxChanges \in Nat /\ MaxFaults \in Nat
  /\ None \notin (World \X Files) \cup (Action \X (1..2)) \cup Action

VARIABLES
  world,
  stored,         \* [Key -> Preview \cup {None}]: the table previews
  planned,        \* [Preview -> Plan \cup {None}]: the plan behind each digest
  usedBy,         \* [Preview -> Action \cup {None}]: whose execute took it
  status,         \* [Action -> Status]: the registry's side
  tries,          \* [Action -> 0..2]: how often the preview was sent
  shown,          \* [Action -> Plan \cup {None}]: what the person was shown
  run,            \* [Action -> Run]: the plugin's side, one call
  written,        \* [Action -> Write \cup {None}]: what was written
  changesLeft, faultsLeft

vars == <<world, stored, planned, usedBy, status, tries, shown, run, written, changesLeft, faultsLeft>>
boundVars == <<changesLeft, faultsLeft>>
digestVars == <<stored, planned, usedBy>>
registryVars == <<status, tries, shown>>

-----------------------------------------------------------------------------
\* What a handler recomputes: a function of the arguments, the attachments
\* and DaouOffice's content.
Plan == World \X Files

\* The n-th preview of an action: a lost connection has it sent again.
Preview == Action \X (1..2)

Write == [plan : Plan \cup {None}, from : Preview \cup {None}]

\* "new" has no row yet; "withdrawn" stands for cancelled and expired.
Status == {"new", "previewing", "pending", "running", "done", "failed", "withdrawn"}

\* The errors the bot reads as "nothing happened": AUTH_FAILED,
\* DUPLICATE_SESSION and NOT_CONNECTED are "refused", all others "error".
Answers == {"ok", "refused", "error"}
Stage == {"idle", "working", "lost", "ok", "refused", "error"}

Run ==
  [mode : {"none", "preview", "execute"},
   stage : Stage,
   built : Plan \cup {None},       \* the plan the handler computed
   from : Preview \cup {None},     \* guard.previewed: the digest it matched
   wrote : BOOLEAN]                \* guard.wrote

NoRun == [mode |-> "none", stage |-> "idle", built |-> None, from |-> None, wrote |-> FALSE]
Started(mode) == [mode |-> mode, stage |-> "working", built |-> None, from |-> None, wrote |-> FALSE]

TypeOK ==
  /\ world \in World
  /\ stored \in [Key -> Preview \cup {None}]
  /\ planned \in [Preview -> Plan \cup {None}]
  /\ usedBy \in [Preview -> Action \cup {None}]
  /\ status \in [Action -> Status]
  /\ tries \in [Action -> 0..2]
  /\ shown \in [Action -> Plan \cup {None}]
  /\ run \in [Action -> Run]
  /\ written \in [Action -> Write \cup {None}]
  /\ changesLeft \in 0..MaxChanges /\ faultsLeft \in 0..MaxFaults

Init ==
  /\ world \in World
  /\ stored = [k \in Key |-> None]
  /\ planned = [p \in Preview |-> None]
  /\ usedBy = [p \in Preview |-> None]
  /\ status = [a \in Action |-> "new"]
  /\ tries = [a \in Action |-> 0]
  /\ shown = [a \in Action |-> None]
  /\ run = [a \in Action |-> NoRun]
  /\ written = [a \in Action |-> None]
  /\ changesLeft = MaxChanges
  /\ faultsLeft = MaxFaults

Fault == faultsLeft > 0 /\ faultsLeft' = faultsLeft - 1 /\ UNCHANGED changesLeft

Working(a) == run[a].stage = "working"
Executing(a) == Working(a) /\ run[a].mode = "execute"

-----------------------------------------------------------------------------
(* The registry and its client *)

SendPreview(a) ==
  /\ tries' = [tries EXCEPT ![a] = @ + 1]
  /\ run' = [run EXCEPT ![a] = Started("preview")]

\* Registry.Dispatch, preview.
Dispatch(a) ==
  /\ status[a] = "new"
  /\ status' = [status EXCEPT ![a] = "previewing"]
  /\ SendPreview(a)
  /\ UNCHANGED <<world, digestVars, shown, written, boundVars>>

\* Mutant: retries for ever.
RetryWithoutEnd(a) ==
  /\ status[a] = "previewing" /\ run[a].stage = "lost"
  /\ SendPreview(a)
  /\ UNCHANGED <<world, digestVars, status, shown, written, boundVars>>

\* client.Call: the process went away during a preview; once more on a new one.
Retry(a) ==
  /\ status[a] = "previewing" /\ run[a].stage = "lost" /\ tries[a] < 2
  /\ SendPreview(a)
  /\ UNCHANGED <<world, digestVars, status, shown, written, boundVars>>

\* The answer to a preview: the row is stored and the prompt queued, or the
\* call or the insert failed and nothing is left of it.
PreviewAnswered(a) ==
  /\ status[a] = "previewing" /\ run[a].stage \in Answers
  /\ run' = [run EXCEPT ![a] = NoRun]
  /\ \/ /\ run[a].stage = "ok"
        /\ status' = [status EXCEPT ![a] = "pending"]
        /\ shown' = [shown EXCEPT ![a] = run[a].built]
        /\ UNCHANGED boundVars
     \/ /\ run[a].stage # "ok"
        /\ status' = [status EXCEPT ![a] = "failed"]
        /\ UNCHANGED <<shown, boundVars>>
     \/ /\ run[a].stage = "ok" /\ Fault
        /\ status' = [status EXCEPT ![a] = "failed"]
        /\ UNCHANGED shown
  /\ UNCHANGED <<world, digestVars, tries, written>>

\* Registry.Approve: the row is claimed and the call sent.
Approve(a) ==
  /\ status[a] = "pending"
  /\ status' = [status EXCEPT ![a] = "running"]
  /\ run' = [run EXCEPT ![a] = Started("execute")]
  /\ UNCHANGED <<world, digestVars, tries, shown, written, boundVars>>

\* Registry.Cancel, Expire.
Withdraw(a) ==
  /\ status[a] = "pending"
  /\ status' = [status EXCEPT ![a] = "withdrawn"]
  /\ UNCHANGED <<world, digestVars, tries, shown, run, written, boundVars>>

\* The answer to an execute: done, offered again, or failed.  A lost
\* connection is an unknown outcome and fails it too.
ExecuteAnswered(a) ==
  /\ status[a] = "running" /\ run[a].stage \in Answers \cup {"lost"}
  /\ status' = [status EXCEPT ![a] = CASE run[a].stage = "ok" -> "done"
                                       [] run[a].stage = "refused" -> "pending"
                                       [] OTHER -> "failed"]
  /\ run' = [run EXCEPT ![a] = NoRun]
  /\ UNCHANGED <<world, digestVars, tries, shown, written, boundVars>>

\* callTimeout, executeTimeout, or no second process: the registry gives up;
\* the handler, if it runs, goes on.
GiveUp(a) ==
  /\ status[a] \in {"previewing", "running"}
  /\ Fault
  /\ status' = [status EXCEPT ![a] = "failed"]
  /\ UNCHANGED <<world, digestVars, tries, shown, run, written>>

-----------------------------------------------------------------------------
(* The plugin: runtime.invoke around a handler *)

\* The handler computes its plan from what DaouOffice holds now.
Build(a) ==
  /\ Working(a) /\ run[a].built = None
  /\ run' = [run EXCEPT ![a].built = <<world, FilesOf[a]>>]
  /\ UNCHANGED <<world, digestVars, registryVars, written, boundVars>>

\* A preview returned: the digest replaces the one stored under its key.
PreviewReturns(a) ==
  LET p == <<a, tries[a]>> IN
  /\ Working(a) /\ run[a].mode = "preview" /\ run[a].built # None
  /\ IF KeyOf[a] \in Compared
     THEN /\ stored' = [stored EXCEPT ![KeyOf[a]] = p]
          /\ planned' = [planned EXCEPT ![p] = run[a].built]
     ELSE UNCHANGED <<stored, planned>>
  /\ run' = [run EXCEPT ![a].stage = "ok"]
  /\ UNCHANGED <<world, usedBy, registryVars, written, boundVars>>

\* The stored digest is that of this plan.
Matches(k, plan) == stored[k] # None /\ planned[stored[k]] = plan

\* Mutant: the digest stays.
ConsumeWithoutDrop(a) ==
  /\ usedBy' = [usedBy EXCEPT ![stored[KeyOf[a]]] = a]
  /\ run' = [run EXCEPT ![a].from = stored[KeyOf[a]]]
  /\ UNCHANGED stored

Consume(a) ==
  /\ stored' = [stored EXCEPT ![KeyOf[a]] = None]
  /\ usedBy' = [usedBy EXCEPT ![stored[KeyOf[a]]] = a]
  /\ run' = [run EXCEPT ![a].from = stored[KeyOf[a]]]

\* call.assertPreviewed(plan) returned.
AssertPreviewed(a) ==
  /\ Executing(a) /\ run[a].built # None /\ KeyOf[a] \in Compared
  /\ Matches(KeyOf[a], run[a].built)
  /\ Consume(a)
  /\ UNCHANGED <<world, planned, registryVars, written, boundVars>>

\* Mutant: the code is passed on after a write.
AfterWriteUnchanged(a, answer) == answer

\* What the runtime answers for an error thrown by the handler.
AfterWrite(a, answer) == IF run[a].wrote THEN "error" ELSE answer

\* The handler throws: a refusal of its own (login, CONFLICT when the
\* preview does not match, anything else).
HandlerFails(a, answer) ==
  /\ Working(a)
  /\ run' = [run EXCEPT ![a].stage = AfterWrite(a, answer)]
  /\ UNCHANGED <<world, digestVars, registryVars, written, boundVars>>

\* Mutant: the guard looks at the mode only.
MayWriteUnmatched(a) == run[a].mode = "execute"

\* requireExecute: an approved execute, matched if its tool compares.
MayWrite(a) == run[a].mode = "execute" /\ (KeyOf[a] \in Compared => run[a].from # None)

\* assertExecute, markSent and the request.
DoWrite(a) ==
  /\ Working(a) /\ MayWrite(a)
  /\ run' = [run EXCEPT ![a].wrote = TRUE]
  /\ written' = [written EXCEPT ![a] = [plan |-> run[a].built, from |-> run[a].from]]
  /\ UNCHANGED <<world, digestVars, registryVars, boundVars>>

\* assertExecute throws INTERNAL.
WriteRefused(a) ==
  /\ Working(a) /\ ~MayWrite(a)
  /\ run' = [run EXCEPT ![a].stage = "error"]
  /\ UNCHANGED <<world, digestVars, registryVars, written, boundVars>>

ExecuteReturns(a) ==
  /\ Executing(a)
  /\ run' = [run EXCEPT ![a].stage = "ok"]
  /\ UNCHANGED <<world, digestVars, registryVars, written, boundVars>>

-----------------------------------------------------------------------------
(* The environment *)

\* DaouOffice changes: other people, the person, an earlier write.
Change(w) ==
  /\ changesLeft > 0 /\ w # world
  /\ world' = w
  /\ changesLeft' = changesLeft - 1
  /\ UNCHANGED <<digestVars, registryVars, run, written, faultsLeft>>

\* The digest is older than PREVIEW_TTL_MS.
DigestExpires(k) ==
  /\ stored[k] # None
  /\ Fault
  /\ stored' = [stored EXCEPT ![k] = None]
  /\ UNCHANGED <<world, planned, usedBy, registryVars, run, written>>

\* The plugin process exits: every call in it is lost, answered or not.
PluginExits ==
  /\ \E a \in Action : run[a].mode # "none"
  /\ Fault
  /\ run' = [a \in Action |-> IF run[a].mode = "none" THEN run[a] ELSE [run[a] EXCEPT !.stage = "lost"]]
  /\ UNCHANGED <<world, digestVars, registryVars, written>>

\* Both processes restart: RecoverStale fails what was running.
Restart ==
  /\ Fault
  /\ run' = [a \in Action |-> NoRun]
  /\ status' = [a \in Action |-> IF status[a] \in {"previewing", "running"} THEN "failed" ELSE status[a]]
  /\ UNCHANGED <<world, digestVars, tries, shown, written>>

RegistryStep(a) ==
  \/ Dispatch(a) \/ Retry(a) \/ PreviewAnswered(a)
  \/ Approve(a) \/ Withdraw(a) \/ ExecuteAnswered(a) \/ GiveUp(a)

PluginStep(a) ==
  \/ Build(a) \/ PreviewReturns(a) \/ AssertPreviewed(a)
  \/ \E answer \in {"refused", "error"} : HandlerFails(a, answer)
  \/ DoWrite(a) \/ WriteRefused(a) \/ ExecuteReturns(a)

Next ==
  \/ \E a \in Action : RegistryStep(a) \/ PluginStep(a)
  \/ \E w \in World : Change(w)
  \/ \E k \in Key : DigestExpires(k)
  \/ PluginExits
  \/ Restart

Spec == Init /\ [][Next]_vars

-----------------------------------------------------------------------------
(* Properties *)

\* What a comparing tool wrote is, to the digest, what some preview of the
\* same owner, tool and arguments had planned (runtime.mjs, previewDigest):
\* whatever the handlers try, whichever process died in between.
WrittenAsPreviewed ==
  \A a \in Action : written[a] # None /\ KeyOf[a] \in Compared =>
    LET p == written[a].from IN
    /\ p # None
    /\ KeyOf[p[1]] = KeyOf[a]
    /\ planned[p] = written[a].plan

\* No preview is good for the writes of two actions (runtime.mjs: one
\* approval, one execute).
OneWritePerPreview ==
  \A a, b \in Action :
    /\ written[a] # None /\ KeyOf[a] \in Compared
    /\ written[b] # None /\ written[a].from = written[b].from
    => a = b

\* An action that is offered (again) for approval has written nothing, so
\* approving it cannot write a second time (runtime.mjs, afterWriteError;
\* registry.go, Approve: the plugin failed before doing anything).
OfferedUnwritten ==
  \A a \in Action : status[a] = "pending" => written[a] = None

\* runtime.mjs: "execute must do exactly what the preview showed": what an
\* approved action writes is what its own prompt showed the person.
WritesWhatWasShown ==
  \A a \in Action : written[a] # None /\ KeyOf[a] \in Compared => written[a].plan = shown[a]

=============================================================================
