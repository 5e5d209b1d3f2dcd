---------------------------- MODULE PluginActions ----------------------------
(***************************************************************************)
(* The approval core: plugin.Registry (internal/plugin/registry.go) over   *)
(* the plugin_actions table (internal/storage/plugins.go), its janitor     *)
(* (bot.RunPluginJanitor) and the attachment directories (inbox.go).       *)
(*                                                                         *)
(* A tool call that would change another system is previewed and stored as *)
(* a pending action; the owner's click claims it (one conditional UPDATE), *)
(* the plugin runs it, and the row ends done or failed, or goes back to    *)
(* pending when the plugin did nothing.  Any number of callers (Handler:   *)
(* goroutines of the bots) run these operations at once.  The process may  *)
(* crash between any two steps; rows and attachments survive, goroutines   *)
(* do not.                                                                 *)
(*                                                                         *)
(* Time is relative: left[a] is what remains of an action's lifetime,      *)
(* age[a] how long ago its running row was written, due[h] what remains of *)
(* a claimed call's deadline.  Tick moves all three, so the model needs no *)
(* clock horizon.                                                          *)
(***************************************************************************)
EXTENDS Naturals, FiniteSets

CONSTANTS
  Action,             \* action IDs (uuid.NewString: never used twice)
  User,               \* people, by their "platform:user" key
  Handler,            \* concurrent callers of the registry
  OwnerOf,            \* the user_key of each action
  KindOf,             \* "call", "login_kick" or "disconnect"
  NoAction,           \* no action
  TTL,                \* actionTTL
  ExecuteTimeout,     \* executeTimeout: bounds Approve's plugin call
  CallTimeout,        \* callTimeout: bounds login's plugin call
  StateWriteTimeout,  \* stateWriteTimeout: bounds the status write after a call
  StaleAfter,         \* staleRunningAfter of the janitor
  MaxFaults,          \* bound: failing database or vault operations
  MaxCrashes          \* bound: crashes of the process

Kind == {"call", "login_kick", "disconnect"}

\* RecoverStale: "olderThan must exceed the execute timeout".
ASSUME ConstantsAssumption ==
  /\ NoAction \notin Action
  /\ OwnerOf \in [Action -> User]
  /\ KindOf \in [Action -> Kind]
  /\ TTL \in Nat \ {0}
  /\ ExecuteTimeout \in Nat /\ CallTimeout \in Nat /\ StateWriteTimeout \in Nat
  /\ StaleAfter \in Nat
  /\ ExecuteTimeout + StateWriteTimeout < StaleAfter
  /\ CallTimeout + StateWriteTimeout < StaleAfter
  /\ MaxFaults \in Nat /\ MaxCrashes \in Nat

VARIABLES
  \* plugin_actions rows
  status,       \* [Action -> Status], "none" while there is no row
  left,         \* [Action -> 0..TTL]: 0 once now >= expires_at
  age,          \* [Action -> 0..StaleAfter]: now - updated_at while running
  \* other stored state
  account,      \* [User -> {"none","ok","invalid"}]: plugin_accounts.status
  inbox,        \* the actions that have a directory <DataDir>/inbox/<id>
  \* the process
  up,           \* is the process running
  plug,         \* "starting" | "ready" | "absent": is the plugin registered
  pc,           \* [Handler -> step]
  op,           \* [Handler -> operation]
  on,           \* [Handler -> Action \cup {NoAction}]: the action worked on
  did,          \* [Handler -> BOOLEAN]: this plugin call already changed something
  out,          \* [Handler -> {"done","failed"}]: the status Finish will write
  due,          \* [Handler -> Nat]: time a claimed call still has
  drop,         \* [Handler -> SUBSET Action]: attachments about to be removed
  jpc,          \* the janitor's step
  batch,        \* the rows the janitor's last UPDATE returned
  \* the other system
  performed,    \* [Action -> Nat]: how often it was changed on behalf of an action
  lost,         \* actions whose plugin call runs on although nobody waits for it
  \* bounds
  faultsLeft, crashesLeft

rowVars     == <<status, left, age>>
storeVars   == <<account, inbox>>
handlerVars == <<pc, op, on, did, out, due, drop>>
janitorVars == <<jpc, batch>>
worldVars   == <<performed, lost>>
boundVars   == <<faultsLeft, crashesLeft>>
procVars    == <<up, plug>>
vars == <<status, left, age, account, inbox, up, plug, pc, op, on, did, out, due,
          drop, jpc, batch, performed, lost, faultsLeft, crashesLeft>>

-----------------------------------------------------------------------------
Ended  == {"done", "failed", "cancelled", "expired"}
Status == {"none", "pending", "running"} \cup Ended

Step == {"idle", "previewing", "storing", "holding", "prompting", "dropping",
         "expiring", "claiming", "opening", "calling", "reopening", "deleting",
         "finishing"}
Op == {"none", "dispatch", "approve", "login", "cancel"}

\* Only calls made with a file leave attachments; a disconnect has none.
HasFiles(a) == KindOf[a] # "disconnect"

\* The steps taken while the row is this handler's: claim succeeded and
\* neither Reopen nor Finish has given it back.
Claimed(h) ==
  /\ pc[h] \in {"opening", "calling", "reopening", "deleting", "finishing"}
  /\ ~(op[h] = "login" /\ KindOf[on[h]] = "call")

\* The login of a kick-approve runs without claiming the action.
Unclaimed(h) == op[h] = "login" /\ KindOf[on[h]] = "call"

\* A new ID: no row, no attachments, nobody holding it.
Fresh(a) ==
  /\ status[a] = "none"
  /\ a \notin inbox
  /\ \A h \in Handler : on[h] # a /\ a \notin drop[h]

TypeOK ==
  /\ status \in [Action -> Status]
  /\ left \in [Action -> 0..TTL]
  /\ age \in [Action -> 0..StaleAfter]
  /\ account \in [User -> {"none", "ok", "invalid"}]
  /\ inbox \subseteq Action
  /\ up \in BOOLEAN
  /\ plug \in {"starting", "ready", "absent"}
  /\ pc \in [Handler -> Step]
  /\ op \in [Handler -> Op]
  /\ on \in [Handler -> Action \cup {NoAction}]
  /\ did \in [Handler -> BOOLEAN]
  /\ out \in [Handler -> {"done", "failed"}]
  /\ due \in [Handler -> Nat]
  /\ drop \in [Handler -> SUBSET Action]
  /\ jpc \in {"idle", "sweepStale", "expire", "sweepExpired"}
  /\ batch \subseteq Action
  /\ performed \in [Action -> Nat]
  /\ lost \subseteq Action
  /\ faultsLeft \in 0..MaxFaults
  /\ crashesLeft \in 0..MaxCrashes

Init ==
  /\ status = [a \in Action |-> "none"]
  /\ left = [a \in Action |-> 0]
  /\ age = [a \in Action |-> 0]
  /\ account \in [User -> {"none", "ok"}]
  /\ inbox = {}
  /\ up = TRUE
  /\ plug = "starting"
  /\ pc = [h \in Handler |-> "idle"]
  /\ op = [h \in Handler |-> "none"]
  /\ on = [h \in Handler |-> NoAction]
  /\ did = [h \in Handler |-> FALSE]
  /\ out = [h \in Handler |-> "failed"]
  /\ due = [h \in Handler |-> 0]
  /\ drop = [h \in Handler |-> {}]
  /\ jpc = "idle"
  /\ batch = {}
  /\ performed = [a \in Action |-> 0]
  /\ lost = {}
  /\ faultsLeft = MaxFaults
  /\ crashesLeft = MaxCrashes

-----------------------------------------------------------------------------
(* Building blocks *)

\* A database or vault operation returns an error and changes nothing.
Fault == faultsLeft > 0 /\ faultsLeft' = faultsLeft - 1
NoFault == UNCHANGED faultsLeft

Ready(h) == up /\ plug = "ready" /\ pc[h] = "idle"

Goto(h, step) == pc' = [pc EXCEPT ![h] = step]

\* The handler's operation returns to its caller.
Return(h) ==
  /\ pc' = [pc EXCEPT ![h] = "idle"]
  /\ op' = [op EXCEPT ![h] = "none"]
  /\ on' = [on EXCEPT ![h] = NoAction]
  /\ did' = [did EXCEPT ![h] = FALSE]
  /\ out' = [out EXCEPT ![h] = "failed"]
  /\ due' = [due EXCEPT ![h] = 0]
  /\ drop' = [drop EXCEPT ![h] = {}]

\* All that is left to do is to remove the attachments of S.
Discard(h, S) ==
  /\ pc' = [pc EXCEPT ![h] = "dropping"]
  /\ on' = [on EXCEPT ![h] = NoAction]
  /\ did' = [did EXCEPT ![h] = FALSE]
  /\ out' = [out EXCEPT ![h] = "failed"]
  /\ due' = [due EXCEPT ![h] = 0]
  /\ drop' = [drop EXCEPT ![h] = S]
  /\ UNCHANGED op

\* Mutant: the UPDATE without its status condition.
TransitionWithoutStatus(a, from, to) ==
  /\ status[a] # "none"
  /\ status' = [status EXCEPT ![a] = to]
  /\ age' = [age EXCEPT ![a] = 0]

\* UPDATE plugin_actions SET status = to, updated_at = now
\* WHERE id = a AND status = from; enabled when it changes the row.
TransitionPluginAction(a, from, to) ==
  /\ status[a] = from
  /\ status' = [status EXCEPT ![a] = to]
  /\ age' = [age EXCEPT ![a] = 0]

\* The same UPDATE, when the row is no longer in status from.
NoTransition(a, from) ==
  /\ status[a] # from
  /\ UNCHANGED <<status, age>>

\* INSERT of a new pending row.
CreatePluginAction(a) ==
  /\ status[a] = "none"
  /\ status' = [status EXCEPT ![a] = "pending"]
  /\ left' = [left EXCEPT ![a] = TTL]
  /\ age' = [age EXCEPT ![a] = 0]

\* UPDATE plugin_accounts SET status = 'invalid'; no row, no change.
MarkInvalid(u) ==
  account' = [account EXCEPT ![u] = IF @ = "none" THEN "none" ELSE "invalid"]

-----------------------------------------------------------------------------
(* Dispatch: a tool call by the model *)

\* openAccount succeeds, writeInbox saves the message's files under a new ID
\* and the plugin is called: in mode preview for a write tool, in mode
\* execute for a read tool.  (With no usable account, or no plugin, nothing
\* changes.)
Dispatch(h, a) ==
  /\ Ready(h)
  /\ Fresh(a) /\ KindOf[a] = "call"
  /\ account[OwnerOf[a]] = "ok"
  /\ inbox' = inbox \cup {a}
  /\ Goto(h, "previewing")
  /\ op' = [op EXCEPT ![h] = "dispatch"]
  /\ on' = [on EXCEPT ![h] = a]
  /\ UNCHANGED <<rowVars, account, procVars, did, out, due, drop, janitorVars,
                 worldVars, boundVars>>

\* The preview is ready to be stored.
PreviewSucceeds(h) ==
  /\ pc[h] = "previewing"
  /\ Goto(h, "storing")
  /\ UNCHANGED <<rowVars, storeVars, procVars, op, on, did, out, due, drop,
                 janitorVars, worldVars, boundVars>>

\* A read tool answered, or either call failed: the deferred removeInbox is
\* all that remains.  AUTH_FAILED also marks the account.
CallAnswered(h) ==
  /\ pc[h] = "previewing"
  /\ Discard(h, {on[h]})
  /\ \/ UNCHANGED account
     \/ MarkInvalid(OwnerOf[on[h]])
  /\ UNCHANGED <<rowVars, inbox, procVars, janitorVars, worldVars, boundVars>>

\* holdForKick: DUPLICATE_SESSION keeps the files under the ID of a new
\* login_kick action of the same person; the call's own copy is to go.
HoldForKick(h, k) ==
  /\ pc[h] = "previewing"
  /\ Fresh(k) /\ KindOf[k] = "login_kick" /\ OwnerOf[k] = OwnerOf[on[h]]
  /\ inbox' = inbox \cup {k}
  /\ on' = [on EXCEPT ![h] = k]
  /\ drop' = [drop EXCEPT ![h] = {on[h]}]
  /\ Goto(h, "holding")
  /\ UNCHANGED <<rowVars, account, procVars, op, did, out, due, janitorVars,
                 worldVars, boundVars>>

HoldStored(h) ==
  /\ pc[h] = "holding"
  /\ CreatePluginAction(on[h])
  /\ Goto(h, "dropping")
  /\ UNCHANGED <<storeVars, procVars, op, on, did, out, due, drop, janitorVars,
                 worldVars, boundVars>>

HoldStoreFails(h) ==
  /\ pc[h] = "holding"
  /\ Fault
  /\ Discard(h, drop[h] \cup {on[h]})
  /\ UNCHANGED <<rowVars, storeVars, procVars, janitorVars, worldVars, crashesLeft>>

\* accountsDisconnect: a confirmation is stored for a connected account.
AskDisconnect(h, a) ==
  /\ Ready(h)
  /\ Fresh(a) /\ KindOf[a] = "disconnect"
  /\ account[OwnerOf[a]] # "none"
  /\ Goto(h, "storing")
  /\ op' = [op EXCEPT ![h] = "dispatch"]
  /\ on' = [on EXCEPT ![h] = a]
  /\ UNCHANGED <<rowVars, storeVars, procVars, did, out, due, drop, janitorVars,
                 worldVars, boundVars>>

Stored(h) ==
  /\ pc[h] = "storing"
  /\ CreatePluginAction(on[h])
  /\ Goto(h, "prompting")
  /\ UNCHANGED <<storeVars, procVars, op, on, did, out, due, drop, janitorVars,
                 worldVars, boundVars>>

StoreFails(h) ==
  /\ pc[h] = "storing"
  /\ Fault
  /\ Discard(h, {on[h]})
  /\ UNCHANGED <<rowVars, storeVars, procVars, janitorVars, worldVars, crashesLeft>>

\* The bot posted the buttons and SetActionPrompt wrote where (updated_at is
\* written too), or posting or writing failed.
Prompted(h) ==
  /\ pc[h] = "prompting"
  /\ \/ age' = [age EXCEPT ![on[h]] = 0]
     \/ UNCHANGED age
  /\ Return(h)
  /\ UNCHANGED <<status, left, storeVars, procVars, janitorVars, worldVars, boundVars>>

\* removeInbox.
Drop(h) ==
  /\ pc[h] = "dropping"
  /\ inbox' = inbox \ drop[h]
  /\ IF on[h] = NoAction
     THEN Return(h)
     ELSE /\ Goto(h, "prompting")
          /\ drop' = [drop EXCEPT ![h] = {}]
          /\ UNCHANGED <<op, on, did, out, due>>
  /\ UNCHANGED <<rowVars, account, procVars, janitorVars, worldVars, boundVars>>

-----------------------------------------------------------------------------
(* Decisions of the owner.  ownedAction refuses anyone else, a missing row  *)
(* and, once read, a row that is not pending: none of that changes state.   *)

\* Approve up to the update in claim: the copy just read says pending, and
\* the clock says whether it expired.
Approve(h, a) ==
  /\ Ready(h)
  /\ status[a] = "pending" /\ KindOf[a] \in {"call", "disconnect"}
  /\ Goto(h, IF left[a] > 0 THEN "claiming" ELSE "expiring")
  /\ op' = [op EXCEPT ![h] = "approve"]
  /\ on' = [on EXCEPT ![h] = a]
  /\ UNCHANGED <<rowVars, storeVars, procVars, did, out, due, drop, janitorVars,
                 worldVars, boundVars>>

\* LoginAndResume: a login_kick action is claimed, a call action stays
\* pending while the plugin signs in.
LoginAndResume(h, a) ==
  /\ Ready(h)
  /\ status[a] = "pending" /\ KindOf[a] \in {"call", "login_kick"}
  /\ Goto(h, CASE left[a] = 0 -> "expiring"
               [] left[a] > 0 /\ KindOf[a] = "login_kick" -> "claiming"
               [] OTHER -> "opening")
  /\ op' = [op EXCEPT ![h] = "login"]
  /\ on' = [on EXCEPT ![h] = a]
  /\ UNCHANGED <<rowVars, storeVars, procVars, did, out, due, drop, janitorVars,
                 worldVars, boundVars>>

\* Cancel: attachments are removed only while the plugin is registered.
Cancel(h, a) ==
  /\ up /\ pc[h] = "idle"
  /\ TransitionPluginAction(a, "pending", "cancelled")
  /\ Goto(h, "dropping")
  /\ op' = [op EXCEPT ![h] = "cancel"]
  /\ drop' = [drop EXCEPT ![h] = IF plug = "ready" THEN {a} ELSE {}]
  /\ UNCHANGED <<left, storeVars, procVars, on, did, out, due, janitorVars,
                 worldVars, boundVars>>

\* expire: claim and LoginAndResume found the action overdue.
ExpireOverdue(h) ==
  /\ pc[h] = "expiring"
  /\ TransitionPluginAction(on[h], "pending", "expired")
  /\ Discard(h, {on[h]})
  /\ UNCHANGED <<left, storeVars, procVars, janitorVars, worldVars, boundVars>>

ExpireOverdueLost(h) ==
  /\ pc[h] = "expiring"
  /\ \/ NoTransition(on[h], "pending") /\ NoFault
     \/ UNCHANGED <<status, age>> /\ Fault
  /\ Return(h)
  /\ UNCHANGED <<left, storeVars, procVars, janitorVars, worldVars, crashesLeft>>

\* How long a claimed action's handler may take: its plugin call, then the
\* write of the outcome.
Deadline(h) ==
  StateWriteTimeout + (IF op[h] = "approve" THEN ExecuteTimeout ELSE CallTimeout)

\* claim's conditional update wins ...
Claim(h) ==
  /\ pc[h] = "claiming"
  /\ TransitionPluginAction(on[h], "pending", "running")
  /\ Goto(h, IF KindOf[on[h]] = "disconnect" THEN "deleting" ELSE "opening")
  /\ due' = [due EXCEPT ![h] = Deadline(h)]
  /\ UNCHANGED <<left, storeVars, procVars, op, on, did, out, drop, janitorVars,
                 worldVars, boundVars>>

\* ... or changes nothing: another decision or the janitor was first, or the
\* database failed.
ClaimLost(h) ==
  /\ pc[h] = "claiming"
  /\ \/ NoTransition(on[h], "pending") /\ NoFault
     \/ UNCHANGED <<status, age>> /\ Fault
  /\ Return(h)
  /\ UNCHANGED <<left, storeVars, procVars, janitorVars, worldVars, crashesLeft>>

\* openAccount succeeds and the plugin is called in mode execute.
Open(h) ==
  /\ pc[h] = "opening"
  /\ account[OwnerOf[on[h]]] = "ok"
  /\ Goto(h, "calling")
  /\ UNCHANGED <<rowVars, storeVars, procVars, op, on, did, out, due, drop,
                 janitorVars, worldVars, boundVars>>

\* What follows a call that did nothing: Approve reopens the action, a
\* claimed login fails it, an unclaimed login leaves it as it is.
GiveUp(h) ==
  \/ Unclaimed(h) /\ Return(h)
  \/ /\ ~Unclaimed(h)
     /\ Goto(h, IF op[h] = "approve" THEN "reopening" ELSE "finishing")
     /\ out' = [out EXCEPT ![h] = "failed"]
     /\ UNCHANGED <<op, on, did, due, drop>>

\* openAccount: not connected, marked invalid, or it cannot be read.
OpenFails(h) ==
  /\ pc[h] = "opening"
  /\ \/ account[OwnerOf[on[h]]] # "ok" /\ NoFault
     \/ Fault
  /\ GiveUp(h)
  /\ UNCHANGED <<rowVars, storeVars, procVars, janitorVars, worldVars, crashesLeft>>

\* The plugin changes the other system: it submits, or signs in and ends the
\* other session of a login_kick (signing in again within one call counts
\* once).  One call submits at most once.
Perform(h) ==
  /\ pc[h] = "calling" /\ ~Unclaimed(h)
  /\ ~did[h]
  /\ did' = [did EXCEPT ![h] = TRUE]
  /\ performed' = [performed EXCEPT ![on[h]] = @ + 1]
  /\ UNCHANGED <<rowVars, storeVars, procVars, pc, op, on, out, due, drop,
                 janitorVars, lost, boundVars>>

\* The call returned and the action ends with status s.
FinishWith(h, s) ==
  /\ Goto(h, "finishing")
  /\ out' = [out EXCEPT ![h] = s]
  /\ UNCHANGED <<op, on, did, due, drop>>

CallSucceeds(h) ==
  /\ pc[h] = "calling"
  /\ \/ Unclaimed(h) /\ Return(h)
     \/ ~Unclaimed(h) /\ did[h] /\ FinishWith(h, "done")
  /\ UNCHANGED <<rowVars, storeVars, procVars, janitorVars, worldVars, boundVars>>

\* NOT_CONNECTED, AUTH_FAILED (which marks the account) or
\* DUPLICATE_SESSION: the plugin reports these before it does anything.
CallRefused(h) ==
  /\ pc[h] = "calling"
  /\ ~did[h]
  /\ \/ UNCHANGED account
     \/ MarkInvalid(OwnerOf[on[h]])
  /\ GiveUp(h)
  /\ UNCHANGED <<rowVars, inbox, procVars, janitorVars, worldVars, boundVars>>

\* Mutant: any failed call offers the action again, as a refused one does.
CallFailsReopens(h) ==
  /\ pc[h] = "calling"
  /\ GiveUp(h)
  /\ UNCHANGED lost
  /\ UNCHANGED <<rowVars, storeVars, procVars, janitorVars, performed, boundVars>>

\* Any other error.  After a timeout the plugin may still be at it.
CallFails(h) ==
  /\ pc[h] = "calling"
  /\ \/ Unclaimed(h) /\ Return(h) /\ UNCHANGED lost
     \/ /\ ~Unclaimed(h)
        /\ FinishWith(h, "failed")
        /\ \/ UNCHANGED lost
           \/ ~did[h] /\ lost' = lost \cup {on[h]}
  /\ UNCHANGED <<rowVars, storeVars, procVars, janitorVars, performed, boundVars>>

\* approveDisconnect: the account goes, or deleting it fails.
DeleteAccount(h) ==
  /\ pc[h] = "deleting"
  /\ account' = [account EXCEPT ![OwnerOf[on[h]]] = "none"]
  /\ performed' = [performed EXCEPT ![on[h]] = @ + 1]
  /\ Goto(h, "finishing")
  /\ did' = [did EXCEPT ![h] = TRUE]
  /\ out' = [out EXCEPT ![h] = "done"]
  /\ UNCHANGED <<rowVars, inbox, procVars, op, on, due, drop, janitorVars, lost,
                 boundVars>>

DeleteAccountFails(h) ==
  /\ pc[h] = "deleting"
  /\ Fault
  /\ FinishWith(h, "failed")
  /\ UNCHANGED <<rowVars, storeVars, procVars, janitorVars, worldVars, crashesLeft>>

\* Mutant: reopen removes the attachments as finish does.
ReopenAndDrop(h) ==
  /\ pc[h] = "reopening"
  /\ TransitionPluginAction(on[h], "running", "pending") /\ NoFault
  /\ Discard(h, {on[h]})
  /\ UNCHANGED <<left, storeVars, procVars, janitorVars, worldVars, crashesLeft>>

\* reopen: a failed write leaves the row running.
Reopen(h) ==
  /\ pc[h] = "reopening"
  /\ \/ TransitionPluginAction(on[h], "running", "pending") /\ NoFault
     \/ NoTransition(on[h], "running") /\ NoFault
     \/ UNCHANGED <<status, age>> /\ Fault
  /\ Return(h)
  /\ UNCHANGED <<left, storeVars, procVars, janitorVars, worldVars, crashesLeft>>

\* finish: whether or not the status could be written, the attachments go.
Finish(h) ==
  /\ pc[h] = "finishing"
  /\ \/ TransitionPluginAction(on[h], "running", out[h]) /\ NoFault
     \/ NoTransition(on[h], "running") /\ NoFault
     \/ UNCHANGED <<status, age>> /\ Fault
  /\ Discard(h, {on[h]})
  /\ UNCHANGED <<left, storeVars, procVars, janitorVars, worldVars, crashesLeft>>

\* Connect verified the form's values with the plugin and stored them.
Connect(u) ==
  /\ up /\ plug = "ready"
  /\ account' = [account EXCEPT ![u] = "ok"]
  /\ UNCHANGED <<rowVars, inbox, procVars, handlerVars, janitorVars, worldVars,
                 boundVars>>

-----------------------------------------------------------------------------
(* RunPluginJanitor: one goroutine, started once the plugin has come up or  *)
(* failed to; every tick recovers stale rows, then expires overdue ones.    *)

\* Mutant: every running row counts as stale, whatever its age.
RunningRows == {a \in Action : status[a] = "running"}

\* Mutant: expiry does not look at the status.
OverdueAnyStatus == {a \in Action : status[a] \in {"pending", "running"} /\ left[a] = 0}

\* Mutant: nothing expires while the plugin is not registered.
OverdueWhileReady == {a \in Action : status[a] = "pending" /\ left[a] = 0 /\ plug = "ready"}

StaleRows == {a \in Action : status[a] = "running" /\ age[a] >= StaleAfter}
OverdueRows == {a \in Action : status[a] = "pending" /\ left[a] = 0}

SetStatus(S, to) ==
  /\ status' = [a \in Action |-> IF a \in S THEN to ELSE status[a]]
  /\ age' = [a \in Action |-> IF a \in S THEN 0 ELSE age[a]]

\* UPDATE ... RETURNING: it may fail, or change the rows and fail to read
\* them back.
BulkUpdate(S, to) ==
  \/ SetStatus(S, to) /\ batch' = S /\ NoFault
  \/ SetStatus(S, to) /\ batch' = {} /\ Fault
  \/ UNCHANGED <<status, age>> /\ batch' = {} /\ Fault

RecoverStale ==
  /\ up /\ plug # "starting" /\ jpc = "idle"
  /\ BulkUpdate(StaleRows, "failed")
  /\ jpc' = "sweepStale"
  /\ UNCHANGED <<left, storeVars, procVars, handlerVars, worldVars, crashesLeft>>

\* removeInbox for every row of the batch, if the plugin can be named.
SweepStale ==
  /\ jpc = "sweepStale"
  /\ inbox' = IF plug = "ready" THEN inbox \ batch ELSE inbox
  /\ batch' = {}
  /\ jpc' = "expire"
  /\ UNCHANGED <<rowVars, account, procVars, handlerVars, worldVars, boundVars>>

Expire ==
  /\ jpc = "expire"
  /\ BulkUpdate(OverdueRows, "expired")
  /\ jpc' = "sweepExpired"
  /\ UNCHANGED <<left, storeVars, procVars, handlerVars, worldVars, crashesLeft>>

SweepExpired ==
  /\ jpc = "sweepExpired"
  /\ inbox' = IF plug = "ready" THEN inbox \ batch ELSE inbox
  /\ batch' = {}
  /\ jpc' = "idle"
  /\ UNCHANGED <<rowVars, account, procVars, handlerVars, worldVars, boundVars>>

-----------------------------------------------------------------------------
(* The world around the registry *)

\* A call nobody waits for comes to its end, having done its work or not.
LostCallEnds(a) ==
  /\ a \in lost
  /\ lost' = lost \ {a}
  /\ \/ performed' = [performed EXCEPT ![a] = @ + 1]
     \/ UNCHANGED performed
  /\ UNCHANGED <<rowVars, storeVars, procVars, handlerVars, janitorVars, boundVars>>

\* Mutant: remaining times are counted down past zero.
TickPastZero ==
  /\ left' = [a \in Action |-> left[a] - 1]
  /\ UNCHANGED <<status, age, storeVars, procVars, handlerVars, janitorVars, worldVars,
                 boundVars>>

\* A claimed call returns, and its outcome is written, by its deadline.
Tick ==
  /\ \A h \in Handler : Claimed(h) => due[h] > 0
  /\ left' = [a \in Action |-> IF left[a] > 0 THEN left[a] - 1 ELSE 0]
  /\ age' = [a \in Action |->
               IF status[a] = "running" /\ age[a] < StaleAfter THEN age[a] + 1 ELSE age[a]]
  /\ due' = [h \in Handler |-> IF due[h] > 0 THEN due[h] - 1 ELSE 0]
  /\ UNCHANGED <<status, storeVars, procVars, pc, op, on, did, out, drop,
                 janitorVars, worldVars, boundVars>>

\* startDaouOffice registers the plugin, or gives up for good.
StartPlugin ==
  /\ up /\ plug = "starting"
  /\ plug' \in {"ready", "absent"}
  /\ UNCHANGED <<rowVars, storeVars, up, handlerVars, janitorVars, worldVars,
                 boundVars>>

\* The actions whose execution a crash cuts off.
CutOff ==
  {on[h] : h \in {g \in Handler : pc[g] = "calling" /\ ~Unclaimed(g) /\ ~did[g]}}

\* Rows and attachments survive; a plugin call under way is cut off.
Crash ==
  /\ up
  /\ crashesLeft > 0
  /\ crashesLeft' = crashesLeft - 1
  /\ up' = FALSE
  /\ plug' = "starting"
  /\ lost' = lost \cup CutOff
  /\ pc' = [h \in Handler |-> "idle"]
  /\ op' = [h \in Handler |-> "none"]
  /\ on' = [h \in Handler |-> NoAction]
  /\ did' = [h \in Handler |-> FALSE]
  /\ out' = [h \in Handler |-> "failed"]
  /\ due' = [h \in Handler |-> 0]
  /\ drop' = [h \in Handler |-> {}]
  /\ jpc' = "idle"
  /\ batch' = {}
  /\ UNCHANGED <<rowVars, storeVars, performed, faultsLeft>>

Restart ==
  /\ ~up
  /\ up' = TRUE
  /\ UNCHANGED <<rowVars, storeVars, plug, handlerVars, janitorVars, worldVars,
                 boundVars>>

-----------------------------------------------------------------------------
\* What handler h does once an operation has begun.
HandlerStep(h) ==
  \/ PreviewSucceeds(h) \/ CallAnswered(h) \/ Stored(h) \/ StoreFails(h)
  \/ HoldStored(h) \/ HoldStoreFails(h) \/ Prompted(h) \/ Drop(h)
  \/ ExpireOverdue(h) \/ ExpireOverdueLost(h) \/ Claim(h) \/ ClaimLost(h)
  \/ Open(h) \/ OpenFails(h) \/ Perform(h) \/ CallSucceeds(h) \/ CallRefused(h)
  \/ CallFails(h) \/ DeleteAccount(h) \/ DeleteAccountFails(h)
  \/ Reopen(h) \/ Finish(h)

JanitorStep == RecoverStale \/ SweepStale \/ Expire \/ SweepExpired

\* What people and the model start.
Request(h) ==
  \E a \in Action :
    \/ Dispatch(h, a) \/ HoldForKick(h, a) \/ AskDisconnect(h, a)
    \/ Approve(h, a) \/ LoginAndResume(h, a) \/ Cancel(h, a)

Next ==
  \/ \E h \in Handler : HandlerStep(h) \/ Request(h)
  \/ \E u \in User : Connect(u)
  \/ \E a \in Action : LostCallEnds(a)
  \/ JanitorStep
  \/ Tick \/ StartPlugin \/ Crash \/ Restart

Spec == Init /\ [][Next]_vars

\* Goroutines run and calls return by their deadlines; the janitor's ticker
\* fires; time passes; systemd restarts the process (Restart=always); the
\* plugin's start ends one way or the other.
Fairness ==
  /\ \A h \in Handler : WF_vars(HandlerStep(h))
  /\ WF_vars(JanitorStep)
  /\ WF_vars(Tick)
  /\ WF_vars(StartPlugin)
  /\ WF_vars(Restart)

FairSpec == Spec /\ Fairness

-----------------------------------------------------------------------------
(* Properties *)

\* While a caller works on an action it claimed, the row stays running and is
\* nobody else's: no janitor sweep, cancellation or second approval ends or
\* takes an action whose plugin call is still in progress (Approve's comment:
\* "a double click runs once"; RecoverStale's: "olderThan must exceed the
\* execute timeout").
ClaimIsExclusive ==
  \A h \in Handler : Claimed(h) =>
    /\ status[on[h]] = "running"
    /\ \A g \in Handler \ {h} : Claimed(g) => on[g] # on[h]

\* Whatever the interleaving of approvals, reopenings, timeouts, failed
\* writes, crashes and restarts, the other system is changed at most once on
\* behalf of one action.
PerformedAtMostOnce == \A a \in Action : performed[a] <= 1

\* An action that was offered again, cancelled or expired has not been
\* performed and no call under way can still perform it: what the prompt then
\* says ("nothing was submitted") stays true.
NothingDoneUnlessClaimed ==
  \A a \in Action : status[a] \in {"none", "pending", "cancelled", "expired"} =>
    performed[a] = 0 /\ a \notin lost

\* The attachments shown in the preview are on disk as long as the action can
\* be approved and until its claimed call has returned (plugin.go: "kept for a
\* pending action until it ends").
AttachmentsKept ==
  /\ \A a \in Action : status[a] = "pending" /\ HasFiles(a) => a \in inbox
  /\ \A h \in Handler : Claimed(h) /\ HasFiles(on[h]) => on[h] \in inbox

\* The abstract lifecycle, and that this module implements it.
Lifecycle == INSTANCE ActionLifecycle WITH status <- status, performed <- performed
ImplementsLifecycle == Lifecycle!LifecycleSpec

\* Every action that was stored ends, also when the bot crashed while it ran
\* or its last status write failed: the janitor expires or fails it.
EveryActionEnds ==
  \A a \in Action : status[a] \in {"pending", "running"} ~> status[a] \in Ended
=============================================================================
