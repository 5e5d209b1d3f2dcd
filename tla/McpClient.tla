------------------------------- MODULE McpClient -------------------------------
(***************************************************************************)
(* The client of a plugin's process (internal/plugin/mcpstdio/client.go):  *)
(* how calls that run at once share one session, restart a process that    *)
(* went away, and what Close leaves behind.                                *)
(*                                                                         *)
(* A process is unborn, live, broken (it runs, but its connection is       *)
(* closed) or dead.  The client learns of a closed connection late, by a   *)
(* call that fails or by the session's end.  The mutex is held while a     *)
(* process starts.  Left out: what calls carry, and logging.               *)
(***************************************************************************)
EXTENDS Naturals

CONSTANTS
  Caller,       \* the calls that are ever made
  Executing,    \* those of a write tool in mode execute
  Spawns,       \* bound: processes that are started
  MaxLists      \* bound: how often a process changes its list of tools

ASSUME ClientAssumption ==
  /\ Executing \subseteq Caller
  /\ Spawns \in Nat \ {0}
  /\ MaxLists \in Nat
  /\ 0 \notin Caller

Process == 1 .. Spawns

VARIABLES
  state,        \* [Process -> its state]
  ended,        \* the processes whose session has ended (done is closed)
  session,      \* the client's session: a process, or 0
  closed,
  mutex,        \* the call that starts a process, or 0
  spawned,      \* [Caller -> the process it starts, or 0]
  call,         \* [Caller -> where it is]
  using,        \* [Caller -> the session it sent its request to, or 0]
  arrived,      \* [Caller -> how often the request reached a process]
  lists,        \* [Process -> how often its list of tools changed]
  toolList,        \* the client's list: whose it is, and which
  refreshes     \* lists that were read and are not stored yet

clientVars == <<state, ended, session, closed, mutex, spawned, call, using, arrived,
                lists, toolList, refreshes>>
callVars == <<call, using, arrived>>
listVars == <<lists, toolList, refreshes>>

List == [from : {0} \cup Process, version : 0 .. MaxLists]
Steps == {"idle", "current", "send", "waiting", "lost", "resend", "waiting again", "answered",
          "failed"}

ClientTypeOK ==
  /\ state \in [Process -> {"unborn", "live", "broken", "dead"}]
  /\ ended \subseteq Process
  /\ session \in {0} \cup Process
  /\ closed \in BOOLEAN
  /\ mutex \in {0} \cup Caller
  /\ spawned \in [Caller -> {0} \cup Process]
  /\ call \in [Caller -> Steps]
  /\ using \in [Caller -> {0} \cup Process]
  /\ arrived \in [Caller -> Nat]
  /\ lists \in [Process -> 0 .. MaxLists]
  /\ toolList \in List
  /\ refreshes \subseteq List

ClientInit ==
  /\ state = [p \in Process |-> IF p = 1 THEN "live" ELSE "unborn"]
  /\ ended = {}
  /\ session = 1
  /\ closed = FALSE
  /\ mutex = 0
  /\ spawned = [c \in Caller |-> 0]
  /\ call = [c \in Caller |-> "idle"]
  /\ using = [c \in Caller |-> 0]
  /\ arrived = [c \in Caller |-> 0]
  /\ lists = [p \in Process |-> 0]
  /\ toolList = [from |-> 1, version |-> 0]
  /\ refreshes = {}

Runs(p) == state[p] \in {"live", "broken"}
Go(c, step) == call' = [call EXCEPT ![c] = step]

-----------------------------------------------------------------------------
(* Processes. *)

Breaks(p) ==
  /\ state[p] = "live"
  /\ state' = [state EXCEPT ![p] = "broken"]
  /\ UNCHANGED <<ended, session, closed, mutex, spawned, callVars, listVars>>

Dies(p) ==
  /\ Runs(p)
  /\ state' = [state EXCEPT ![p] = "dead"]
  /\ UNCHANGED <<ended, session, closed, mutex, spawned, callVars, listVars>>

\* session.Wait returns.
SessionEnds(p) ==
  /\ state[p] \in {"broken", "dead"}
  /\ p \notin ended
  /\ ended' = ended \cup {p}
  /\ UNCHANGED <<state, session, closed, mutex, spawned, callVars, listVars>>

-----------------------------------------------------------------------------
(* The session, under the mutex. *)

\* Closing a session ends its process.
Killed(p) == IF p = 0 THEN state ELSE [state EXCEPT ![p] = "dead"]

\* connectLocked, which may find no process left to start: the bound.
Spawn(c, killed) ==
  /\ \E p \in Process :
       /\ state[p] = "unborn"
       /\ \A q \in Process : q < p => state[q] # "unborn"
       /\ state' = [killed EXCEPT ![p] = "live"]
       /\ spawned' = [spawned EXCEPT ![c] = p]
  /\ mutex' = c
  /\ session' = 0
  /\ UNCHANGED <<ended, closed, callVars, listVars>>

\* The process answered and listed its tools.
Connected(c) ==
  /\ mutex = c
  /\ state[spawned[c]] = "live"
  /\ session' = spawned[c]
  /\ using' = [using EXCEPT ![c] = spawned[c]]
  /\ toolList' = [from |-> spawned[c], version |-> lists[spawned[c]]]
  /\ mutex' = 0
  /\ spawned' = [spawned EXCEPT ![c] = 0]
  /\ Go(c, IF call[c] = "lost" THEN "resend" ELSE "send")
  /\ UNCHANGED <<state, ended, closed, arrived, lists, refreshes>>

\* It did not, or the caller's context ended: the process is stopped.
ConnectFails(c) ==
  /\ mutex = c
  /\ state' = Killed(spawned[c])
  /\ mutex' = 0
  /\ spawned' = [spawned EXCEPT ![c] = 0]
  /\ Go(c, "failed")
  /\ UNCHANGED <<ended, session, closed, using, arrived, listVars>>

Closed(c) ==
  /\ closed
  /\ Go(c, "failed")
  /\ UNCHANGED <<state, ended, session, closed, mutex, spawned, using, arrived, listVars>>

Reuse(c, step) ==
  /\ using' = [using EXCEPT ![c] = session]
  /\ Go(c, step)
  /\ UNCHANGED <<state, ended, session, closed, mutex, spawned, arrived, listVars>>

Alive == session # 0 /\ session \notin ended

\* A session that has not ended, or a new one.
Current(c) ==
  /\ call[c] = "current" /\ mutex = 0
  /\ \/ Closed(c)
     \/ ~ closed /\ Alive /\ Reuse(c, "send")
     \/ ~ closed /\ ~ Alive /\ Spawn(c, Killed(session))

\* A restart that leaves the session it replaces to end by itself.
RestartBeside(c) ==
  /\ call[c] = "lost" /\ mutex = 0
  /\ \/ Closed(c)
     \/ ~ closed /\ Alive /\ session # using[c] /\ Reuse(c, "resend")
     \/ ~ closed /\ ~ (Alive /\ session # using[c]) /\ Spawn(c, state)

\* A session that another call started meanwhile is used; the dead one is
\* replaced whether or not its end was noticed.
Restart(c) ==
  /\ call[c] = "lost" /\ mutex = 0
  /\ \/ Closed(c)
     \/ ~ closed /\ Alive /\ session # using[c] /\ Reuse(c, "resend")
     \/ ~ closed /\ ~ (Alive /\ session # using[c]) /\ Spawn(c, Killed(session))

Close ==
  /\ mutex = 0 /\ ~ closed
  /\ closed' = TRUE
  /\ state' = Killed(session)
  /\ session' = 0
  /\ UNCHANGED <<ended, mutex, spawned, callVars, listVars>>

-----------------------------------------------------------------------------
(* A call. *)

Begin(c) ==
  /\ call[c] = "idle"
  /\ Go(c, "current")
  /\ UNCHANGED <<state, ended, session, closed, mutex, spawned, using, arrived, listVars>>

Moved(c, step) ==
  /\ Go(c, step)
  /\ UNCHANGED <<state, ended, session, closed, mutex, spawned, using, arrived, listVars>>

Send(c) ==
  /\ call[c] \in {"send", "resend"}
  /\ state[using[c]] = "live"
  /\ arrived' = [arrived EXCEPT ![c] = @ + 1]
  /\ Go(c, IF call[c] = "send" THEN "waiting" ELSE "waiting again")
  /\ UNCHANGED <<state, ended, session, closed, mutex, spawned, using, listVars>>

\* A result, or the error the plugin answers with.
Answer(c) ==
  /\ call[c] \in {"waiting", "waiting again"}
  /\ state[using[c]] = "live"
  /\ Moved(c, "answered")

\* Executing calls are sent again too.
LoseAny(c) ==
  /\ call[c] \in {"send", "waiting"}
  /\ state[using[c]] # "live"
  /\ Moved(c, "lost")

\* The process went away before the request or before its answer.  The first
\* time the call is sent again if that is what the error is seen to be and
\* nothing can have been executed.
Lose(c) ==
  /\ call[c] \in {"send", "waiting"}
  /\ state[using[c]] # "live"
  /\ c \notin Executing /\ Moved(c, "lost")

\* Any other error: an executing call that lost its process, a second loss, a
\* loss not recognised within the grace time, a context that ended.
Fail(c) ==
  /\ call[c] \in {"send", "waiting", "resend", "waiting again"}
  /\ Moved(c, "failed")

-----------------------------------------------------------------------------
(* The list of tools. *)

\* A process announces that its list changed.
ToolListChanged(p) ==
  /\ state[p] = "live" /\ lists[p] < MaxLists
  /\ lists' = [lists EXCEPT ![p] = @ + 1]
  /\ UNCHANGED <<state, ended, session, closed, mutex, spawned, callVars, toolList, refreshes>>

\* Each announcement has a goroutine that reads the list, without the mutex ...
ReadList(p) ==
  /\ state[p] = "live" /\ lists[p] > 0
  /\ refreshes' = refreshes \cup {[from |-> p, version |-> lists[p]]}
  /\ UNCHANGED <<state, ended, session, closed, mutex, spawned, callVars, lists, toolList>>

\* The list is stored whichever session there is by now.
StoreAnyList(r) ==
  /\ mutex = 0
  /\ refreshes' = refreshes \ {r}
  /\ toolList' = r
  /\ UNCHANGED <<state, ended, session, closed, mutex, spawned, callVars, lists>>

\* ... and stores it, if the session is still the client's.
StoreList(r) ==
  /\ mutex = 0
  /\ refreshes' = refreshes \ {r}
  /\ toolList' = IF session = r.from THEN r ELSE toolList
  /\ UNCHANGED <<state, ended, session, closed, mutex, spawned, callVars, lists>>

CallStep(c) ==
  \/ Begin(c) \/ Current(c) \/ Connected(c) \/ ConnectFails(c) \/ Send(c) \/ Answer(c)
  \/ Lose(c) \/ Restart(c) \/ Fail(c)

ClientNext ==
  \/ \E c \in Caller : CallStep(c)
  \/ \E p \in Process : Breaks(p) \/ Dies(p) \/ SessionEnds(p) \/ ToolListChanged(p) \/ ReadList(p)
  \/ \E r \in refreshes : StoreList(r)
  \/ Close

ClientSpec == ClientInit /\ [][ClientNext]_clientVars

-----------------------------------------------------------------------------
(* Properties. *)

\* However many calls lose their process at once, one replacement runs, none
\* beside the process it replaces, and none after Close once the mutex is free.
OneProcess ==
  /\ \A p, q \in Process : Runs(p) /\ Runs(q) => p = q
  /\ closed /\ mutex = 0 => \A p \in Process : ~ Runs(p)

\* A write that is executed reaches plugins at most once, through any number of
\* lost processes and restarts by other calls; any other call at most twice.
SentAtMost == \A c \in Caller : arrived[c] <= IF c \in Executing THEN 1 ELSE 2

\* The list the bot offers is that of the process it would call: a list read from
\* an earlier process and stored late does not replace it.
ListOfThisSession == session # 0 => toolList.from = session

=============================================================================
