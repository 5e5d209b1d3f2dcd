----------------------------- MODULE SessionPool -----------------------------
(***************************************************************************)
(* SessionManager (plugins/daouoffice/src/sessions.mjs): one Chromium, at  *)
(* most one browser context per DaouOffice account, MaxContexts of them    *)
(* with a page open ("active"), idle ones parked without a page so that    *)
(* their server session survives.                                          *)
(*                                                                         *)
(* The code is single-threaded; every await is a point where other work    *)
(* may run, and is a step here.  Work on one account runs in a promise     *)
(* chain (queue[o], its head holds the lock): calls, idle timers and       *)
(* expiry timers.  Parking to make room and parking to hand a slot over    *)
(* run outside the account's lock.                                         *)
(*                                                                         *)
(* Left out: close() (the process is exiting), the launch and closing of   *)
(* the browser itself, and the counting of the login limiter, which may    *)
(* refuse any login here.                                                  *)
(***************************************************************************)
EXTENDS Naturals, Sequences, FiniteSets

CONSTANTS
  Owner,          \* DaouOffice accounts
  Call,           \* concurrent calls
  Ctx,            \* browser contexts
  None,           \* no context, no account
  MaxContexts,    \* maxContexts
  MaxParked,      \* maxParked
  TTL,            \* sessionTtlMs, in ticks
  KindsUsed,      \* bound: the kinds of call that are made
  MaxCalls,       \* bound: how many
  MaxFaults       \* bound: browser failures, refusals, and 401 answers

Kinds == {"session", "verify", "forget", "scratch"}
Off == TTL + 1                        \* no timer armed

ASSUME PoolAssumption ==
  /\ MaxContexts \in Nat \ {0} /\ MaxParked \in Nat /\ TTL \in Nat \ {0}
  /\ KindsUsed \subseteq Kinds
  /\ MaxCalls \in Nat /\ MaxFaults \in Nat
  /\ None \notin Owner \cup Ctx \cup Call
  /\ Owner \cap Call = {}

VARIABLES
  entries,        \* [Owner -> Ctx \cup {None}]: #entries
  ctx,            \* [Ctx -> entry]
  active,         \* #active
  waiters,        \* #waiters: calls waiting for a slot
  queue,          \* [Owner -> Seq(task)]: #locks, the head runs
  parks,          \* #park calls past their first await
  call,           \* [Call -> what a call is doing]
  callsLeft, faultsLeft

boundVars == <<callsLeft, faultsLeft>>
slotVars == <<active, waiters>>
vars == <<entries, ctx, active, waiters, queue, parks, call, callsLeft, faultsLeft>>

-----------------------------------------------------------------------------
Entry ==
  [owner : Owner \cup {None},
   slot : BOOLEAN, parked : BOOLEAN, inUse : BOOLEAN,
   closing : BOOLEAN, discarded : BOOLEAN, closed : BOOLEAN,
   left : 0..TTL,         \* time until loggedInAt + sessionTtlMs
   stale : BOOLEAN,       \* an API call answered 401
   idle : BOOLEAN,        \* idleTimer armed
   expire : 0..Off]       \* what remains of expireTimer

\* A context that does not exist (any more).
Closed ==
  [owner |-> None, slot |-> FALSE, parked |-> FALSE, inUse |-> FALSE,
   closing |-> TRUE, discarded |-> TRUE, closed |-> TRUE,
   left |-> 0, stale |-> FALSE, idle |-> FALSE, expire |-> Off]

\* A context just opened, in use, with its page and its slot.
Opened(o) ==
  [Closed EXCEPT !.owner = o, !.slot = TRUE, !.inUse = TRUE,
                 !.closing = FALSE, !.discarded = FALSE, !.closed = FALSE]

\* #adopt makes a new entry around a context; its login has just succeeded and
\* no call uses it.
Adopted(o, e) == [Opened(o) EXCEPT !.slot = e.slot, !.left = TTL, !.inUse = FALSE]

CallTask(h)   == [kind |-> "call", id |-> h]
IdleTask(c)   == [kind |-> "idle", id |-> c]
ExpireTask(c) == [kind |-> "expire", id |-> c]
Task == {CallTask(h) : h \in Call} \cup {IdleTask(c) : c \in Ctx} \cup {ExpireTask(c) : c \in Ctx}

Steps == {"none", "locking", "acquiring", "making room", "waiting", "opening", "paging",
          "checking", "logging", "using", "probing", "discarding", "failing",
          "replacing", "ending"}

CallState ==
  [pc : Steps, what : Kinds \cup {"none"}, whose : Owner \cup {None},
   at : Ctx \cup {None},        \* the context it works on
   waitFor : Ctx \cup {None}]   \* the context whose close it awaits

NoCall == [pc |-> "none", what |-> "none", whose |-> None, at |-> None, waitFor |-> None]

\* of: the context being parked; by: the call or the idle timer (its account)
\* that awaits it, None for a handoff; wait: the context whose close it awaits.
ParkRun == [of : Ctx, by : Call \cup Owner \cup {None}, stage : {"page", "trim"},
            wait : Ctx \cup {None}, victims : SUBSET Ctx]

TypeOK ==
  /\ entries \in [Owner -> Ctx \cup {None}]
  /\ ctx \in [Ctx -> Entry]
  /\ active \in 0..MaxContexts
  /\ waiters \in Seq(Call)
  /\ queue \in [Owner -> Seq(Task)]
  /\ parks \subseteq ParkRun
  /\ call \in [Call -> CallState]
  /\ callsLeft \in 0..MaxCalls /\ faultsLeft \in 0..MaxFaults

Init ==
  /\ entries = [o \in Owner |-> None]
  /\ ctx = [c \in Ctx |-> Closed]
  /\ active = 0
  /\ waiters = <<>>
  /\ queue = [o \in Owner |-> <<>>]
  /\ parks = {}
  /\ call = [h \in Call |-> NoCall]
  /\ callsLeft = MaxCalls
  /\ faultsLeft = MaxFaults

-----------------------------------------------------------------------------
(* Building blocks: what runs between two awaits *)

Fault == faultsLeft > 0 /\ faultsLeft' = faultsLeft - 1 /\ UNCHANGED callsLeft
NoFault == UNCHANGED boundVars

\* #sessionLive
Live(e) == e.left > 0 /\ ~e.stale

Queued == {waiters[i] : i \in DOMAIN waiters}

\* A waiter was handed a slot and its promise has just resolved.
Resumed(h) == call[h].pc = "waiting" /\ h \notin Queued

\* Somebody may still look at this context.
Referenced(c) ==
  \/ \E h \in Call : c \in {call[h].at, call[h].waitFor}
  \/ \E p \in parks : c \in {p.of, p.wait} \cup p.victims
  \/ \E o \in Owner : \E i \in DOMAIN queue[o] : queue[o][i].id = c

Unused(c) == ctx[c].closed /\ ~Referenced(c)

HasLock(h) == call[h].whose # None => queue[call[h].whose] # <<>> /\ Head(queue[call[h].whose]) = CallTask(h)

\* The close a call awaited is done, or there was none to await.
AwaitDone(h) == call[h].waitFor # None => ctx[call[h].waitFor].closed

Goto(h, step) == call' = [call EXCEPT ![h].pc = step]

\* The call awaits the close of c, then goes on with step.
Await(h, c, step) == call' = [call EXCEPT ![h].pc = step, ![h].waitFor = c]

\* The call returns or throws to its caller and lets the lock go.
Ends(h) ==
  /\ call' = [call EXCEPT ![h] = NoCall]
  /\ queue' = IF call[h].whose = None THEN queue
              ELSE [queue EXCEPT ![call[h].whose] = Tail(@)]

\* Mutant: the counter goes down although the slot passes to a waiter.
ReleaseTwice ==
  /\ active' = IF active > 0 THEN active - 1 ELSE 0
  /\ waiters' = IF waiters = <<>> THEN waiters ELSE Tail(waiters)

\* Mutant: the slot is freed and whoever waits is not told.
ReleaseToNobody ==
  /\ active' = IF active > 0 THEN active - 1 ELSE 0
  /\ UNCHANGED waiters

\* #releaseSlot: the slot passes to the first waiter, or is free.
ReleaseSlot ==
  IF waiters = <<>>
  THEN active' = (IF active > 0 THEN active - 1 ELSE 0) /\ UNCHANGED waiters
  ELSE waiters' = Tail(waiters) /\ UNCHANGED active

CancelTimers(e) == [e EXCEPT !.idle = FALSE, !.expire = Off]

\* Mutant: a call that fails before it got its page back arms no timer.
ArmNothing(e) == e

\* #armExpire: when the session would have ended anyway.
ArmExpire(e) == [e EXCEPT !.expire = e.left]

\* #discard up to its await, from the entry e of c; a second one does nothing.
Discard(c, e) ==
  IF e.closing
  THEN ctx' = [ctx EXCEPT ![c] = e] /\ UNCHANGED entries
  ELSE /\ ctx' = [ctx EXCEPT ![c] = [CancelTimers(e) EXCEPT !.closing = TRUE, !.discarded = TRUE]]
       /\ entries' = [o \in Owner |-> IF entries[o] = c THEN None ELSE entries[o]]

\* #park up to its first await, from the entry e of c.
Park(c, e, by) ==
  IF Live(e)
  THEN /\ ctx' = [ctx EXCEPT ![c] = [CancelTimers(e) EXCEPT !.parked = TRUE, !.slot = FALSE]]
       /\ ReleaseSlot
       /\ parks' = parks \cup {[of |-> c, by |-> by, stage |-> "page", wait |-> None, victims |-> {}]}
       /\ UNCHANGED entries
  ELSE /\ Discard(c, e)
       /\ parks' = parks \cup {[of |-> c, by |-> by, stage |-> "trim", wait |-> c, victims |-> {}]}
       /\ UNCHANGED slotVars

\* Mutant: the waiters are not looked at.
AfterUseWithoutHandoff(h, e) ==
  LET c == call[h].at
      f == [e EXCEPT !.inUse = FALSE]
  IN /\ Ends(h)
     /\ \/ /\ f.closing
           /\ ctx' = [ctx EXCEPT ![c] = f]
           /\ UNCHANGED <<entries, slotVars, parks>>
        \/ /\ ~f.closing /\ f.discarded
           /\ Discard(c, f)
           /\ UNCHANGED <<slotVars, parks>>
        \/ /\ ~f.closing /\ ~f.discarded /\ f.parked
           /\ ctx' = [ctx EXCEPT ![c] = ArmExpire(f)]
           /\ UNCHANGED <<entries, slotVars, parks>>
        \/ /\ ~f.closing /\ ~f.discarded /\ ~f.parked
           /\ ctx' = [ctx EXCEPT ![c] = [f EXCEPT !.idle = TRUE]]
           /\ UNCHANGED <<entries, slotVars, parks>>

\* #afterUse, from the entry e the call leaves behind; then the lock goes.
AfterUse(h, e) ==
  LET c == call[h].at
      f == [e EXCEPT !.inUse = FALSE]
  IN /\ Ends(h)
     /\ \/ /\ f.closing
           /\ ctx' = [ctx EXCEPT ![c] = f]
           /\ UNCHANGED <<entries, slotVars, parks>>
        \/ /\ ~f.closing /\ f.discarded
           /\ Discard(c, f)
           /\ UNCHANGED <<slotVars, parks>>
        \/ /\ ~f.closing /\ ~f.discarded /\ f.parked
           /\ ctx' = [ctx EXCEPT ![c] = ArmExpire(f)]
           /\ UNCHANGED <<entries, slotVars, parks>>
        \/ /\ ~f.closing /\ ~f.discarded /\ ~f.parked /\ waiters # <<>>
           /\ Park(c, f, None)
        \/ /\ ~f.closing /\ ~f.discarded /\ ~f.parked /\ waiters = <<>>
           /\ ctx' = [ctx EXCEPT ![c] = [f EXCEPT !.idle = TRUE]]
           /\ UNCHANGED <<entries, slotVars, parks>>

-----------------------------------------------------------------------------
(* Calls *)

\* A call arrives and joins its account's chain; a scratch context has none.
Arrive(h, k, o) ==
  /\ call[h].pc = "none"
  /\ callsLeft > 0 /\ callsLeft' = callsLeft - 1
  /\ (o = None) <=> (k = "scratch")
  /\ call' = [call EXCEPT ![h] = [NoCall EXCEPT !.pc = IF o = None THEN "acquiring" ELSE "locking",
                                                !.what = k, !.whose = o]]
  /\ queue' = IF o = None THEN queue ELSE [queue EXCEPT ![o] = Append(@, CallTask(h))]
  /\ UNCHANGED <<entries, ctx, slotVars, parks, faultsLeft>>

Entering(h, k) == call[h].pc = "locking" /\ call[h].what = k /\ HasLock(h)

\* withSession: the account has a context that can be used.
EnterExisting(h) ==
  LET c == entries[call[h].whose]
  IN /\ Entering(h, "session")
     /\ c # None
     /\ ~ctx[c].discarded
     /\ ctx' = [ctx EXCEPT ![c] = [CancelTimers(ctx[c]) EXCEPT !.inUse = TRUE]]
     /\ call' = [call EXCEPT ![h].at = c,
                             ![h].pc = IF ctx[c].parked THEN "acquiring" ELSE "checking"]
     /\ UNCHANGED <<entries, slotVars, queue, parks>>

\* withSession: its page or browser turns out to be gone (#dead).
EnterDead(h) ==
  LET c == entries[call[h].whose]
  IN /\ Entering(h, "session")
     /\ c # None
     /\ Fault
     /\ Discard(c, ctx[c])
     /\ Await(h, c, "discarding")
     /\ UNCHANGED <<slotVars, queue, parks>>

\* withSession opens a context; so does verify, unless the account has a live
\* session opened with the same credentials.
EnterNew(h) ==
  /\ \/ Entering(h, "session") /\ entries[call[h].whose] = None
     \/ Entering(h, "verify")
  /\ Goto(h, "acquiring")
  /\ UNCHANGED <<entries, ctx, slotVars, queue, parks>>

\* verify answers at once, or the limiter refuses; forget without a context.
EnterNothing(h) ==
  /\ \/ Entering(h, "verify")
     \/ Entering(h, "forget") /\ entries[call[h].whose] = None
  /\ Ends(h)
  /\ UNCHANGED <<entries, ctx, slotVars, parks>>

Forget(h) ==
  LET c == entries[call[h].whose]
  IN /\ Entering(h, "forget")
     /\ c # None
     /\ Discard(c, ctx[c])
     /\ Await(h, c, "ending")
     /\ UNCHANGED <<slotVars, queue, parks>>

\* Mutant: the limit is not looked at.
TakeSlotUnchecked(h) ==
  /\ call[h].pc = "acquiring" /\ waiters = <<>>
  /\ active' = active + 1
  /\ IF call[h].at = None
     THEN Goto(h, "opening") /\ UNCHANGED ctx
     ELSE Goto(h, "paging") /\ ctx' = [ctx EXCEPT ![call[h].at].slot = TRUE]
  /\ UNCHANGED <<entries, waiters, queue, parks>>

\* #acquireSlot: a free slot.
TakeSlot(h) ==
  /\ call[h].pc = "acquiring"
  /\ active < MaxContexts /\ waiters = <<>>
  /\ active' = active + 1
  /\ IF call[h].at = None
     THEN Goto(h, "opening") /\ UNCHANGED ctx
     ELSE Goto(h, "paging") /\ ctx' = [ctx EXCEPT ![call[h].at].slot = TRUE]
  /\ UNCHANGED <<entries, waiters, queue, parks>>

Idle == {c \in Ctx : /\ \E o \in Owner : entries[o] = c
                     /\ ctx[c].slot /\ ~ctx[c].inUse /\ ~ctx[c].closing /\ ~ctx[c].parked}

\* #acquireSlot: park an idle context first.  (The code takes the least
\* recently used one; any idle one here.)
MakeRoom(h, c) ==
  /\ call[h].pc = "acquiring"
  /\ active = MaxContexts /\ waiters = <<>>
  /\ c \in Idle
  /\ Park(c, ctx[c], h)
  /\ Goto(h, "making room")
  /\ UNCHANGED <<queue>>

\* #acquireSlot: wait in line.
Wait(h) ==
  /\ call[h].pc = "acquiring"
  /\ \/ waiters # <<>>
     \/ active = MaxContexts /\ Idle = {}
  /\ waiters' = Append(waiters, h)
  /\ Goto(h, "waiting")
  /\ UNCHANGED <<entries, ctx, active, queue, parks>>

\* The slot was handed over.
Resume(h) ==
  /\ Resumed(h)
  /\ IF call[h].at = None
     THEN Goto(h, "opening") /\ UNCHANGED ctx
     ELSE Goto(h, "paging") /\ ctx' = [ctx EXCEPT ![call[h].at].slot = TRUE]
  /\ UNCHANGED <<entries, slotVars, queue, parks>>

\* waiters.splice(indexOf(h), 1).
Without(line, h) ==
  LET i == CHOOSE j \in DOMAIN line : line[j] = h
  IN [j \in 1 .. Len(line) - 1 |-> IF j < i THEN line[j] ELSE line[j + 1]]

\* queueTimeoutMs passed.
QueueTimeout(h) ==
  /\ call[h].pc = "waiting" /\ h \in Queued
  /\ waiters' = Without(waiters, h)
  /\ UNCHANGED <<active, parks>>
  /\ Ends(h)
  /\ IF call[h].at = None
     THEN UNCHANGED <<entries, ctx>>
     ELSE \* #afterUse: the context it wanted to resume stays parked
          LET c == call[h].at
              f == [ctx[c] EXCEPT !.inUse = FALSE]
          IN IF f.closing \/ f.discarded
             THEN Discard(c, f)
             ELSE ctx' = [ctx EXCEPT ![c] = ArmExpire(f)] /\ UNCHANGED entries

\* #openContext: a new context and page; withSession registers it.
Open(h, c) ==
  /\ call[h].pc = "opening"
  /\ Unused(c)
  /\ ctx' = [ctx EXCEPT ![c] = Opened(call[h].whose)]
  /\ entries' = IF call[h].what = "session" THEN [entries EXCEPT ![call[h].whose] = c] ELSE entries
  /\ call' = [call EXCEPT ![h].at = c,
                          ![h].pc = CASE call[h].what = "session" -> "checking"
                                      [] call[h].what = "verify" -> "probing"
                                      [] OTHER -> "using"]
  /\ UNCHANGED <<slotVars, queue, parks>>

OpenFails(h) ==
  /\ call[h].pc = "opening"
  /\ Fault
  /\ ReleaseSlot
  /\ Ends(h)
  /\ UNCHANGED <<entries, ctx, parks>>

\* What needs the context fails: a fault, or the context is gone.
Broken(h) ==
  \/ Fault
  \/ ctx[call[h].at].closing /\ NoFault

\* #unpark: a page for the parked context.
Unpark(h) ==
  /\ call[h].pc = "paging"
  /\ ~ctx[call[h].at].closing
  /\ ctx' = [ctx EXCEPT ![call[h].at].parked = FALSE]
  /\ Goto(h, "checking")
  /\ UNCHANGED <<entries, slotVars, queue, parks>>

\* #unpark: no page, because the browser fails or the context was closed.
UnparkFails(h) ==
  /\ call[h].pc = "paging"
  /\ Broken(h)
  /\ AfterUse(h, [ctx[call[h].at] EXCEPT !.discarded = TRUE])

\* #alive says yes.
SessionAlive(h) ==
  /\ call[h].pc = "checking"
  /\ Live(ctx[call[h].at]) /\ ~ctx[call[h].at].closing
  /\ Goto(h, "using")
  /\ UNCHANGED <<entries, ctx, slotVars, queue, parks>>

\* #alive says no: the TTL passed, an API call met a 401, or the check does.
SessionOver(h) ==
  /\ call[h].pc = "checking"
  /\ Live(ctx[call[h].at]) => Fault
  /\ ~Live(ctx[call[h].at]) => NoFault
  /\ Goto(h, "logging")
  /\ UNCHANGED <<entries, ctx, slotVars, queue, parks>>

\* The check cannot be made, or the limiter refuses the login.
CheckFails(h) ==
  /\ call[h].pc = "checking"
  /\ Broken(h)
  /\ AfterUse(h, ctx[call[h].at])

Login(h) ==
  /\ call[h].pc = "logging"
  /\ ~ctx[call[h].at].closing
  /\ ctx' = [ctx EXCEPT ![call[h].at].left = TTL, ![call[h].at].stale = FALSE]
  /\ Goto(h, "using")
  /\ UNCHANGED <<entries, slotVars, queue, parks>>

LoginFails(h) ==
  /\ call[h].pc = "logging"
  /\ Broken(h)
  /\ Discard(call[h].at, ctx[call[h].at])
  /\ Await(h, IF ctx[call[h].at].closing THEN None ELSE call[h].at, "failing")
  /\ UNCHANGED <<slotVars, queue, parks>>

\* fn returns or throws; an API call in it may have met a 401.
Used(h) ==
  /\ call[h].pc = "using" /\ call[h].what = "session"
  /\ \/ AfterUse(h, ctx[call[h].at]) /\ NoFault
     \/ AfterUse(h, [ctx[call[h].at] EXCEPT !.stale = TRUE]) /\ Fault

\* A scratch context's work is over, or verify's login failed or met another
\* session: #closeContext.
CloseContext(h) ==
  /\ \/ call[h].pc = "using" /\ call[h].what = "scratch"
     \/ call[h].pc = "probing"
  /\ ctx' = [ctx EXCEPT ![call[h].at].closing = TRUE]
  /\ Await(h, call[h].at, "ending")
  /\ UNCHANGED <<entries, slotVars, queue, parks>>

\* verify's login worked: the old entry is discarded first.
Proven(h) ==
  LET c == entries[call[h].whose]
  IN /\ call[h].pc = "probing"
     /\ c # None
     /\ Discard(c, ctx[c])
     /\ Await(h, c, "replacing")
     /\ UNCHANGED <<slotVars, queue, parks>>

\* #adopt and #afterUse of the proven context.
Adopt(h) ==
  LET c == call[h].at
      e == Adopted(call[h].whose, ctx[c])
      registered == [entries EXCEPT ![call[h].whose] = c]
  IN /\ \/ call[h].pc = "probing" /\ entries[call[h].whose] = None
        \/ call[h].pc = "replacing" /\ AwaitDone(h)
     /\ Ends(h)
     /\ entries' = registered
     /\ IF waiters # <<>>
        THEN /\ ctx' = [ctx EXCEPT ![c] = [e EXCEPT !.parked = TRUE, !.slot = FALSE]]
             /\ ReleaseSlot
             /\ parks' = parks \cup {[of |-> c, by |-> None, stage |-> "page",
                                      wait |-> None, victims |-> {}]}
        ELSE /\ ctx' = [ctx EXCEPT ![c] = [e EXCEPT !.idle = TRUE]]
             /\ UNCHANGED <<slotVars, parks>>

Awaited(h) ==
  /\ AwaitDone(h)
  /\ \/ /\ call[h].pc = "discarding"
        /\ Await(h, None, "acquiring")
        /\ UNCHANGED <<entries, ctx, slotVars, queue, parks>>
     \/ call[h].pc = "failing" /\ AfterUse(h, ctx[call[h].at])
     \/ call[h].pc = "ending" /\ Ends(h) /\ UNCHANGED <<entries, ctx, slotVars, parks>>

-----------------------------------------------------------------------------
(* Contexts, parking and timers *)

\* context.close() is done: the slot goes, if it still had one.
ContextClosed(c) ==
  /\ ctx[c].closing /\ ~ctx[c].closed
  /\ ctx' = [ctx EXCEPT ![c] = Closed]
  /\ IF ctx[c].slot THEN ReleaseSlot ELSE UNCHANGED slotVars
  /\ UNCHANGED <<entries, queue, parks, call>>

\* Whoever awaited #park goes on.
ParkReturns(p) ==
  /\ call' = IF p.by \in Call THEN [call EXCEPT ![p.by].pc = "acquiring"] ELSE call
  /\ queue' = IF p.by \in Owner THEN [queue EXCEPT ![p.by] = Tail(@)] ELSE queue

\* #trimParked discards the next victim (nothing, if it is closing already).
TrimNext(p, entry, victims) ==
  IF \A v \in victims : entry[v].closing
  THEN /\ ParkReturns(p)
       /\ parks' = parks \ {p}
       /\ ctx' = entry
       /\ UNCHANGED entries
  ELSE \E v \in {x \in victims : ~entry[x].closing} :
         /\ parks' = (parks \ {p}) \cup
              {[p EXCEPT !.stage = "trim", !.wait = v, !.victims = victims \ {v}]}
         /\ ctx' = [entry EXCEPT ![v] = [CancelTimers(entry[v]) EXCEPT !.closing = TRUE, !.discarded = TRUE]]
         /\ entries' = [o \in Owner |-> IF entries[o] = v THEN None ELSE entries[o]]
         /\ UNCHANGED <<call, queue>>

\* Mutant: contexts that a call is about to resume are counted in.
SurplusInUse(entry) ==
  LET idle == {c \in Ctx : /\ \E o \in Owner : entries[o] = c
                           /\ entry[c].parked /\ ~entry[c].closing}
  IN IF Cardinality(idle) <= MaxParked THEN {{}}
     ELSE {V \in SUBSET idle :
             /\ Cardinality(V) = Cardinality(idle) - MaxParked
             /\ \A v \in V, c \in idle \ V : entry[v].left <= entry[c].left}

\* The parked contexts over the limit, those whose session ends soonest.
Surplus(entry) ==
  LET idle == {c \in Ctx : /\ \E o \in Owner : entries[o] = c
                           /\ entry[c].parked /\ ~entry[c].inUse /\ ~entry[c].closing}
  IN IF Cardinality(idle) <= MaxParked THEN {{}}
     ELSE {V \in SUBSET idle :
             /\ Cardinality(V) = Cardinality(idle) - MaxParked
             /\ \A v \in V, c \in idle \ V : entry[v].left <= entry[c].left}

\* #park after page.close(): the expiry timer is armed, whatever happened to
\* the context meanwhile, and #trimParked looks for victims.
PageClosed(p) ==
  LET entry == IF ctx[p.of].closing THEN ctx ELSE [ctx EXCEPT ![p.of] = ArmExpire(ctx[p.of])]
  IN /\ p \in parks /\ p.stage = "page"
     /\ \E V \in Surplus(entry) : TrimNext(p, entry, V)
     /\ UNCHANGED <<slotVars>>

\* #park or #trimParked after a context was closed.
Trimmed(p) ==
  /\ p \in parks /\ p.stage = "trim"
  /\ ctx[p.wait].closed
  /\ TrimNext(p, ctx, p.victims)
  /\ UNCHANGED <<slotVars>>

IdleFires(c) ==
  /\ ctx[c].idle
  /\ ctx' = [ctx EXCEPT ![c].idle = FALSE]
  /\ queue' = [queue EXCEPT ![ctx[c].owner] = Append(@, IdleTask(c))]
  /\ UNCHANGED <<entries, slotVars, parks, call>>

ExpireFires(c) ==
  /\ ctx[c].expire = 0
  /\ ctx' = [ctx EXCEPT ![c].expire = Off]
  /\ queue' = [queue EXCEPT ![ctx[c].owner] = Append(@, ExpireTask(c))]
  /\ UNCHANGED <<entries, slotVars, parks, call>>

\* The lock's holder is a timer's task that has not started yet.
TimerTurn(o, task) ==
  /\ queue[o] # <<>> /\ Head(queue[o]) = task
  /\ \A p \in parks : p.by # o

\* The idle timer's task: park the context if it is still there.
IdleRuns(o, c) ==
  /\ TimerTurn(o, IdleTask(c))
  /\ IF entries[o] = c /\ ~ctx[c].inUse /\ ~ctx[c].parked /\ ~ctx[c].closing
     THEN Park(c, ctx[c], o) /\ UNCHANGED queue
     ELSE /\ queue' = [queue EXCEPT ![o] = Tail(@)]
          /\ UNCHANGED <<entries, ctx, slotVars, parks>>
  /\ UNCHANGED call

\* #expire: close the context if it is still there.  (Nothing but the close
\* follows its await, so it is a park without a victim.)
ExpireRuns(o, c) ==
  /\ TimerTurn(o, ExpireTask(c))
  /\ IF entries[o] = c /\ ~ctx[c].inUse /\ ~ctx[c].closing
     THEN /\ Discard(c, ctx[c])
          /\ parks' = parks \cup {[of |-> c, by |-> o, stage |-> "trim", wait |-> c, victims |-> {}]}
          /\ UNCHANGED queue
     ELSE /\ queue' = [queue EXCEPT ![o] = Tail(@)]
          /\ UNCHANGED <<entries, ctx, parks>>
  /\ UNCHANGED <<slotVars, call>>

\* #onBrowserGone: idle contexts go now, those in use after their call.
BrowserGone ==
  LET registered == {c \in Ctx : \E o \in Owner : entries[o] = c}
      dropped == {c \in registered : ~ctx[c].inUse}
  IN /\ registered # {}
     /\ Fault
     /\ ctx' = [c \in Ctx |->
                  IF c \in dropped
                  THEN [CancelTimers(ctx[c]) EXCEPT !.closing = TRUE, !.discarded = TRUE]
                  ELSE IF c \in registered THEN [ctx[c] EXCEPT !.discarded = TRUE] ELSE ctx[c]]
     /\ entries' = [o \in Owner |-> IF entries[o] \in dropped THEN None ELSE entries[o]]
     /\ UNCHANGED <<slotVars, queue, parks, call>>

Tick ==
  /\ \E c \in Ctx : ctx[c].left > 0 \/ ctx[c].expire \in 1..TTL
  /\ ctx' = [c \in Ctx |->
               [ctx[c] EXCEPT !.left = IF @ > 0 THEN @ - 1 ELSE 0,
                              !.expire = IF @ \in 1..TTL THEN @ - 1 ELSE @]]
  /\ UNCHANGED <<entries, slotVars, queue, parks, call>>

-----------------------------------------------------------------------------
\* Work whose promise has resolved: it runs before any other event does, as
\* microtasks come first.
Runnable(h) ==
  \/ Resumed(h)
  \/ call[h].pc = "locking" /\ HasLock(h)
  \/ call[h].pc = "acquiring"
  \/ call[h].pc \in {"discarding", "failing", "replacing", "ending"} /\ AwaitDone(h)

TimerRunnable(o) == \E c \in Ctx : TimerTurn(o, IdleTask(c)) \/ TimerTurn(o, ExpireTask(c))
ParkRunnable(p) == p.stage = "trim" /\ ctx[p.wait].closed

Busy == \/ \E h \in Call : Runnable(h)
        \/ \E o \in Owner : TimerRunnable(o)
        \/ \E p \in parks : ParkRunnable(p)

CallContinues(h) ==
  \/ EnterDead(h)
  \/ /\ NoFault
     /\ \/ EnterExisting(h) \/ EnterNew(h) \/ EnterNothing(h) \/ Forget(h)
        \/ TakeSlot(h) \/ Wait(h) \/ Resume(h) \/ \E c \in Ctx : MakeRoom(h, c)
        \/ Awaited(h) \/ (call[h].pc = "replacing" /\ Adopt(h))

TimerContinues(o) == NoFault /\ \E c \in Ctx : IdleRuns(o, c) \/ ExpireRuns(o, c)

ParkContinues == NoFault /\ \E p \in parks : Trimmed(p)

\* The browser or DaouOffice answers a call, or what the call was for is done.
CallEvent(h) ==
  \/ OpenFails(h) \/ UnparkFails(h) \/ SessionOver(h) \/ CheckFails(h)
  \/ LoginFails(h) \/ Used(h)
  \/ /\ NoFault
     /\ \/ \E c \in Ctx : Open(h, c)
        \/ Unpark(h) \/ SessionAlive(h) \/ Login(h)
        \/ CloseContext(h) \/ Proven(h) \/ (call[h].pc = "probing" /\ Adopt(h))

CloseEvent ==
  NoFault /\ (\E c \in Ctx : ContextClosed(c) \/ \E p \in parks : PageClosed(p))

\* What may happen or not.
Free ==
  \/ \E h \in Call, k \in KindsUsed, o \in Owner \cup {None} : Arrive(h, k, o)
  \/ BrowserGone
  \/ /\ NoFault
     /\ \/ \E h \in Call : QueueTimeout(h)
        \/ \E c \in Ctx : IdleFires(c) \/ ExpireFires(c)
        \/ Tick

Next ==
  \/ \E h \in Call : CallContinues(h)
  \/ \E o \in Owner : TimerContinues(o)
  \/ ParkContinues
  \/ ~Busy /\ \E h \in Call : CallEvent(h)
  \/ ~Busy /\ (CloseEvent \/ Free)

Spec == Init /\ [][Next]_vars

\* Resolved promises go on, browser calls answer or time out, closes end.
\* Timers, arrivals and the queue timeout need not happen.
FairSpec ==
  /\ Spec
  /\ \A h \in Call : WF_vars(CallContinues(h)) /\ WF_vars(~Busy /\ CallEvent(h))
  /\ \A o \in Owner : WF_vars(TimerContinues(o))
  /\ WF_vars(ParkContinues)
  /\ WF_vars(~Busy /\ CloseEvent)

-----------------------------------------------------------------------------
(* Properties *)

\* #active counts what its comment says: "active slots held (entries with a
\* page, scratch contexts, contexts being opened)", and never more than the
\* limit; no slot is lost, counted twice or held by a context that is gone.
SlotsAccounted ==
  /\ active <= MaxContexts
  /\ active = Cardinality({c \in Ctx : ctx[c].slot /\ ~ctx[c].closed})
              + Cardinality({h \in Call : call[h].pc = "opening" \/ Resumed(h)})

\* A context that a call works on is not closed under it: parking, trimming
\* and timers of other calls leave it alone.
InUseKept ==
  \A h \in Call : call[h].pc \in {"paging", "checking", "logging", "using", "probing", "replacing"} =>
    ~ctx[call[h].at].closing

\* Nobody waits while a slot is free (no wakeup is lost), and the contexts
\* whose slots they wait for are in use or about to give them up.
NobodyWaitsForNothing ==
  waiters # <<>> => active = MaxContexts /\ Idle = {}

\* A context that no call uses is on its way out: its idle timer, its expiry
\* timer, or the work they started will see to it.
NothingForgotten ==
  \A o \in Owner : LET c == entries[o] IN
    c # None /\ ~ctx[c].inUse =>
      \/ ctx[c].idle \/ ctx[c].expire # Off
      \/ \E i \in DOMAIN queue[o] : queue[o][i] \in {IdleTask(c), ExpireTask(c)}
      \/ \E p \in parks : p.of = c /\ p.stage = "page"

\* Each call ends, even when nobody's queue timeout fires: whoever waits for a
\* slot gets one, and no lock or slot is held for ever.
EveryCallEnds == \A h \in Call : call[h].pc # "none" ~> call[h].pc = "none"

\* An expiry timer closes a context only when its session has ended anyway.
ExpiresOnlyEnded ==
  \A o \in Owner : LET c == entries[o] IN
    c # None /\ TimerTurn(o, ExpireTask(c)) /\ ~ctx[c].inUse => ~Live(ctx[c])
=============================================================================
