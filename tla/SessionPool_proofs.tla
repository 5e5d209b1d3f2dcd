-------------------------- MODULE SessionPool_proofs --------------------------
(***************************************************************************)
(* Proofs about the pool of browser sessions, for any number of accounts,  *)
(* calls and contexts, any limits and any failures: every variable keeps   *)
(* its type, nobody waits while a slot is free, and no idle context is     *)
(* forgotten.  That the slots are counted right and that no context is     *)
(* closed under a call is proved up to the one step that breaks it, the    *)
(* trimming of a context that a call has taken since it was chosen         *)
(* (TrimsUnderACall), which the run pool_trim shows.                       *)
(*                                                                         *)
(* What makes them inductive: who works on an account holds its lock, so   *)
(* that two calls never share a context (LocksHeld, AtInv), and a context  *)
(* that is registered is open and belongs to its account (RegInv).         *)
(***************************************************************************)
EXTENDS SessionPool, FiniteSetTheorems, SequenceTheorems, TLAPS

\* The steps of a call before it has a context, with one that is parked or not
\* there yet, and with one it works on.
Bare == {"locking", "opening", "discarding"}
ForSlot == {"acquiring", "making room", "waiting"}
Working == {"paging", "checking", "logging", "using", "failing", "probing", "replacing"}

\* Which calls reach which steps, and with a context or without.
ShapeOf(k) ==
  /\ k.pc = "none" => k.what = "none" /\ k.whose = None /\ k.at = None
  /\ k.pc # "none" => k.what \in Kinds /\ ((k.whose = None) <=> (k.what = "scratch"))
  /\ k.pc \in Bare => k.at = None
  /\ k.pc \in Working => k.at \in Ctx
  /\ k.pc \in {"paging", "checking", "logging", "failing", "discarding"} => k.what = "session"
  /\ k.pc \in {"probing", "replacing"} => k.what = "verify"
  /\ k.pc = "using" => k.what \in {"session", "scratch"}
  /\ k.pc \in ForSlot \cup {"opening"} => k.what # "forget"
  /\ k.pc \in ForSlot /\ k.at # None => k.what = "session"
  /\ k.pc = "locking" => k.what # "scratch"
  /\ k.pc = "ending" /\ k.at # None => k.what \in {"verify", "scratch"}

CallShape == \A h \in Call : ShapeOf(call[h])

\* A call past its turn in the account's chain is still at its head.
LocksHeld == \A h \in Call : call[h].pc \notin {"none", "locking"} => HasLock(h)

Registered(c) == \E o \in Owner : entries[o] = c

\* A context that the pool would hand out is open and its account's.
RegInv ==
  /\ \A o \in Owner : entries[o] # None =>
       ctx[entries[o]].owner = o /\ ~ctx[entries[o]].closing
  /\ \A c \in Ctx : ctx[c].closed => ctx[c].closing

\* Whoever awaits a park waits for one only, and goes on after it: a call that
\* makes room, or the timer's task at the head of its account's chain.
ParksInv ==
  /\ \A p, q \in parks : p.by = q.by /\ p.by # None => p = q
  /\ \A p \in parks : p.by \in Call => call[p.by].pc = "making room"
  /\ \A p \in parks : p.by \in Owner =>
       /\ queue[p.by] # <<>>
       /\ \E c \in Ctx :
            \/ Head(queue[p.by]) = IdleTask(c) /\ (entries[p.by] = c => ctx[c].parked)
            \/ Head(queue[p.by]) = ExpireTask(c) /\ entries[p.by] # c

\* Steps at which a context that no account has is a call's own.
Own(k) == k.pc \in {"probing", "replacing"} \/ (k.pc = "using" /\ k.what = "scratch")

\* Steps of a call that will register a context.
Bound(k) ==
  \/ k.what = "session" /\ k.at = None /\ k.pc \in ForSlot \cup {"opening", "discarding"}
  \/ k.pc = "replacing"

\* A call's context is its own: in use for it, or on its way out.
AtInv ==
  /\ \A h \in Call : LET k == call[h] IN k.at # None =>
       /\ ctx[k.at].closing \/ (ctx[k.at].inUse /\ ctx[k.at].owner = k.whose)
       /\ k.pc \in ForSlot \cup {"paging"} => ctx[k.at].closing \/ ctx[k.at].parked
       /\ k.what \in {"verify", "scratch"} => ~Registered(k.at)
       /\ Own(k) => ~ctx[k.at].closing
  /\ \A g, h \in Call : call[g].at = call[h].at /\ call[g].at # None => g = h

\* A call that will register a context finds its account without one.
RoomForNew == \A h \in Call : Bound(call[h]) => entries[call[h].whose] = None

\* What trimming has chosen is registered until it is closed.
VictimsInv ==
  \A p \in parks : \A v \in p.victims : ctx[v].closing \/ Registered(v)

\* A context with a timer, or being parked, is some account's.
Owned ==
  /\ \A c \in Ctx : ctx[c].idle \/ ctx[c].expire # Off => ctx[c].owner \in Owner
  /\ \A p \in parks : ctx[p.of].closing \/ ctx[p.of].owner \in Owner

PoolInv == /\ TypeOK /\ CallShape /\ LocksHeld /\ RegInv /\ ParksInv
           /\ AtInv /\ RoomForNew /\ VictimsInv /\ Owned

Has(s, x) == \E i \in DOMAIN s : s[i] = x

\* An idle context with a page waits for its idle timer, one that is parked for
\* its expiry timer, or for what arms it.
TimersInv ==
  \A o \in Owner : LET c == entries[o] IN c # None /\ ~ctx[c].inUse =>
    /\ ~ctx[c].parked => ctx[c].idle \/ Has(queue[o], IdleTask(c))
    /\ ctx[c].parked => \/ ctx[c].expire # Off
                        \/ Has(queue[o], ExpireTask(c))
                        \/ \E p \in parks : p.of = c /\ p.stage = "page"

\* #trimParked closes a context that it had chosen before the close it awaited,
\* and that a call works on by now.
TrimsUnderACall ==
  \E p \in parks, h \in Call :
    /\ Trimmed(p)
    /\ call[h].at \in p.victims
    /\ ~ctx[call[h].at].closing /\ ctx'[call[h].at].closing

KeptInv == \A h \in Call : call[h].at # None /\ call[h].pc \notin {"failing", "ending"} =>
             ~ctx[call[h].at].closing

WaitersInv ==
  /\ \A i \in DOMAIN waiters : call[waiters[i]].pc = "waiting"
  /\ \A i, j \in DOMAIN waiters : waiters[i] = waiters[j] => i = j

\* An open context has its slot, unless it is parked and not about to come back.
HoldsInv ==
  \A c \in Ctx : ~ctx[c].closing =>
    (ctx[c].slot <=> ~ctx[c].parked \/ \E h \in Call : call[h].at = c /\ call[h].pc = "paging")

\* A context that no account has keeps its page while its call works.
FreshInv == \A h \in Call : Own(call[h]) => ctx[call[h].at].slot /\ ~ctx[call[h].at].parked

\* Who has a slot, and who has been given one: finitely many at any time.
Held == {c \in Ctx : ctx[c].slot /\ ~ctx[c].closed}
Coming == {h \in Call : call[h].pc = "opening" \/ Resumed(h)}
Counted ==
  /\ IsFiniteSet(Held) /\ IsFiniteSet(Coming)
  /\ active = Cardinality(Held) + Cardinality(Coming)

SlotInv == KeptInv /\ WaitersInv /\ HoldsInv /\ FreshInv /\ Counted

-----------------------------------------------------------------------------
(* Tasks and chains. *)

LEMMA TaskFacts ==
  /\ \A h \in Call : CallTask(h) \in Task
  /\ \A c \in Ctx : IdleTask(c) \in Task /\ ExpireTask(c) \in Task
  /\ \A g, h \in Call : CallTask(g) = CallTask(h) => g = h
  /\ \A b, c \in Ctx : /\ IdleTask(b) = IdleTask(c) => b = c
                       /\ ExpireTask(b) = ExpireTask(c) => b = c
                       /\ IdleTask(b) # ExpireTask(c)
  /\ \A h \in Call, c \in Ctx : CallTask(h) # IdleTask(c) /\ CallTask(h) # ExpireTask(c)
<1>1. /\ \A h \in Call : CallTask(h).id = h /\ CallTask(h).kind = "call"
      /\ \A c \in Ctx : /\ IdleTask(c).id = c /\ IdleTask(c).kind = "idle"
                        /\ ExpireTask(c).id = c /\ ExpireTask(c).kind = "expire"
  BY DEF CallTask, IdleTask, ExpireTask
<1>2. /\ \A h \in Call : CallTask(h) \in Task
      /\ \A c \in Ctx : IdleTask(c) \in Task /\ ExpireTask(c) \in Task
  BY DEF Task
<1>3. /\ \A g, h \in Call : CallTask(g) = CallTask(h) => g = h
      /\ \A b, c \in Ctx : /\ IdleTask(b) = IdleTask(c) => b = c
                           /\ ExpireTask(b) = ExpireTask(c) => b = c
  BY <1>1
<1>4. /\ \A b, c \in Ctx : IdleTask(b) # ExpireTask(c)
      /\ \A h \in Call, c \in Ctx : CallTask(h) # IdleTask(c) /\ CallTask(h) # ExpireTask(c)
  BY <1>1
<1> QED
  BY <1>2, <1>3, <1>4

LEMMA ChainAppend ==
  ASSUME NEW S, NEW q \in Seq(S), NEW t \in S
  PROVE  /\ Append(q, t) \in Seq(S)
         /\ Append(q, t) # <<>>
         /\ q # <<>> => Head(Append(q, t)) = Head(q)
         /\ q = <<>> => Head(Append(q, t)) = t
         /\ Has(Append(q, t), t)
         /\ \A x : Has(q, x) => Has(Append(q, t), x)
<1>1. /\ Append(q, t) \in Seq(S) /\ Len(Append(q, t)) = Len(q) + 1
      /\ \A i \in 1 .. Len(q) : Append(q, t)[i] = q[i]
      /\ Append(q, t)[Len(q) + 1] = t
  BY AppendProperties
<1>2. Len(q) \in Nat /\ DOMAIN q = 1 .. Len(q) /\ DOMAIN Append(q, t) = 1 .. Len(q) + 1
  BY <1>1, LenProperties
<1>3. Append(q, t) # <<>> /\ Head(Append(q, t)) = Append(q, t)[1]
  BY <1>1, <1>2, EmptySeq
<1>4. q # <<>> => Len(q) # 0 /\ Head(q) = q[1]
  BY EmptySeq
<1>5. Has(Append(q, t), t) /\ \A x : Has(q, x) => Has(Append(q, t), x)
  BY <1>1, <1>2 DEF Has
<1>6. q = <<>> => Len(q) = 0
  OBVIOUS
<1>7. q # <<>> => 1 \in 1 .. Len(q)
  BY <1>2, <1>4
<1> QED
  BY <1>1, <1>3, <1>4, <1>5, <1>6, <1>7

LEMMA ChainTail ==
  ASSUME NEW S, NEW q \in Seq(S), q # <<>>
  PROVE  /\ Tail(q) \in Seq(S) /\ Head(q) \in S
         /\ \A x : Has(q, x) => x = Head(q) \/ Has(Tail(q), x)
         /\ \A x : Has(Tail(q), x) => Has(q, x)
<1>1. /\ Tail(q) \in Seq(S) /\ Head(q) \in S /\ Len(Tail(q)) = Len(q) - 1
      /\ \A i \in 1 .. Len(Tail(q)) : Tail(q)[i] = q[i + 1]
  BY HeadTailProperties
<1>2. /\ Len(q) \in Nat /\ Len(q) # 0 /\ DOMAIN q = 1 .. Len(q) /\ Head(q) = q[1]
      /\ DOMAIN Tail(q) = 1 .. Len(q) - 1
  BY <1>1, EmptySeq, LenProperties
<1>3. ASSUME NEW x, Has(q, x), x # Head(q)  PROVE Has(Tail(q), x)
  <2>1. PICK i \in 1 .. Len(q) : q[i] = x
    BY <1>2, <1>3 DEF Has
  <2>2. i - 1 \in 1 .. Len(q) - 1 /\ Tail(q)[i - 1] = x
    BY <1>1, <1>2, <1>3, <2>1
  <2> QED
    BY <1>2, <2>2 DEF Has
<1>4. ASSUME NEW x, Has(Tail(q), x)  PROVE Has(q, x)
  BY <1>1, <1>2, <1>4 DEF Has
<1> QED
  BY <1>1, <1>3, <1>4

-----------------------------------------------------------------------------
(* Types of what the building blocks leave. *)

LEMMA EntryFacts ==
  /\ Closed \in Entry
  /\ \A o \in Owner \cup {None} : Opened(o) \in Entry
  /\ \A e \in Entry : CancelTimers(e) \in Entry /\ ArmExpire(e) \in Entry
<1>1. 0 \in 0 .. TTL /\ Off \in 0 .. Off /\ \A n \in 0 .. TTL : n \in 0 .. Off
  BY PoolAssumption DEF Off
<1>2. Closed \in Entry
  BY <1>1 DEF Entry, Closed
<1>3. \A o \in Owner \cup {None} : Opened(o) \in Entry
  BY <1>2 DEF Entry, Opened
<1>4. \A e \in Entry : CancelTimers(e) \in Entry /\ ArmExpire(e) \in Entry
  BY <1>1 DEF Entry, CancelTimers, ArmExpire
<1> QED
  BY <1>2, <1>3, <1>4

LEMMA FieldFacts ==
  \A e \in Entry :
    /\ \A b \in BOOLEAN :
         /\ [e EXCEPT !.slot = b] \in Entry /\ [e EXCEPT !.parked = b] \in Entry
         /\ [e EXCEPT !.closing = b] \in Entry /\ [e EXCEPT !.idle = b] \in Entry
         /\ [e EXCEPT !.inUse = b] \in Entry /\ [e EXCEPT !.discarded = b] \in Entry
         /\ [e EXCEPT !.stale = b] \in Entry
    /\ [e EXCEPT !.left = TTL, !.stale = FALSE] \in Entry
    /\ [e EXCEPT !.expire = Off] \in Entry
<1>1. TTL \in 0 .. TTL /\ Off \in 0 .. Off
  BY PoolAssumption DEF Off
<1>2. ASSUME NEW e \in Entry, NEW b \in BOOLEAN
      PROVE  [e EXCEPT !.slot = b] \in Entry /\ [e EXCEPT !.parked = b] \in Entry
  BY DEF Entry
<1>3. ASSUME NEW e \in Entry, NEW b \in BOOLEAN
      PROVE  [e EXCEPT !.closing = b] \in Entry /\ [e EXCEPT !.idle = b] \in Entry
  BY DEF Entry
<1>4. ASSUME NEW e \in Entry, NEW b \in BOOLEAN
      PROVE  [e EXCEPT !.inUse = b] \in Entry /\ [e EXCEPT !.discarded = b] \in Entry
  BY DEF Entry
<1>7. ASSUME NEW e \in Entry, NEW b \in BOOLEAN
      PROVE  [e EXCEPT !.stale = b] \in Entry
  BY DEF Entry
<1>5. ASSUME NEW e \in Entry
      PROVE  [e EXCEPT !.left = TTL, !.stale = FALSE] \in Entry
  BY <1>1 DEF Entry
<1>6. ASSUME NEW e \in Entry
      PROVE  [e EXCEPT !.expire = Off] \in Entry
  BY <1>1 DEF Entry
<1> QED
  BY <1>2, <1>3, <1>4, <1>5, <1>6, <1>7

\* An adopted context whose slot was handed over, and one that keeps it.
Handed(o, e) == [Adopted(o, e) EXCEPT !.parked = TRUE, !.slot = FALSE]
Rested(o, e) == [Adopted(o, e) EXCEPT !.idle = TRUE]

LEMMA AdoptedFields ==
  ASSUME NEW o \in Owner, NEW e \in Entry
  PROVE  /\ LET g == Handed(o, e) IN
              /\ g \in Entry /\ g.owner = o /\ ~g.closing /\ ~g.closed /\ ~g.inUse
              /\ g.parked /\ ~g.slot /\ ~g.idle /\ g.expire = Off
         /\ LET g == Rested(o, e) IN
              /\ g \in Entry /\ g.owner = o /\ ~g.closing /\ ~g.closed /\ ~g.inUse
              /\ ~g.parked /\ g.slot = e.slot /\ g.idle /\ g.expire = Off
<1> DEFINE a == Opened(o)
           f == Adopted(o, e)
<1>1. a \in Entry
  BY EntryFacts
<1>2. a.owner = o /\ ~a.closing /\ ~a.closed /\ ~a.parked /\ ~a.idle /\ a.expire = Off
  BY DEF Opened, Closed
<1>3. TTL \in 0 .. TTL /\ e.slot \in BOOLEAN
  BY PoolAssumption DEF Entry
<1>4. f = [a EXCEPT !.slot = e.slot, !.left = TTL, !.inUse = FALSE]
  BY DEF Adopted
<1> HIDE DEF a, f
<1>5. /\ f \in Entry /\ f.owner = o /\ ~f.closing /\ ~f.closed /\ ~f.inUse /\ ~f.parked
      /\ f.slot = e.slot /\ ~f.idle /\ f.expire = Off
  BY <1>1, <1>2, <1>3, <1>4 DEF Entry
<1>6. ASSUME NEW g, g = [f EXCEPT !.parked = TRUE, !.slot = FALSE]
      PROVE  /\ g \in Entry /\ g.owner = o /\ ~g.closing /\ ~g.closed /\ ~g.inUse
             /\ g.parked /\ ~g.slot /\ ~g.idle /\ g.expire = Off
  BY <1>5, <1>6 DEF Entry
<1>7. ASSUME NEW g, g = [f EXCEPT !.idle = TRUE]
      PROVE  /\ g \in Entry /\ g.owner = o /\ ~g.closing /\ ~g.closed /\ ~g.inUse
             /\ ~g.parked /\ g.slot = e.slot /\ g.idle /\ g.expire = Off
  BY <1>5, <1>7 DEF Entry
<1> QED
  BY <1>6, <1>7 DEF f, Handed, Rested

LEMMA CtxType ==
  ASSUME TypeOK, NEW c \in Ctx, NEW e \in Entry
  PROVE  [ctx EXCEPT ![c] = e] \in [Ctx -> Entry]
BY DEF TypeOK

LEMMA WithoutFacts ==
  ASSUME NEW S, NEW line \in Seq(S), NEW h, NEW i \in DOMAIN line, line[i] = h
  PROVE  Without(line, h) \in Seq(S)
<1> DEFINE at == CHOOSE j \in DOMAIN line : line[j] = h
<1>1. at \in DOMAIN line /\ line[at] = h
  OBVIOUS
<1>2. Len(line) \in Nat /\ DOMAIN line = 1 .. Len(line) /\ \A j \in 1 .. Len(line) : line[j] \in S
  BY LenProperties, ElementOfSeq
<1>3. \A j \in 1 .. Len(line) - 1 :
         (IF j < at THEN line[j] ELSE line[j + 1]) \in S
  BY <1>2
<1>4. Len(line) - 1 \in Nat
  BY <1>2
<1>5. Without(line, h) \in [1 .. Len(line) - 1 -> S]
  BY <1>3 DEF Without
<1> QED
  BY <1>4, <1>5, SeqDef

LEMMA NoCallType == NoCall \in CallState
BY DEF NoCall, CallState, Steps

LEMMA ReleaseType ==
  ASSUME TypeOK, ReleaseSlot
  PROVE  active' \in 0 .. MaxContexts /\ waiters' \in Seq(Call)
<1>1. CASE waiters = <<>>
  BY <1>1, PoolAssumption DEF TypeOK, ReleaseSlot
<1>2. CASE waiters # <<>>
  <2>1. waiters \in Seq(Call) /\ active' = active /\ waiters' = Tail(waiters)
    BY <1>2 DEF TypeOK, ReleaseSlot
  <2>2. Tail(waiters) \in Seq(Call)
    BY <1>2, <2>1, ChainTail
  <2> QED
    BY <2>1, <2>2 DEF TypeOK
<1> QED
  BY <1>1, <1>2

LEMMA EndsType ==
  ASSUME TypeOK, NEW h \in Call, HasLock(h), Ends(h)
  PROVE  call' \in [Call -> CallState] /\ queue' \in [Owner -> Seq(Task)]
<1>1. call' \in [Call -> CallState]
  BY NoCallType DEF TypeOK, Ends
<1>2. CASE call[h].whose = None
  BY <1>1, <1>2 DEF TypeOK, Ends
<1>3. CASE call[h].whose # None
  <2>1. call[h].whose \in Owner
    BY <1>3 DEF TypeOK, CallState
  <2>2. Tail(queue[call[h].whose]) \in Seq(Task)
    BY <1>3, <2>1, ChainTail DEF HasLock, TypeOK
  <2> QED
    BY <1>1, <1>3, <2>2 DEF TypeOK, Ends
<1> QED
  BY <1>2, <1>3

LEMMA DiscardType ==
  ASSUME TypeOK, NEW c \in Ctx, NEW e \in Entry, Discard(c, e)
  PROVE  ctx' \in [Ctx -> Entry] /\ entries' \in [Owner -> Ctx \cup {None}]
<1>1. [CancelTimers(e) EXCEPT !.closing = TRUE, !.discarded = TRUE] \in Entry
  BY EntryFacts DEF Entry
<1> QED
  BY <1>1 DEF TypeOK, Discard

LEMMA ParkType ==
  ASSUME TypeOK, NEW c \in Ctx, NEW e \in Entry, NEW by \in Call \cup Owner \cup {None},
         Park(c, e, by)
  PROVE  /\ ctx' \in [Ctx -> Entry] /\ entries' \in [Owner -> Ctx \cup {None}]
         /\ active' \in 0 .. MaxContexts /\ waiters' \in Seq(Call)
         /\ parks' \subseteq ParkRun
<1>1. /\ [of |-> c, by |-> by, stage |-> "page", wait |-> None, victims |-> {}] \in ParkRun
      /\ [of |-> c, by |-> by, stage |-> "trim", wait |-> c, victims |-> {}] \in ParkRun
  BY DEF ParkRun
<1>2. CASE Live(e)
  <2>1. [CancelTimers(e) EXCEPT !.parked = TRUE, !.slot = FALSE] \in Entry
    BY EntryFacts DEF Entry
  <2> QED
    BY <1>1, <1>2, <2>1, ReleaseType DEF TypeOK, Park
<1>3. CASE ~Live(e)
  BY <1>1, <1>3, DiscardType DEF TypeOK, Park, slotVars
<1> QED
  BY <1>2, <1>3

LEMMA AfterUseType ==
  ASSUME TypeOK, NEW h \in Call, HasLock(h), call[h].at \in Ctx, NEW e \in Entry, AfterUse(h, e)
  PROVE  /\ ctx' \in [Ctx -> Entry] /\ entries' \in [Owner -> Ctx \cup {None}]
         /\ active' \in 0 .. MaxContexts /\ waiters' \in Seq(Call)
         /\ parks' \subseteq ParkRun
         /\ call' \in [Call -> CallState] /\ queue' \in [Owner -> Seq(Task)]
<1> DEFINE c == call[h].at
           f == [e EXCEPT !.inUse = FALSE]
<1>1. f \in Entry /\ ArmExpire(f) \in Entry /\ [f EXCEPT !.idle = TRUE] \in Entry
  BY ZenonT(30), EntryFacts DEF Entry
<1>2. call' \in [Call -> CallState] /\ queue' \in [Owner -> Seq(Task)]
  BY EndsType DEF AfterUse
<1>3. \/ ctx' \in [Ctx -> Entry] /\ UNCHANGED <<entries, slotVars, parks>>
      \/ Discard(c, f) /\ UNCHANGED <<slotVars, parks>>
      \/ Park(c, f, None)
  BY <1>1 DEF AfterUse, TypeOK
<1> QED
  BY <1>1, <1>2, <1>3, DiscardType, ParkType DEF TypeOK, slotVars

LEMMA GotoType ==
  ASSUME TypeOK, NEW h \in Call, NEW step \in Steps, Goto(h, step)
  PROVE  call' \in [Call -> CallState]
BY ZenonT(30) DEF TypeOK, Goto, CallState

LEMMA TrimType ==
  ASSUME TypeOK, ParksInv, NEW p \in parks, NEW entry \in [Ctx -> Entry],
         NEW V \in SUBSET Ctx, TrimNext(p, entry, V)
  PROVE  /\ ctx' \in [Ctx -> Entry] /\ entries' \in [Owner -> Ctx \cup {None}]
         /\ parks' \subseteq ParkRun
         /\ call' \in [Call -> CallState] /\ queue' \in [Owner -> Seq(Task)]
<1>1. p \in ParkRun
  BY DEF TypeOK
<1>2. CASE \A v \in V : entry[v].closing
  <2>1. ParkReturns(p) /\ parks' = parks \ {p} /\ ctx' = entry /\ UNCHANGED entries
    BY <1>2 DEF TrimNext
  <2>2. call' \in [Call -> CallState]
    <3>1. CASE p.by \in Call
      <4>1. Goto(p.by, "acquiring") /\ "acquiring" \in Steps
        BY <2>1, <3>1 DEF ParkReturns, Goto, Steps
      <4> QED
        BY <3>1, <4>1, GotoType
    <3>2. CASE p.by \notin Call
      BY <2>1, <3>2 DEF ParkReturns, TypeOK
    <3> QED
      BY <3>1, <3>2
  <2>3. CASE p.by \in Owner
    <3>1. Tail(queue[p.by]) \in Seq(Task)
      BY <2>3, ChainTail DEF ParksInv, TypeOK
    <3> QED
      BY <2>1, <2>2, <2>3, <3>1 DEF ParkReturns, TypeOK
  <2>4. CASE p.by \notin Owner
    BY <2>1, <2>2, <2>4 DEF ParkReturns, TypeOK
  <2> QED
    BY <2>3, <2>4
<1>3. CASE ~ \A v \in V : entry[v].closing
  <2>1. PICK v \in {x \in V : ~entry[x].closing} :
         /\ parks' = (parks \ {p}) \cup
              {[p EXCEPT !.stage = "trim", !.wait = v, !.victims = V \ {v}]}
         /\ ctx' = [entry EXCEPT ![v] = [CancelTimers(entry[v]) EXCEPT !.closing = TRUE, !.discarded = TRUE]]
         /\ entries' = [o \in Owner |-> IF entries[o] = v THEN None ELSE entries[o]]
         /\ UNCHANGED <<call, queue>>
    BY <1>3 DEF TrimNext
  <2>2. [p EXCEPT !.stage = "trim", !.wait = v, !.victims = V \ {v}] \in ParkRun
    BY <1>1 DEF ParkRun
  <2>3. [CancelTimers(entry[v]) EXCEPT !.closing = TRUE, !.discarded = TRUE] \in Entry
    <3>1. CancelTimers(entry[v]) \in Entry
      BY EntryFacts
    <3> QED
      BY <3>1 DEF Entry
  <2> QED
    BY <2>1, <2>2, <2>3 DEF TypeOK
<1> QED
  BY <1>2, <1>3

LEMMA AwaitType ==
  ASSUME TypeOK, NEW h \in Call, NEW c \in Ctx \cup {None}, NEW step \in Steps, Await(h, c, step)
  PROVE  call' \in [Call -> CallState]
<1>1. [call[h] EXCEPT !.pc = step, !.waitFor = c] \in CallState
  BY DEF TypeOK, CallState
<1>2. call' = [call EXCEPT ![h] = [call[h] EXCEPT !.pc = step, !.waitFor = c]]
  BY DEF Await
<1> QED
  BY <1>1, <1>2 DEF TypeOK

LEMMA SurplusType ==
  ASSUME NEW entry \in [Ctx -> Entry], NEW V \in Surplus(entry)
  PROVE  V \in SUBSET Ctx
BY DEF Surplus

\* What a call or a timer does, whatever else may run before it.
CallStep(h) ==
  \/ EnterExisting(h) \/ EnterDead(h) \/ EnterNew(h) \/ EnterNothing(h) \/ Forget(h)
  \/ TakeSlot(h) \/ Wait(h) \/ Resume(h) \/ Awaited(h) \/ QueueTimeout(h)
  \/ OpenFails(h) \/ Unpark(h) \/ UnparkFails(h) \/ SessionAlive(h) \/ SessionOver(h)
  \/ CheckFails(h) \/ Login(h) \/ LoginFails(h) \/ Used(h) \/ CloseContext(h)
  \/ Proven(h) \/ Adopt(h)
  \/ \E c \in Ctx : MakeRoom(h, c) \/ Open(h, c)
  \/ \E k \in KindsUsed, o \in Owner \cup {None} : Arrive(h, k, o)

PoolStep ==
  \/ \E o \in Owner, c \in Ctx : IdleRuns(o, c) \/ ExpireRuns(o, c)
  \/ \E c \in Ctx : ContextClosed(c) \/ IdleFires(c) \/ ExpireFires(c)
  \/ \E p \in parks : PageClosed(p) \/ Trimmed(p)
  \/ BrowserGone \/ Tick

LEMMA NextSteps == Next => (\E h \in Call : CallStep(h)) \/ PoolStep
<1>1. \A h \in Call : CallContinues(h) => CallStep(h)
  BY DEF CallContinues, CallStep
<1>2. \A h \in Call : CallEvent(h) => CallStep(h)
  BY DEF CallEvent, CallStep
<1>3. \A o \in Owner : TimerContinues(o) => PoolStep
  BY DEF TimerContinues, PoolStep
<1>4. ParkContinues => PoolStep
  BY DEF ParkContinues, PoolStep
<1>5. CloseEvent => PoolStep
  BY DEF CloseEvent, PoolStep
<1>6. Free => (\E h \in Call : CallStep(h)) \/ PoolStep
  BY DEF Free, CallStep, PoolStep
<1> QED
  BY <1>1, <1>2, <1>3, <1>4, <1>5, <1>6 DEF Next

BoundsOK == callsLeft \in 0 .. MaxCalls /\ faultsLeft \in 0 .. MaxFaults

LEMMA BoundsKept ==
  ASSUME BoundsOK, Next
  PROVE  BoundsOK'
<1>1. Fault \/ NoFault => BoundsOK'
  BY PoolAssumption DEF BoundsOK, Fault, NoFault, boundVars
<1>2. ASSUME NEW h \in Call, CallContinues(h)  PROVE Fault \/ NoFault
  BY <1>2 DEF CallContinues, EnterDead
<1>3. ASSUME NEW h \in Call, CallEvent(h)  PROVE Fault \/ NoFault
  BY <1>3 DEF CallEvent, OpenFails, UnparkFails, SessionOver, CheckFails, LoginFails, Used, Broken
<1>4. ASSUME NEW h \in Call, NEW k, NEW o, Arrive(h, k, o)  PROVE BoundsOK'
  BY <1>4, PoolAssumption DEF Arrive, BoundsOK
<1>5. Free => BoundsOK'
  BY <1>1, <1>4 DEF Free, BrowserGone
<1> QED
  BY <1>1, <1>2, <1>3, <1>5 DEF Next, TimerContinues, ParkContinues, CloseEvent

\* TypeOK without the bounds.
StateOK ==
  /\ entries \in [Owner -> Ctx \cup {None}]
  /\ ctx \in [Ctx -> Entry]
  /\ active \in 0 .. MaxContexts
  /\ waiters \in Seq(Call)
  /\ queue \in [Owner -> Seq(Task)]
  /\ parks \subseteq ParkRun
  /\ call \in [Call -> CallState]

LEMMA CallStepType ==
  ASSUME TypeOK, CallShape, LocksHeld, NEW h \in Call, CallStep(h)
  PROVE  StateOK'
<1> DEFINE k == call[h]
<1>0. /\ ShapeOf(k) /\ k.whose \in Owner \cup {None} /\ k.at \in Ctx \cup {None}
      /\ (k.pc \notin {"none", "locking"} => HasLock(h))
  BY DEF CallShape, LocksHeld, TypeOK, CallState
<1>a. \A c \in Ctx : ctx[c] \in Entry
  BY DEF TypeOK
<1>b. \A k1 : Entering(h, k1) => k.whose \in Owner /\ entries[k.whose] \in Ctx \cup {None}
  BY <1>0 DEF Entering, ShapeOf, TypeOK
<1>1. CASE EnterExisting(h)
  <2>1. entries[k.whose] \in Ctx /\ ctx[entries[k.whose]] \in Entry
    BY <1>1, <1>b, <1>a DEF EnterExisting
  <2>2. [CancelTimers(ctx[entries[k.whose]]) EXCEPT !.inUse = TRUE] \in Entry
    <3>1. CancelTimers(ctx[entries[k.whose]]) \in Entry
      BY <2>1, EntryFacts
    <3> QED
      BY <3>1 DEF Entry
  <2>3. ctx' \in [Ctx -> Entry]
    BY <1>1, <2>1, <2>2 DEF EnterExisting, TypeOK
  <2>4. call' \in [Call -> CallState]
    <3>1. "acquiring" \in Steps /\ "checking" \in Steps /\ k \in CallState
      BY DEF Steps, TypeOK
    <3>2. [k EXCEPT !.at = entries[k.whose],
                    !.pc = IF ctx[entries[k.whose]].parked THEN "acquiring" ELSE "checking"] \in CallState
      BY <2>1, <3>1 DEF CallState
    <3>3. call' = [call EXCEPT ![h] = [k EXCEPT !.at = entries[k.whose],
                    !.pc = IF ctx[entries[k.whose]].parked THEN "acquiring" ELSE "checking"]]
      BY <1>1 DEF EnterExisting
    <3> QED
      BY <3>2, <3>3 DEF TypeOK
  <2> QED
    BY <1>1, <2>3, <2>4 DEF EnterExisting, TypeOK, StateOK, slotVars
<1>2. CASE EnterDead(h) \/ Forget(h)
  <2>1. entries[k.whose] \in Ctx /\ ctx[entries[k.whose]] \in Entry
    BY <1>2, <1>b, <1>a DEF EnterDead, Forget
  <2>2. ctx' \in [Ctx -> Entry] /\ entries' \in [Owner -> Ctx \cup {None}]
    BY <1>2, <2>1, DiscardType DEF EnterDead, Forget
  <2>3. call' \in [Call -> CallState]
    BY <1>2, <2>1, AwaitType DEF EnterDead, Forget, Steps
  <2> QED
    BY <1>2, <2>2, <2>3 DEF EnterDead, Forget, TypeOK, StateOK, slotVars
<1>3. CASE EnterNew(h) \/ SessionAlive(h) \/ SessionOver(h)
  <2>1. call' \in [Call -> CallState]
    BY <1>3, GotoType DEF EnterNew, SessionAlive, SessionOver, Steps
  <2> QED
    BY <1>3, <2>1 DEF EnterNew, SessionAlive, SessionOver, TypeOK, StateOK, slotVars
<1>4. CASE EnterNothing(h)
  <2>1. call' \in [Call -> CallState] /\ queue' \in [Owner -> Seq(Task)]
    BY <1>4, EndsType DEF EnterNothing, Entering
  <2> QED
    BY <1>4, <2>1 DEF EnterNothing, TypeOK, StateOK, slotVars
<1>5. CASE TakeSlot(h) \/ Resume(h)
  <2>1. call' \in [Call -> CallState]
    BY <1>5, GotoType DEF TakeSlot, Resume, Steps
  <2>2. ctx' \in [Ctx -> Entry]
    <3>1. CASE k.at = None
      BY <1>5, <3>1 DEF TakeSlot, Resume, TypeOK
    <3>2. CASE k.at # None
      <4>1. k.at \in Ctx /\ [ctx[k.at] EXCEPT !.slot = TRUE] \in Entry
        BY <1>0, <1>a, <3>2, FieldFacts
      <4>2. ctx' = [ctx EXCEPT ![k.at] = [ctx[k.at] EXCEPT !.slot = TRUE]]
        BY <1>5, <3>2 DEF TakeSlot, Resume
      <4> QED
        BY <4>1, <4>2, CtxType
    <3> QED
      BY <3>1, <3>2
  <2>3. active' \in 0 .. MaxContexts
    BY <1>5, PoolAssumption DEF TakeSlot, Resume, TypeOK, slotVars
  <2> QED
    BY <1>5, <2>1, <2>2, <2>3 DEF TakeSlot, Resume, TypeOK, StateOK, slotVars
<1>6. CASE Wait(h)
  <2>1. call' \in [Call -> CallState]
    BY <1>6, GotoType DEF Wait, Steps
  <2>2. waiters' \in Seq(Call)
    BY <1>6, ChainAppend DEF Wait, TypeOK
  <2> QED
    BY <1>6, <2>1, <2>2 DEF Wait, TypeOK, StateOK
<1>7. CASE Awaited(h)
  <2>1. CASE k.pc = "discarding"
    <3>1. call' \in [Call -> CallState]
      BY <1>7, <2>1, AwaitType DEF Awaited, Steps
    <3> QED
      BY <1>7, <2>1, <3>1 DEF Awaited, TypeOK, StateOK, slotVars
  <2>2. CASE k.pc = "failing"
    <3>1. k.at \in Ctx /\ HasLock(h) /\ AfterUse(h, ctx[k.at])
      BY <1>0, <1>7, <2>2 DEF Awaited, ShapeOf, Working
    <3> QED
      BY <1>a, <3>1, AfterUseType DEF StateOK
  <2>3. CASE k.pc = "ending"
    <3>1. call' \in [Call -> CallState] /\ queue' \in [Owner -> Seq(Task)]
      BY <1>0, <1>7, <2>3, EndsType DEF Awaited
    <3> QED
      BY <1>7, <2>3, <3>1 DEF Awaited, TypeOK, StateOK, slotVars
  <2> QED
    BY <1>7, <2>1, <2>2, <2>3 DEF Awaited
<1>8. CASE QueueTimeout(h)
  <2>1. call' \in [Call -> CallState] /\ queue' \in [Owner -> Seq(Task)]
    BY <1>0, <1>8, EndsType DEF QueueTimeout
  <2>2. waiters' \in Seq(Call)
    <3>1. /\ waiters \in Seq(Call) /\ waiters' = Without(waiters, h)
          /\ \E i \in DOMAIN waiters : waiters[i] = h
      BY <1>8 DEF QueueTimeout, TypeOK, Queued
    <3> QED
      BY <3>1, WithoutFacts
  <2>3. ctx' \in [Ctx -> Entry] /\ entries' \in [Owner -> Ctx \cup {None}]
    <3>1. CASE k.at = None
      BY <1>8, <3>1 DEF QueueTimeout, TypeOK
    <3>2. CASE k.at # None
      <4> DEFINE f == [ctx[k.at] EXCEPT !.inUse = FALSE]
      <4>1. k.at \in Ctx /\ f \in Entry /\ ArmExpire(f) \in Entry
        BY <1>0, <1>a, <3>2, FieldFacts, EntryFacts
      <4>2. \/ Discard(k.at, f)
            \/ ctx' = [ctx EXCEPT ![k.at] = ArmExpire(f)] /\ UNCHANGED entries
        BY <1>8, <3>2 DEF QueueTimeout
      <4> QED
        BY <4>1, <4>2, DiscardType, CtxType DEF TypeOK
    <3> QED
      BY <3>1, <3>2
  <2> QED
    BY <1>8, <2>1, <2>2, <2>3 DEF QueueTimeout, TypeOK, StateOK
<1>9. CASE OpenFails(h)
  <2>1. call' \in [Call -> CallState] /\ queue' \in [Owner -> Seq(Task)]
    BY <1>0, <1>9, EndsType DEF OpenFails
  <2>2. active' \in 0 .. MaxContexts /\ waiters' \in Seq(Call)
    BY <1>9, ReleaseType DEF OpenFails
  <2> QED
    BY <1>9, <2>1, <2>2 DEF OpenFails, TypeOK, StateOK
<1>10. CASE Unpark(h) \/ Login(h)
  <2>1. call' \in [Call -> CallState]
    BY <1>10, GotoType DEF Unpark, Login, Steps
  <2>2. ctx' \in [Ctx -> Entry]
    <3>1. /\ k.at \in Ctx /\ [ctx[k.at] EXCEPT !.parked = FALSE] \in Entry
          /\ [ctx[k.at] EXCEPT !.left = TTL, !.stale = FALSE] \in Entry
      BY <1>0, <1>10, <1>a, FieldFacts DEF Unpark, Login, ShapeOf, Working
    <3>2. \/ ctx' = [ctx EXCEPT ![k.at] = [ctx[k.at] EXCEPT !.parked = FALSE]]
          \/ ctx' = [ctx EXCEPT ![k.at] = [ctx[k.at] EXCEPT !.left = TTL, !.stale = FALSE]]
      <4>1. CASE Unpark(h)
        BY <4>1 DEF Unpark
      <4>2. CASE Login(h)
        BY <4>2, <3>1 DEF Login, TypeOK
      <4> QED
        BY <1>10, <4>1, <4>2
    <3> QED
      BY <3>1, <3>2, CtxType
  <2> QED
    BY <1>10, <2>1, <2>2 DEF Unpark, Login, TypeOK, StateOK, slotVars
<1>11. CASE UnparkFails(h) \/ CheckFails(h) \/ Used(h)
  <2>1. k.at \in Ctx /\ HasLock(h)
    BY <1>0, <1>11 DEF UnparkFails, CheckFails, Used, ShapeOf, Working
  <2>2. \E e \in Entry : AfterUse(h, e)
    <3>1. /\ ctx[k.at] \in Entry
          /\ [ctx[k.at] EXCEPT !.discarded = TRUE] \in Entry
          /\ [ctx[k.at] EXCEPT !.stale = TRUE] \in Entry
      BY <2>1, <1>a, FieldFacts
    <3> QED
      BY <1>11, <3>1 DEF UnparkFails, CheckFails, Used
  <2> QED
    BY <2>1, <2>2, AfterUseType DEF StateOK
<1>12. CASE LoginFails(h)
  <2>1. k.at \in Ctx /\ ctx[k.at] \in Entry
    BY <1>0, <1>12, <1>a DEF LoginFails, ShapeOf, Working
  <2>2. ctx' \in [Ctx -> Entry] /\ entries' \in [Owner -> Ctx \cup {None}]
    BY <1>12, <2>1, DiscardType DEF LoginFails
  <2>3. call' \in [Call -> CallState]
    BY <1>12, <2>1, AwaitType DEF LoginFails, Steps
  <2> QED
    BY <1>12, <2>2, <2>3 DEF LoginFails, TypeOK, StateOK, slotVars
<1>13. CASE CloseContext(h)
  <2>1. k.at \in Ctx
    BY <1>0, <1>13 DEF CloseContext, ShapeOf, Working
  <2>2. call' \in [Call -> CallState]
    BY <1>13, <2>1, AwaitType DEF CloseContext, Steps
  <2>3. ctx' \in [Ctx -> Entry]
    <3>1. [ctx[k.at] EXCEPT !.closing = TRUE] \in Entry
      BY <1>a, <2>1, FieldFacts
    <3>2. ctx' = [ctx EXCEPT ![k.at] = [ctx[k.at] EXCEPT !.closing = TRUE]]
      BY <1>13 DEF CloseContext
    <3> QED
      BY <2>1, <3>1, <3>2, CtxType
  <2> QED
    BY <1>13, <2>2, <2>3 DEF CloseContext, TypeOK, StateOK, slotVars
<1>14. CASE Proven(h)
  <2>1. k.whose \in Owner
    BY <1>0, <1>14 DEF Proven, ShapeOf
  <2>2. entries[k.whose] \in Ctx /\ ctx[entries[k.whose]] \in Entry
    BY <1>14, <2>1, <1>a DEF Proven, TypeOK
  <2>3. ctx' \in [Ctx -> Entry] /\ entries' \in [Owner -> Ctx \cup {None}]
    BY <1>14, <2>2, DiscardType DEF Proven
  <2>4. call' \in [Call -> CallState]
    BY <1>14, <2>2, AwaitType DEF Proven, Steps
  <2> QED
    BY <1>14, <2>3, <2>4 DEF Proven, TypeOK, StateOK, slotVars
<1>15. CASE Adopt(h)
  <2>1. k.at \in Ctx /\ HasLock(h) /\ Ends(h)
    BY <1>0, <1>15 DEF Adopt, ShapeOf, Working
  <2>2. call' \in [Call -> CallState] /\ queue' \in [Owner -> Seq(Task)]
    BY <2>1, EndsType
  <2>3. entries' \in [Owner -> Ctx \cup {None}]
    BY <1>15, <2>1 DEF Adopt, TypeOK
  <2>4. Handed(k.whose, ctx[k.at]) \in Entry /\ Rested(k.whose, ctx[k.at]) \in Entry
    <3>1. ctx[k.at] \in Entry /\ k.whose \in Owner
      BY <1>0, <1>15, <1>a, <2>1 DEF Adopt, ShapeOf
    <3> QED
      BY <3>1, AdoptedFields
  <2>5. ctx' \in [Ctx -> Entry]
    BY <1>15, <2>4 DEF Adopt, TypeOK, Handed, Rested
  <2>6. active' \in 0 .. MaxContexts /\ waiters' \in Seq(Call)
    BY <1>15, ReleaseType DEF Adopt, TypeOK, slotVars
  <2>7. parks' \subseteq ParkRun
    <3>1. [of |-> k.at, by |-> None, stage |-> "page", wait |-> None, victims |-> {}] \in ParkRun
      BY <2>1 DEF ParkRun
    <3> QED
      BY <1>15, <3>1 DEF Adopt, TypeOK
  <2> QED
    BY <2>2, <2>3, <2>5, <2>6, <2>7 DEF StateOK
<1>16. ASSUME NEW c \in Ctx, MakeRoom(h, c)  PROVE StateOK'
  <2>1. Park(c, ctx[c], h) /\ Goto(h, "making room") /\ "making room" \in Steps
    BY <1>16 DEF MakeRoom, Steps
  <2>2. call' \in [Call -> CallState]
    BY <2>1, GotoType
  <2> QED
    BY <1>16, <2>1, <2>2, <1>a, ParkType DEF MakeRoom, TypeOK, StateOK
<1>17. ASSUME NEW c \in Ctx, Open(h, c)  PROVE StateOK'
  <2>1. Opened(k.whose) \in Entry
    BY <1>0, EntryFacts
  <2>2. ctx' \in [Ctx -> Entry] /\ entries' \in [Owner -> Ctx \cup {None}]
    BY <1>17, <2>1 DEF Open, TypeOK
  <2>3. call' \in [Call -> CallState]
    <3> DEFINE next == CASE k.what = "session" -> "checking"
                         [] k.what = "verify" -> "probing"
                         [] OTHER -> "using"
    <3>1. next \in Steps /\ k \in CallState
      BY DEF Steps, TypeOK
    <3>2. [k EXCEPT !.at = c, !.pc = next] \in CallState
      BY <3>1 DEF CallState
    <3>3. call' = [call EXCEPT ![h] = [k EXCEPT !.at = c, !.pc = next]]
      BY <1>17 DEF Open
    <3> QED
      BY <3>2, <3>3 DEF TypeOK
  <2> QED
    BY <1>17, <2>2, <2>3 DEF Open, TypeOK, StateOK, slotVars
<1>18. ASSUME NEW kind \in KindsUsed, NEW o \in Owner \cup {None}, Arrive(h, kind, o)
       PROVE StateOK'
  <2>1. call' \in [Call -> CallState]
    <3>1. [NoCall EXCEPT !.pc = IF o = None THEN "acquiring" ELSE "locking",
                         !.what = kind, !.whose = o] \in CallState
      BY NoCallType, PoolAssumption DEF CallState, Steps
    <3> QED
      BY <1>18, <3>1 DEF Arrive, TypeOK
  <2>2. queue' \in [Owner -> Seq(Task)]
    <3>1. CASE o = None
      BY <1>18, <3>1 DEF Arrive, TypeOK
    <3>2. CASE o # None
      <4>1. Append(queue[o], CallTask(h)) \in Seq(Task)
        BY <3>2, TaskFacts, ChainAppend DEF TypeOK
      <4> QED
        BY <1>18, <3>2, <4>1 DEF Arrive, TypeOK
    <3> QED
      BY <3>1, <3>2
  <2> QED
    BY <1>18, <2>1, <2>2 DEF Arrive, TypeOK, StateOK, slotVars
<1> QED
  BY <1>1, <1>2, <1>3, <1>4, <1>5, <1>6, <1>7, <1>8, <1>9, <1>10, <1>11, <1>12, <1>13,
     <1>14, <1>15, <1>16, <1>17, <1>18 DEF CallStep

LEMMA ClosedType ==
  \A e \in Entry : [CancelTimers(e) EXCEPT !.closing = TRUE, !.discarded = TRUE] \in Entry
<1>1. \A e \in Entry : CancelTimers(e) \in Entry
  BY EntryFacts
<1> QED
  BY <1>1 DEF Entry

LEMMA QueueType ==
  ASSUME TypeOK, NEW o \in Owner, NEW t \in Task
  PROVE  /\ queue[o] # <<>> => [queue EXCEPT ![o] = Tail(queue[o])] \in [Owner -> Seq(Task)]
         /\ [queue EXCEPT ![o] = Append(queue[o], t)] \in [Owner -> Seq(Task)]
<1>1. queue[o] \in Seq(Task)
  BY DEF TypeOK
<1>2. Append(queue[o], t) \in Seq(Task) /\ (queue[o] # <<>> => Tail(queue[o]) \in Seq(Task))
  BY <1>1, ChainAppend, ChainTail
<1> QED
  BY <1>2 DEF TypeOK

LEMMA PoolStepType ==
  ASSUME TypeOK, ParksInv, Owned, PoolStep
  PROVE  StateOK'
<1>a. \A c \in Ctx : ctx[c] \in Entry
  BY DEF TypeOK
<1>1. ASSUME NEW o \in Owner, NEW c \in Ctx, IdleRuns(o, c)  PROVE StateOK'
  <2>1. CASE entries[o] = c /\ ~ctx[c].inUse /\ ~ctx[c].parked /\ ~ctx[c].closing
    <3>1. Park(c, ctx[c], o) /\ UNCHANGED <<queue, call>>
      BY <1>1, <2>1 DEF IdleRuns
    <3> QED
      BY <1>a, <3>1, ParkType DEF TypeOK, StateOK
  <2>2. CASE ~(entries[o] = c /\ ~ctx[c].inUse /\ ~ctx[c].parked /\ ~ctx[c].closing)
    <3>1. /\ queue' = [queue EXCEPT ![o] = Tail(queue[o])] /\ queue[o] # <<>>
          /\ UNCHANGED <<entries, ctx, slotVars, parks, call>>
      BY <1>1, <2>2 DEF IdleRuns, TimerTurn
    <3>2. queue' \in [Owner -> Seq(Task)]
      BY <3>1, QueueType, TaskFacts
    <3> QED
      BY <3>1, <3>2 DEF TypeOK, StateOK, slotVars
  <2> QED
    BY <2>1, <2>2
<1>2. ASSUME NEW o \in Owner, NEW c \in Ctx, ExpireRuns(o, c)  PROVE StateOK'
  <2>1. CASE entries[o] = c /\ ~ctx[c].inUse /\ ~ctx[c].closing
    <3>1. /\ Discard(c, ctx[c]) /\ UNCHANGED <<queue, call, slotVars>>
          /\ parks' = parks \cup {[of |-> c, by |-> o, stage |-> "trim", wait |-> c, victims |-> {}]}
      BY <1>2, <2>1 DEF ExpireRuns
    <3>2. [of |-> c, by |-> o, stage |-> "trim", wait |-> c, victims |-> {}] \in ParkRun
      BY DEF ParkRun
    <3> QED
      BY <1>a, <3>1, <3>2, DiscardType DEF TypeOK, StateOK, slotVars
  <2>2. CASE ~(entries[o] = c /\ ~ctx[c].inUse /\ ~ctx[c].closing)
    <3>1. /\ queue' = [queue EXCEPT ![o] = Tail(queue[o])] /\ queue[o] # <<>>
          /\ UNCHANGED <<entries, ctx, slotVars, parks, call>>
      BY <1>2, <2>2 DEF ExpireRuns, TimerTurn
    <3>2. queue' \in [Owner -> Seq(Task)]
      BY <3>1, QueueType, TaskFacts
    <3> QED
      BY <3>1, <3>2 DEF TypeOK, StateOK, slotVars
  <2> QED
    BY <2>1, <2>2
<1>3. ASSUME NEW c \in Ctx, ContextClosed(c)  PROVE StateOK'
  <2>1. ctx' \in [Ctx -> Entry]
    BY <1>3, EntryFacts, CtxType DEF ContextClosed
  <2>2. active' \in 0 .. MaxContexts /\ waiters' \in Seq(Call)
    BY <1>3, ReleaseType DEF ContextClosed, TypeOK, slotVars
  <2> QED
    BY <1>3, <2>1, <2>2 DEF ContextClosed, TypeOK, StateOK
<1>4. ASSUME NEW c \in Ctx, IdleFires(c) \/ ExpireFires(c)  PROVE StateOK'
  <2>1. [ctx[c] EXCEPT !.idle = FALSE] \in Entry /\ [ctx[c] EXCEPT !.expire = Off] \in Entry
    BY <1>a, FieldFacts
  <2>2. ctx' \in [Ctx -> Entry]
    <3>1. \/ ctx' = [ctx EXCEPT ![c] = [ctx[c] EXCEPT !.idle = FALSE]]
          \/ ctx' = [ctx EXCEPT ![c] = [ctx[c] EXCEPT !.expire = Off]]
      BY <1>4 DEF IdleFires, ExpireFires
    <3> QED
      BY <2>1, <3>1, CtxType
  <2>3. ctx[c].owner \in Owner
    <3>1. 0 # Off
      BY PoolAssumption DEF Off
    <3> QED
      BY <1>4, <3>1 DEF Owned, IdleFires, ExpireFires
  <2>4. queue' \in [Owner -> Seq(Task)]
    <3>1. \E t \in Task : queue' = [queue EXCEPT ![ctx[c].owner] = Append(queue[ctx[c].owner], t)]
      BY <1>4, TaskFacts DEF IdleFires, ExpireFires
    <3> QED
      BY <2>3, <3>1, QueueType
  <2> QED
    BY <1>4, <2>2, <2>4 DEF IdleFires, ExpireFires, TypeOK, StateOK, slotVars
<1>5. ASSUME NEW p \in parks, PageClosed(p)  PROVE StateOK'
  <2> DEFINE entry == IF ctx[p.of].closing THEN ctx ELSE [ctx EXCEPT ![p.of] = ArmExpire(ctx[p.of])]
  <2>1. entry \in [Ctx -> Entry]
    <3>1. p.of \in Ctx
      BY DEF TypeOK, ParkRun
    <3> QED
      BY <1>a, <3>1, EntryFacts, CtxType DEF TypeOK
  <2>2. PICK V \in Surplus(entry) : TrimNext(p, entry, V)
    BY <1>5 DEF PageClosed
  <2>3. V \in SUBSET Ctx
    BY <2>1, SurplusType
  <2> HIDE DEF entry
  <2>4. /\ ctx' \in [Ctx -> Entry] /\ entries' \in [Owner -> Ctx \cup {None}]
        /\ parks' \subseteq ParkRun
        /\ call' \in [Call -> CallState] /\ queue' \in [Owner -> Seq(Task)]
    BY <2>1, <2>2, <2>3, TrimType
  <2> QED
    BY <1>5, <2>4 DEF PageClosed, TypeOK, StateOK, slotVars
<1>6. ASSUME NEW p \in parks, Trimmed(p)  PROVE StateOK'
  <2>1. TrimNext(p, ctx, p.victims) /\ p.victims \in SUBSET Ctx /\ ctx \in [Ctx -> Entry]
    BY <1>6 DEF Trimmed, TypeOK, ParkRun
  <2>2. /\ ctx' \in [Ctx -> Entry] /\ entries' \in [Owner -> Ctx \cup {None}]
        /\ parks' \subseteq ParkRun
        /\ call' \in [Call -> CallState] /\ queue' \in [Owner -> Seq(Task)]
    BY <2>1, TrimType
  <2> QED
    BY <1>6, <2>2 DEF Trimmed, TypeOK, StateOK, slotVars
<1>7. CASE BrowserGone
  <2>1. ctx' \in [Ctx -> Entry]
    BY <1>7, <1>a, ClosedType, FieldFacts DEF BrowserGone
  <2>2. entries' \in [Owner -> Ctx \cup {None}]
    BY <1>7 DEF BrowserGone, TypeOK
  <2> QED
    BY <1>7, <2>1, <2>2 DEF BrowserGone, TypeOK, StateOK, slotVars
<1>8. CASE Tick
  <2>1. \A c \in Ctx :
          [ctx[c] EXCEPT !.left = IF @ > 0 THEN @ - 1 ELSE 0,
                         !.expire = IF @ \in 1..TTL THEN @ - 1 ELSE @] \in Entry
    <3>1. \A n \in 0 .. TTL : (IF n > 0 THEN n - 1 ELSE 0) \in 0 .. TTL
      BY PoolAssumption
    <3>2. \A n \in 0 .. Off : (IF n \in 1 .. TTL THEN n - 1 ELSE n) \in 0 .. Off
      BY PoolAssumption DEF Off
    <3> QED
      BY ZenonT(30), <1>a, <3>1, <3>2 DEF Entry
  <2>2. ctx' \in [Ctx -> Entry]
    BY <1>8, <2>1 DEF Tick
  <2> QED
    BY <1>8, <2>2 DEF Tick, TypeOK, StateOK, slotVars
<1> QED
  BY <1>1, <1>2, <1>3, <1>4, <1>5, <1>6, <1>7, <1>8 DEF PoolStep

-----------------------------------------------------------------------------
(* What a step may do to a context. *)

Leaving == {"none", "failing", "ending"}

\* A context is closed by its call, by whoever holds its account's lock, or
\* because trimming had chosen it; it leaves the pool at that moment, and comes
\* back when nothing looks at it any more.
CtxMove(c) ==
  LET e == ctx[c]
      f == ctx'[c]
  IN /\ f.closed => f.closing
     /\ e.closing /\ ~f.closing => Unused(c)
     /\ ~e.closing => f.owner = e.owner
     /\ ~e.closing /\ f.closing =>
          /\ \A o \in Owner : entries'[o] # c
          /\ \/ \A g \in Call : call[g].at = c => call'[g].pc \in Leaving
             \/ \E p \in parks : c \in p.victims /\ Trimmed(p)
     /\ ~f.closing /\ e.inUse /\ ~f.inUse =>
          \A g \in Call : call[g].at = c => call'[g].pc = "none"
     /\ ~e.closing /\ e.parked /\ ~f.parked =>
          \E g \in Call : /\ call[g].at = c
                          /\ \/ call[g].pc = "paging" /\ call'[g].pc = "checking"
                             \/ call'[g].pc = "none"
     /\ f.idle \/ f.expire # Off => f.owner \in Owner

\* As c is, but for what a call leaves in it.
Like(e, c) ==
  /\ e.owner = ctx[c].owner /\ e.closing = ctx[c].closing /\ e.closed = ctx[c].closed
  /\ e.parked = ctx[c].parked /\ e.idle = ctx[c].idle /\ e.expire = ctx[c].expire
  /\ e.slot = ctx[c].slot

LEMMA SameMove ==
  ASSUME PoolInv, NEW c \in Ctx, ctx'[c] = ctx[c]
  PROVE  CtxMove(c)
<1>1. ctx[c].closed => ctx[c].closing
  BY DEF PoolInv, RegInv
<1>2. ctx[c].idle \/ ctx[c].expire # Off => ctx[c].owner \in Owner
  BY DEF PoolInv, Owned
<1> QED
  BY <1>1, <1>2 DEF CtxMove

LEMMA OneMoves ==
  ASSUME PoolInv, NEW c \in Ctx, NEW f, ctx' = [ctx EXCEPT ![c] = f], ctx'[c] = f => CtxMove(c)
  PROVE  \A d \in Ctx : CtxMove(d)
<1>1. ctx'[c] = f /\ \A d \in Ctx : d # c => ctx'[d] = ctx[d]
  BY DEF PoolInv, TypeOK
<1> QED
  BY <1>1, SameMove

LEMMA NotInUse ==
  ASSUME PoolInv, NEW c \in Ctx, ~ctx[c].inUse, ~ctx[c].closing
  PROVE  \A g \in Call : call[g].at # c
BY PoolAssumption DEF PoolInv, AtInv

\* Who holds the lock of the account of an open context is the only one to use it.
LEMMA SoleUser ==
  ASSUME PoolInv, NEW g \in Call, NEW o \in Owner, call[g].at = entries[o], entries[o] # None
  PROVE  /\ call[g].whose = o /\ HasLock(g) /\ ctx[entries[o]].inUse
         /\ queue[o] # <<>> /\ Head(queue[o]) = CallTask(g)
<1>1. ctx[entries[o]].owner = o /\ ~ctx[entries[o]].closing
  BY DEF PoolInv, RegInv
<1>2. call[g].whose = o /\ ctx[entries[o]].inUse
  BY <1>1 DEF PoolInv, AtInv
<1>3. call[g].pc \notin {"none", "locking"}
  BY DEF PoolInv, CallShape, ShapeOf, Bare
<1>4. HasLock(g)
  BY <1>3 DEF PoolInv, LocksHeld
<1> QED
  BY <1>2, <1>4, PoolAssumption DEF HasLock

LEMMA OneHolder ==
  ASSUME NEW g \in Call, NEW h \in Call, HasLock(g), HasLock(h),
         call[g].whose = call[h].whose, call[g].whose # None
  PROVE  g = h
BY TaskFacts DEF HasLock

LEMMA DiscardMoves ==
  ASSUME PoolInv, NEW c \in Ctx, NEW e \in Entry, Like(e, c), Discard(c, e),
         ctx[c].inUse /\ ~e.inUse => \A g \in Call : call[g].at = c => call'[g].pc = "none",
         ~ctx[c].closing => \A g \in Call : call[g].at = c => call'[g].pc \in Leaving
  PROVE  \A d \in Ctx : CtxMove(d)
<1>1. ctx[c].closed => ctx[c].closing
  BY DEF PoolInv, RegInv
<1>2. ctx[c].idle \/ ctx[c].expire # Off => ctx[c].owner \in Owner
  BY DEF PoolInv, Owned
<1>3. CASE e.closing
  <2>1. ctx' = [ctx EXCEPT ![c] = e]
    BY <1>3 DEF Discard
  <2>2. ctx'[c] = e => CtxMove(c)
    BY <1>1, <1>2, <1>3 DEF CtxMove, Like
  <2> QED
    BY <2>1, <2>2, OneMoves
<1>4. CASE ~e.closing
  <2> DEFINE f == [CancelTimers(e) EXCEPT !.closing = TRUE, !.discarded = TRUE]
  <2>1. /\ ctx' = [ctx EXCEPT ![c] = f]
        /\ entries' = [o \in Owner |-> IF entries[o] = c THEN None ELSE entries[o]]
    BY <1>4 DEF Discard
  <2>2. f.closing /\ ~f.idle /\ f.expire = Off /\ f.owner = e.owner /\ f.parked = e.parked
    BY DEF Entry, CancelTimers
  <2>3. \A o \in Owner : entries'[o] # c
    BY <2>1, PoolAssumption
  <2>4. ctx'[c] = f => CtxMove(c)
    BY <1>4, <2>2, <2>3 DEF CtxMove, Like
  <2> QED
    BY <2>1, <2>4, OneMoves
<1> QED
  BY <1>3, <1>4

LEMMA ParkMoves ==
  ASSUME PoolInv, NEW c \in Ctx, NEW e \in Entry, NEW by, Like(e, c), ~e.closing, Park(c, e, by),
         ctx[c].inUse /\ ~e.inUse => \A g \in Call : call[g].at = c => call'[g].pc = "none",
         \A g \in Call : call[g].at = c => call'[g].pc \in Leaving
  PROVE  \A d \in Ctx : CtxMove(d)
<1>1. CASE Live(e)
  <2> DEFINE f == [CancelTimers(e) EXCEPT !.parked = TRUE, !.slot = FALSE]
  <2>1. ctx' = [ctx EXCEPT ![c] = f]
    BY <1>1 DEF Park
  <2>2. /\ f.closing = e.closing /\ ~f.idle /\ f.expire = Off /\ f.owner = e.owner /\ f.parked
        /\ f.closed = e.closed /\ f.inUse = e.inUse
    BY DEF Entry, CancelTimers
  <2>3. ctx[c].closed => ctx[c].closing
    BY DEF PoolInv, RegInv
  <2>4. ctx'[c] = f => CtxMove(c)
    BY <2>2, <2>3 DEF CtxMove, Like
  <2> QED
    BY <2>1, <2>4, OneMoves
<1>2. CASE ~Live(e)
  BY <1>2, DiscardMoves DEF Park
<1> QED
  BY <1>1, <1>2

LEMMA UseFields ==
  \A e \in Entry :
    /\ LET f == [e EXCEPT !.inUse = FALSE] IN
         /\ f \in Entry /\ ~f.inUse /\ f.discarded = e.discarded
         /\ \A c \in Ctx : Like(e, c) => Like(f, c)
BY DEF Entry, Like

LEMMA TimerFields ==
  \A e \in Entry :
    /\ ArmExpire(e).closing = e.closing /\ ArmExpire(e).closed = e.closed
    /\ ArmExpire(e).owner = e.owner /\ ArmExpire(e).parked = e.parked
    /\ ArmExpire(e).inUse = e.inUse /\ ArmExpire(e).idle = e.idle
    /\ ArmExpire(e).slot = e.slot
    /\ LET f == [e EXCEPT !.idle = TRUE] IN
         /\ f.closing = e.closing /\ f.closed = e.closed /\ f.owner = e.owner
         /\ f.parked = e.parked /\ f.inUse = e.inUse
BY DEF Entry, ArmExpire

LEMMA AfterUseMoves ==
  ASSUME PoolInv, NEW h \in Call, call[h].at \in Ctx, call[h].pc # "none", call[h].whose \in Owner,
         NEW e \in Entry, Like(e, call[h].at), AfterUse(h, e)
  PROVE  \A d \in Ctx : CtxMove(d)
<1> DEFINE c == call[h].at
           f == [e EXCEPT !.inUse = FALSE]
<1>1. /\ f \in Entry /\ Like(f, c) /\ f.discarded = e.discarded /\ ~f.inUse
  BY UseFields
<1>2. call'[h].pc = "none"
  BY DEF AfterUse, Ends, PoolInv, TypeOK, NoCall
<1>3. \A g \in Call : call[g].at = c => call'[g].pc = "none"
  BY <1>2, PoolAssumption DEF PoolInv, AtInv
<1>4. \A g \in Call : call[g].at = c => call'[g].pc \in Leaving
  BY <1>3 DEF Leaving
<1>5. ctx[c].closed => ctx[c].closing
  BY DEF PoolInv, RegInv
<1>6. ctx[c].idle \/ ctx[c].expire # Off => ctx[c].owner \in Owner
  BY DEF PoolInv, Owned
<1>7. ctx[c].closing \/ ctx[c].owner \in Owner
  BY PoolAssumption DEF PoolInv, AtInv
<1> HIDE DEF f, c
<1>8. CASE f.closing /\ ctx' = [ctx EXCEPT ![c] = f]
  <2>1. ctx'[c] = f => CtxMove(c)
    BY <1>1, <1>5, <1>6, <1>8 DEF CtxMove, Like
  <2> QED
    BY <1>8, <2>1, OneMoves DEF c
<1>9. CASE ~f.closing /\ ctx' = [ctx EXCEPT ![c] = ArmExpire(f)] /\ f.parked
  <2>1. ctx'[c] = ArmExpire(f) => CtxMove(c)
    BY <1>1, <1>3, <1>5, <1>7, <1>9, TimerFields DEF CtxMove, Like
  <2> QED
    BY <1>9, <2>1, OneMoves DEF c
<1>10. CASE ~f.closing /\ ctx' = [ctx EXCEPT ![c] = [f EXCEPT !.idle = TRUE]]
  <2>1. ctx'[c] = [f EXCEPT !.idle = TRUE] => CtxMove(c)
    BY <1>1, <1>3, <1>5, <1>7, <1>10, TimerFields DEF CtxMove, Like
  <2> QED
    BY <1>10, <2>1, OneMoves DEF c
<1>11. CASE Discard(c, f)
  BY <1>1, <1>3, <1>4, <1>11, DiscardMoves DEF c
<1>12. CASE ~f.closing /\ Park(c, f, None)
  BY <1>1, <1>3, <1>4, <1>12, ParkMoves DEF c
<1> QED
  BY <1>8, <1>9, <1>10, <1>11, <1>12 DEF AfterUse, f, c

LEMMA CtxFacts ==
  ASSUME PoolInv, NEW c \in Ctx
  PROVE  /\ ctx[c] \in Entry /\ (ctx[c].closed => ctx[c].closing)
         /\ (ctx[c].idle \/ ctx[c].expire # Off => ctx[c].owner \in Owner)
         /\ Like(ctx[c], c)
BY DEF PoolInv, TypeOK, RegInv, Owned, Like

\* A field that CtxMove does not look at.
LEMMA PlainMove ==
  ASSUME PoolInv, NEW c \in Ctx, NEW f, ctx' = [ctx EXCEPT ![c] = f],
         f.closing = ctx[c].closing, f.closed = ctx[c].closed, f.owner = ctx[c].owner,
         f.parked = ctx[c].parked, f.inUse = ctx[c].inUse,
         f.idle = ctx[c].idle, f.expire = ctx[c].expire
  PROVE  \A d \in Ctx : CtxMove(d)
<1>1. ctx'[c] = f => CtxMove(c)
  BY CtxFacts DEF CtxMove
<1> QED
  BY <1>1, OneMoves

LEMMA CallFacts ==
  ASSUME PoolInv, NEW h \in Call
  PROVE  /\ ShapeOf(call[h]) /\ call[h] \in CallState
         /\ (call[h].pc \notin {"none", "locking"} => HasLock(h))
         /\ (call[h].at # None => /\ call[h].at \in Ctx
                                  /\ ctx[call[h].at].closing \/ ctx[call[h].at].inUse
                                  /\ ctx[call[h].at].closing \/ ctx[call[h].at].owner = call[h].whose
                                  /\ \A g \in Call : call[g].at = call[h].at => g = h)
         /\ (call[h].what \in {"session", "verify", "forget"} => call[h].whose \in Owner)
<1>1. ShapeOf(call[h]) /\ call[h] \in CallState
  BY DEF PoolInv, TypeOK, CallShape
<1>2. call[h].pc \notin {"none", "locking"} => HasLock(h)
  BY DEF PoolInv, LocksHeld
<1>3. call[h].at # None => /\ call[h].at \in Ctx
                           /\ ctx[call[h].at].closing \/ ctx[call[h].at].inUse
                           /\ ctx[call[h].at].closing \/ ctx[call[h].at].owner = call[h].whose
                           /\ \A g \in Call : call[g].at = call[h].at => g = h
  BY <1>1 DEF PoolInv, AtInv, CallState
<1>4. call[h].what \in {"session", "verify", "forget"} => call[h].whose \in Owner
  BY <1>1 DEF CallState, ShapeOf
<1> QED
  BY <1>1, <1>2, <1>3, <1>4

LEMMA CallCtxMoves ==
  ASSUME PoolInv, NEW h \in Call, CallStep(h)
  PROVE  \A d \in Ctx : CtxMove(d)
<1> DEFINE k == call[h]
<1>0. /\ ShapeOf(k) /\ k \in CallState
      /\ (k.at # None => /\ k.at \in Ctx
                         /\ ctx[k.at].closing \/ ctx[k.at].inUse
                         /\ ctx[k.at].closing \/ ctx[k.at].owner = k.whose
                         /\ \A g \in Call : call[g].at = k.at => g = h)
      /\ (k.what \in {"session", "verify", "forget"} => k.whose \in Owner)
  BY CallFacts
<1>a. UNCHANGED ctx => \A d \in Ctx : CtxMove(d)
  BY SameMove
<1>b. \A k1 : Entering(h, k1) => k.whose \in Owner /\ k.at = None /\ HasLock(h)
  BY <1>0 DEF Entering, ShapeOf, Bare, CallState
<1>c. \A k1 : Entering(h, k1) /\ entries[k.whose] # None =>
        /\ entries[k.whose] \in Ctx /\ ~ctx[entries[k.whose]].closing
        /\ ctx[entries[k.whose]].owner = k.whose
        /\ \A g \in Call : call[g].at # entries[k.whose]
  <2> SUFFICES ASSUME NEW k1, Entering(h, k1), entries[k.whose] # None
               PROVE  /\ entries[k.whose] \in Ctx /\ ~ctx[entries[k.whose]].closing
                      /\ ctx[entries[k.whose]].owner = k.whose
                      /\ \A g \in Call : call[g].at # entries[k.whose]
    OBVIOUS
  <2>1. k.whose \in Owner /\ k.at = None /\ HasLock(h)
    BY <1>b
  <2>2. /\ entries[k.whose] \in Ctx /\ ~ctx[entries[k.whose]].closing
        /\ ctx[entries[k.whose]].owner = k.whose
    BY <2>1 DEF PoolInv, TypeOK, RegInv
  <2>3. ASSUME NEW g \in Call, call[g].at = entries[k.whose]  PROVE FALSE
    <3>1. call[g].whose = k.whose /\ HasLock(g)
      BY <2>1, <2>3, SoleUser
    <3>2. g = h
      BY <2>1, <3>1, OneHolder, PoolAssumption
    <3> QED
      BY <2>1, <2>3, <3>2
  <2> QED
    BY <2>2, <2>3
<1>1. CASE EnterExisting(h)
  <2> DEFINE c == entries[k.whose]
             f == [CancelTimers(ctx[c]) EXCEPT !.inUse = TRUE]
  <2>1. /\ c \in Ctx /\ ~ctx[c].closing /\ ctx' = [ctx EXCEPT ![c] = f]
    BY <1>1, <1>c DEF EnterExisting
  <2>2. ctx[c] \in Entry /\ (ctx[c].closed => ctx[c].closing)
    BY <2>1, CtxFacts
  <2>3. /\ f.closing = ctx[c].closing /\ f.closed = ctx[c].closed /\ f.owner = ctx[c].owner
        /\ f.parked = ctx[c].parked /\ f.inUse /\ ~f.idle /\ f.expire = Off
    BY <2>2 DEF Entry, CancelTimers
  <2> HIDE DEF f, c
  <2>4. ctx'[c] = f => CtxMove(c)
    BY <2>1, <2>2, <2>3 DEF CtxMove
  <2> QED
    BY <2>1, <2>4, OneMoves
<1>2. CASE EnterDead(h) \/ Forget(h)
  <2> DEFINE c == entries[k.whose]
  <2>1. c \in Ctx /\ Discard(c, ctx[c]) /\ \A g \in Call : call[g].at # c
    BY <1>2, <1>c DEF EnterDead, Forget
  <2> HIDE DEF c
  <2> QED
    BY <2>1, CtxFacts, DiscardMoves
<1>3. CASE EnterNew(h) \/ EnterNothing(h) \/ SessionAlive(h) \/ SessionOver(h) \/ Wait(h) \/ OpenFails(h)
  BY <1>3, <1>a DEF EnterNew, EnterNothing, SessionAlive, SessionOver, Wait, OpenFails
<1>4. CASE TakeSlot(h) \/ Resume(h)
  <2>1. CASE k.at = None
    BY <1>4, <1>a, <2>1 DEF TakeSlot, Resume
  <2>2. CASE k.at # None
    <3> DEFINE c == k.at
               f == [ctx[c] EXCEPT !.slot = TRUE]
    <3>1. c \in Ctx /\ ctx[c] \in Entry
      BY <1>0, <2>2, CtxFacts
    <3>2. ctx' = [ctx EXCEPT ![c] = f]
      BY <1>4, <2>2 DEF TakeSlot, Resume
    <3>3. /\ f.closing = ctx[c].closing /\ f.closed = ctx[c].closed /\ f.owner = ctx[c].owner
          /\ f.parked = ctx[c].parked /\ f.inUse = ctx[c].inUse
          /\ f.idle = ctx[c].idle /\ f.expire = ctx[c].expire
      BY <3>1 DEF Entry
    <3> HIDE DEF f, c
    <3> QED
      BY <3>1, <3>2, <3>3, PlainMove
  <2> QED
    BY <2>1, <2>2
<1>5. ASSUME NEW c \in Ctx, MakeRoom(h, c)  PROVE \A d \in Ctx : CtxMove(d)
  <2>1. ~ctx[c].inUse /\ ~ctx[c].closing /\ Park(c, ctx[c], h)
    BY <1>5 DEF MakeRoom, Idle
  <2>2. \A g \in Call : call[g].at # c
    BY <2>1, NotInUse
  <2> QED
    BY <2>1, <2>2, CtxFacts, ParkMoves
<1>6. CASE QueueTimeout(h)
  <2>1. CASE k.at = None
    BY <1>6, <1>a, <2>1 DEF QueueTimeout
  <2>2. CASE k.at # None
    <3> DEFINE c == k.at
               f == [ctx[c] EXCEPT !.inUse = FALSE]
    <3>1. c \in Ctx /\ ctx[c] \in Entry /\ (ctx[c].closed => ctx[c].closing)
      BY <1>0, <2>2, CtxFacts
    <3>2. f \in Entry /\ Like(f, c) /\ ~f.inUse
      BY <3>1, CtxFacts, UseFields
    <3>3. call'[h].pc = "none"
      BY <1>6 DEF QueueTimeout, Ends, NoCall, PoolInv, TypeOK
    <3>4. \A g \in Call : call[g].at = c => call'[g].pc = "none"
      BY <1>0, <2>2, <3>3
    <3>5. k.whose \in Owner
      BY <1>0, <1>6, <2>2 DEF QueueTimeout, ShapeOf, ForSlot
    <3>6. ctx[c].closing \/ ctx[c].owner \in Owner
      BY <1>0, <2>2, <3>5
    <3>7. \/ Discard(c, f)
          \/ ~f.closing /\ ctx' = [ctx EXCEPT ![c] = ArmExpire(f)]
      BY <1>6, <2>2 DEF QueueTimeout
    <3> HIDE DEF f, c
    <3>8. CASE Discard(c, f)
      BY <3>1, <3>2, <3>4, <3>8, DiscardMoves DEF Leaving
    <3>9. CASE ~f.closing /\ ctx' = [ctx EXCEPT ![c] = ArmExpire(f)]
      <4>1. ctx'[c] = ArmExpire(f) => CtxMove(c)
        BY <3>1, <3>2, <3>4, <3>6, <3>9, TimerFields DEF CtxMove, Like
      <4> QED
        BY <3>1, <3>9, <4>1, OneMoves
    <3> QED
      BY <3>7, <3>8, <3>9
  <2> QED
    BY <2>1, <2>2
<1>7. ASSUME NEW c \in Ctx, Open(h, c)  PROVE \A d \in Ctx : CtxMove(d)
  <2> DEFINE f == Opened(k.whose)
  <2>1. ctx' = [ctx EXCEPT ![c] = f] /\ Unused(c)
    BY <1>7 DEF Open
  <2>2. ~f.closed /\ f.inUse /\ ~f.idle /\ f.expire = Off
    BY DEF Opened, Closed
  <2>3. ctx[c].closing
    BY <2>1, CtxFacts DEF Unused
  <2> HIDE DEF f
  <2>4. ctx'[c] = f => CtxMove(c)
    BY <2>1, <2>2, <2>3 DEF CtxMove
  <2> QED
    BY <2>1, <2>4, OneMoves
<1>8. CASE Unpark(h)
  <2> DEFINE c == k.at
             f == [ctx[c] EXCEPT !.parked = FALSE]
  <2>1. c \in Ctx /\ ctx[c] \in Entry /\ (ctx[c].closed => ctx[c].closing)
    BY <1>0, <1>8, CtxFacts, PoolAssumption DEF Unpark, ShapeOf, Working
  <2>2. ctx' = [ctx EXCEPT ![c] = f]
    BY <1>8 DEF Unpark
  <2>3. /\ f.closing = ctx[c].closing /\ f.closed = ctx[c].closed /\ f.owner = ctx[c].owner
        /\ f.inUse = ctx[c].inUse /\ f.idle = ctx[c].idle /\ f.expire = ctx[c].expire
    BY <2>1 DEF Entry
  <2>4. k.pc = "paging" /\ call'[h].pc = "checking"
    BY <1>8 DEF Unpark, Goto, PoolInv, TypeOK, CallState
  <2>5. ctx[c].idle \/ ctx[c].expire # Off => ctx[c].owner \in Owner
    BY <2>1, CtxFacts
  <2> HIDE DEF f
  <2>6. ctx'[c] = f => CtxMove(c)
    BY <2>1, <2>3, <2>4, <2>5 DEF CtxMove
  <2> QED
    BY <2>1, <2>2, <2>6, OneMoves
<1>9. CASE Login(h)
  <2> DEFINE c == k.at
             f == [ctx[c] EXCEPT !.left = TTL, !.stale = FALSE]
  <2>1. c \in Ctx /\ ctx[c] \in Entry
    BY <1>0, <1>9, CtxFacts, PoolAssumption DEF Login, ShapeOf, Working
  <2>2. ctx' = [ctx EXCEPT ![c] = f]
    BY <1>9, <2>1 DEF Login, PoolInv, TypeOK
  <2>3. /\ f.closing = ctx[c].closing /\ f.closed = ctx[c].closed /\ f.owner = ctx[c].owner
        /\ f.parked = ctx[c].parked /\ f.inUse = ctx[c].inUse
        /\ f.idle = ctx[c].idle /\ f.expire = ctx[c].expire
    BY <2>1 DEF Entry
  <2> HIDE DEF f, c
  <2> QED
    BY <2>1, <2>2, <2>3, PlainMove
<1>10. CASE UnparkFails(h) \/ CheckFails(h) \/ Used(h) \/ (Awaited(h) /\ k.pc = "failing")
  <2>1. k.at \in Ctx /\ k.pc # "none" /\ k.whose \in Owner
    BY <1>0, <1>10 DEF UnparkFails, CheckFails, Used, ShapeOf, Working
  <2>2. \E e \in Entry : AfterUse(h, e) /\ Like(e, k.at)
    <3>1. ctx[k.at] \in Entry /\ Like(ctx[k.at], k.at)
      BY <2>1, CtxFacts
    <3>2. /\ [ctx[k.at] EXCEPT !.discarded = TRUE] \in Entry
          /\ [ctx[k.at] EXCEPT !.stale = TRUE] \in Entry
          /\ Like([ctx[k.at] EXCEPT !.discarded = TRUE], k.at)
          /\ Like([ctx[k.at] EXCEPT !.stale = TRUE], k.at)
      BY <3>1 DEF Entry, Like
    <3>3. CASE UnparkFails(h)
      BY <3>2, <3>3 DEF UnparkFails
    <3>4. CASE CheckFails(h)
      BY <3>1, <3>4 DEF CheckFails
    <3>5. CASE Used(h)
      BY <3>1, <3>2, <3>5 DEF Used
    <3>6. CASE Awaited(h) /\ k.pc = "failing"
      BY <3>1, <3>6 DEF Awaited
    <3> QED
      BY <1>10, <3>3, <3>4, <3>5, <3>6
  <2> QED
    BY <2>1, <2>2, AfterUseMoves
<1>11. CASE LoginFails(h)
  <2>1. k.at \in Ctx /\ Discard(k.at, ctx[k.at])
    BY <1>0, <1>11 DEF LoginFails, ShapeOf, Working
  <2>2. call'[h].pc = "failing"
    BY <1>11 DEF LoginFails, Await, PoolInv, TypeOK, CallState
  <2>3. \A g \in Call : call[g].at = k.at => call'[g].pc \in Leaving
    BY <1>0, <2>1, <2>2, PoolAssumption DEF Leaving
  <2>4. ctx[k.at] \in Entry /\ Like(ctx[k.at], k.at)
    BY <2>1, CtxFacts
  <2> QED
    BY <2>1, <2>3, <2>4, DiscardMoves
<1>12. CASE CloseContext(h)
  <2> DEFINE c == k.at
             f == [ctx[c] EXCEPT !.closing = TRUE]
  <2>1. c \in Ctx /\ ctx[c] \in Entry
    BY <1>0, <1>12, CtxFacts, PoolAssumption DEF CloseContext, ShapeOf, Working
  <2>2. ctx' = [ctx EXCEPT ![c] = f]
    BY <1>12 DEF CloseContext
  <2>3. /\ f.closing /\ f.closed = ctx[c].closed /\ f.owner = ctx[c].owner
        /\ f.parked = ctx[c].parked /\ f.inUse = ctx[c].inUse
        /\ f.idle = ctx[c].idle /\ f.expire = ctx[c].expire
    BY <2>1 DEF Entry
  <2>4. call'[h].pc = "ending"
    BY <1>12 DEF CloseContext, Await, PoolInv, TypeOK, CallState
  <2>5. \A g \in Call : call[g].at = c => call'[g].pc \in Leaving
    BY <1>0, <2>1, <2>4, PoolAssumption DEF Leaving
  <2>6. \A o \in Owner : entries'[o] # c
    <3>1. k.what \in {"verify", "scratch"}
      BY <1>0, <1>12 DEF CloseContext, ShapeOf
    <3>2. ~Registered(c)
      BY <2>1, <3>1, PoolAssumption DEF PoolInv, AtInv
    <3> QED
      BY <1>12, <3>2 DEF CloseContext, Registered
  <2>7. ctx[c].idle \/ ctx[c].expire # Off => ctx[c].owner \in Owner
    BY <2>1, CtxFacts
  <2> HIDE DEF f
  <2>8. ctx'[c] = f => CtxMove(c)
    BY <2>1, <2>3, <2>5, <2>6, <2>7 DEF CtxMove
  <2> QED
    BY <2>1, <2>2, <2>8, OneMoves
<1>13. CASE Proven(h)
  <2> DEFINE c == entries[k.whose]
  <2>1. k.whose \in Owner /\ k.what = "verify" /\ HasLock(h)
    BY <1>0, <1>13, CallFacts DEF Proven, ShapeOf
  <2>2. c \in Ctx /\ Discard(c, ctx[c])
    BY <1>13, <2>1 DEF Proven, PoolInv, TypeOK
  <2>3. ASSUME NEW g \in Call, call[g].at = c  PROVE FALSE
    <3>1. call[g].whose = k.whose /\ HasLock(g)
      BY <2>1, <2>2, <2>3, SoleUser, PoolAssumption
    <3>2. g = h
      BY <2>1, <3>1, OneHolder, PoolAssumption
    <3>3. ~Registered(c)
      BY <2>1, <2>2, <2>3, <3>2, PoolAssumption DEF PoolInv, AtInv
    <3> QED
      BY <2>1, <3>3 DEF Registered
  <2> HIDE DEF c
  <2>4. ctx[c] \in Entry /\ Like(ctx[c], c)
    BY <2>2, CtxFacts
  <2> QED
    BY <2>2, <2>3, <2>4, DiscardMoves
<1>14. CASE Adopt(h)
  <2> DEFINE c == k.at
  <2>1. /\ c \in Ctx /\ ctx[c] \in Entry /\ (ctx[c].closed => ctx[c].closing)
        /\ k.whose \in Owner /\ (ctx[c].closing \/ ctx[c].owner = k.whose)
        /\ \A g \in Call : call[g].at = c => g = h
    BY <1>0, <1>14, CtxFacts, PoolAssumption DEF Adopt, ShapeOf, Working
  <2>2. ~ctx[c].closing /\ ~ctx[c].closed
    BY <1>14, <2>1, PoolAssumption DEF Adopt, PoolInv, AtInv, Own
  <2>3. call'[h].pc = "none"
    BY <1>14 DEF Adopt, Ends, NoCall, PoolInv, TypeOK
  <2>4. call[h].at = c /\ call'[h].pc = "none"
    BY <2>3
  <2>5. \E f : /\ ctx' = [ctx EXCEPT ![c] = f]
               /\ ~f.closing /\ ~f.closed /\ f.owner = k.whose
    <3>1. ctx' = [ctx EXCEPT ![c] = Handed(k.whose, ctx[c])]
          \/ ctx' = [ctx EXCEPT ![c] = Rested(k.whose, ctx[c])]
      BY <1>14 DEF Adopt, Handed, Rested
    <3> QED
      BY <2>1, <3>1, AdoptedFields
  <2>6. PICK f : /\ ctx' = [ctx EXCEPT ![c] = f]
                 /\ ~f.closing /\ ~f.closed /\ f.owner = k.whose
    BY <2>5
  <2>7. ctx'[c] = f => CtxMove(c)
    BY <2>1, <2>2, <2>3, <2>4, <2>6 DEF CtxMove
  <2> QED
    BY <2>1, <2>6, <2>7, OneMoves
<1>15. CASE Awaited(h) /\ k.pc # "failing"
  BY <1>15, <1>a DEF Awaited
<1>16. ASSUME NEW kind, NEW o, Arrive(h, kind, o)  PROVE \A d \in Ctx : CtxMove(d)
  BY <1>16, <1>a DEF Arrive
<1> QED
  BY <1>1, <1>2, <1>3, <1>4, <1>5, <1>6, <1>7, <1>8, <1>9, <1>10, <1>11, <1>12, <1>13,
     <1>14, <1>15, <1>16 DEF CallStep

LEMMA SurplusIdle ==
  ASSUME NEW entry, NEW V \in Surplus(entry), NEW v \in V
  PROVE  /\ v \in Ctx /\ Registered(v)
         /\ entry[v].parked /\ ~entry[v].inUse /\ ~entry[v].closing
BY DEF Surplus, Registered

\* #armExpire of the context that was parked, and nothing else.
Armed(p, entry) ==
  /\ entry \in [Ctx -> Entry]
  /\ \A d \in Ctx : \/ entry[d] = ctx[d]
                    \/ d = p.of /\ ~ctx[d].closing /\ entry[d] = ArmExpire(ctx[d])

LEMMA ArmedSame ==
  ASSUME PoolInv, NEW p \in parks, NEW entry, Armed(p, entry), NEW d \in Ctx
  PROVE  /\ entry[d] \in Entry /\ entry[d].closing = ctx[d].closing /\ entry[d].closed = ctx[d].closed
         /\ entry[d].owner = ctx[d].owner /\ entry[d].parked = ctx[d].parked
         /\ entry[d].inUse = ctx[d].inUse /\ entry[d].idle = ctx[d].idle
         /\ entry[d].slot = ctx[d].slot
         /\ entry[d].idle \/ entry[d].expire # Off => entry[d].owner \in Owner
<1>1. ctx[d] \in Entry /\ entry[d] \in Entry
  BY DEF PoolInv, TypeOK, Armed
<1>2. CASE entry[d] = ctx[d]
  BY <1>1, <1>2, CtxFacts
<1>3. CASE d = p.of /\ ~ctx[d].closing /\ entry[d] = ArmExpire(ctx[d])
  <2>1. ctx[d].owner \in Owner
    BY <1>3 DEF PoolInv, Owned
  <2> QED
    BY <1>1, <1>3, <2>1, TimerFields
<1> QED
  BY <1>2, <1>3 DEF Armed

LEMMA PageEntry ==
  ASSUME PoolInv, NEW p \in parks
  PROVE  /\ Armed(p, ctx)
         /\ Armed(p, IF ctx[p.of].closing THEN ctx ELSE [ctx EXCEPT ![p.of] = ArmExpire(ctx[p.of])])
<1>1. ctx \in [Ctx -> Entry] /\ p.of \in Ctx
  BY DEF PoolInv, TypeOK, ParkRun
<1>2. ArmExpire(ctx[p.of]) \in Entry
  BY <1>1, EntryFacts
<1> QED
  BY <1>1, <1>2 DEF Armed

\* What #trimParked does next: it returns, or it discards a context.
LEMMA TrimCases ==
  ASSUME NEW p, NEW entry, NEW V, TrimNext(p, entry, V)
  PROVE  \/ /\ ParkReturns(p) /\ parks' = parks \ {p} /\ ctx' = entry /\ UNCHANGED entries
            /\ \A v \in V : entry[v].closing
         \/ \E v \in V :
              /\ ~entry[v].closing
              /\ parks' = (parks \ {p}) \cup
                   {[p EXCEPT !.stage = "trim", !.wait = v, !.victims = V \ {v}]}
              /\ ctx' = [entry EXCEPT ![v] = [CancelTimers(entry[v]) EXCEPT !.closing = TRUE, !.discarded = TRUE]]
              /\ entries' = [o \in Owner |-> IF entries[o] = v THEN None ELSE entries[o]]
              /\ UNCHANGED <<call, queue>>
BY DEF TrimNext

LEMMA ClosedFields ==
  \A e \in Entry :
    LET f == [CancelTimers(e) EXCEPT !.closing = TRUE, !.discarded = TRUE] IN
    /\ f.closing /\ f.discarded /\ f.closed = e.closed /\ f.owner = e.owner /\ f.slot = e.slot
    /\ f.inUse = e.inUse /\ f.parked = e.parked /\ ~f.idle /\ f.expire = Off
BY DEF Entry, CancelTimers

LEMMA TrimMoves ==
  ASSUME PoolInv, NEW p \in parks, NEW entry, Armed(p, entry), NEW V \in SUBSET Ctx,
         \A v \in V : \/ entry[v].closing
                      \/ \A g \in Call : call[g].at # v
                      \/ \E q \in parks : v \in q.victims /\ Trimmed(q),
         TrimNext(p, entry, V)
  PROVE  \A d \in Ctx : CtxMove(d)
<1>1. ASSUME NEW d \in Ctx, ctx'[d] = entry[d]  PROVE CtxMove(d)
  BY <1>1, ArmedSame, CtxFacts DEF CtxMove
<1>2. CASE ctx' = entry
  BY <1>1, <1>2
<1>3. ASSUME NEW v \in V, ~entry[v].closing, UNCHANGED call,
             ctx' = [entry EXCEPT ![v] = [CancelTimers(entry[v]) EXCEPT !.closing = TRUE, !.discarded = TRUE]],
             entries' = [o \in Owner |-> IF entries[o] = v THEN None ELSE entries[o]]
      PROVE \A d \in Ctx : CtxMove(d)
  <2> DEFINE f == [CancelTimers(entry[v]) EXCEPT !.closing = TRUE, !.discarded = TRUE]
  <2>1. entry[v] \in Entry /\ entry[v].closed = ctx[v].closed /\ entry[v].owner = ctx[v].owner
        /\ entry[v].parked = ctx[v].parked /\ entry[v].inUse = ctx[v].inUse
    BY ArmedSame
  <2>2. /\ f.closing /\ f.owner = ctx[v].owner /\ ~f.idle /\ f.expire = Off
        /\ f.parked = ctx[v].parked
    BY <2>1, ClosedFields
  <2>3. \A o \in Owner : entries'[o] # v
    BY <1>3, PoolAssumption
  <2>4. ctx'[v] = f /\ \A d \in Ctx : d # v => ctx'[d] = entry[d]
    BY <1>3 DEF Armed
  <2> HIDE DEF f
  <2>5. CtxMove(v)
    BY <1>3, <2>2, <2>3, <2>4 DEF CtxMove
  <2> QED
    BY <1>1, <2>4, <2>5
<1>4. \/ ctx' = entry
      \/ \E v \in V :
           /\ ~entry[v].closing /\ UNCHANGED call
           /\ ctx' = [entry EXCEPT ![v] = [CancelTimers(entry[v]) EXCEPT !.closing = TRUE, !.discarded = TRUE]]
           /\ entries' = [o \in Owner |-> IF entries[o] = v THEN None ELSE entries[o]]
  BY DEF TrimNext
<1>5. ASSUME ctx' # entry  PROVE \A d \in Ctx : CtxMove(d)
  <2>1. PICK v \in V :
           /\ ~entry[v].closing /\ UNCHANGED call
           /\ ctx' = [entry EXCEPT ![v] = [CancelTimers(entry[v]) EXCEPT !.closing = TRUE, !.discarded = TRUE]]
           /\ entries' = [o \in Owner |-> IF entries[o] = v THEN None ELSE entries[o]]
    BY <1>4, <1>5
  <2> QED
    BY <1>3, <2>1
<1> QED
  BY <1>2, <1>5

LEMMA PoolCtxMoves ==
  ASSUME PoolInv, PoolStep
  PROVE  \A d \in Ctx : CtxMove(d)
<1>a. UNCHANGED ctx => \A d \in Ctx : CtxMove(d)
  BY SameMove
<1>b. ASSUME NEW c \in Ctx, ~ctx[c].inUse, ~ctx[c].closing
      PROVE  \A g \in Call : call[g].at # c
  BY <1>b, NotInUse
<1>1. ASSUME NEW o \in Owner, NEW c \in Ctx, IdleRuns(o, c)  PROVE \A d \in Ctx : CtxMove(d)
  <2>1. CASE entries[o] = c /\ ~ctx[c].inUse /\ ~ctx[c].parked /\ ~ctx[c].closing
    <3>1. Park(c, ctx[c], o) /\ \A g \in Call : call[g].at # c
      BY <1>1, <1>b, <2>1 DEF IdleRuns
    <3> QED
      BY <2>1, <3>1, CtxFacts, ParkMoves
  <2>2. CASE ~(entries[o] = c /\ ~ctx[c].inUse /\ ~ctx[c].parked /\ ~ctx[c].closing)
    BY <1>1, <1>a, <2>2 DEF IdleRuns
  <2> QED
    BY <2>1, <2>2
<1>2. ASSUME NEW o \in Owner, NEW c \in Ctx, ExpireRuns(o, c)  PROVE \A d \in Ctx : CtxMove(d)
  <2>1. CASE entries[o] = c /\ ~ctx[c].inUse /\ ~ctx[c].closing
    <3>1. Discard(c, ctx[c]) /\ \A g \in Call : call[g].at # c
      BY <1>2, <1>b, <2>1 DEF ExpireRuns
    <3> QED
      BY <2>1, <3>1, CtxFacts, DiscardMoves
  <2>2. CASE ~(entries[o] = c /\ ~ctx[c].inUse /\ ~ctx[c].closing)
    BY <1>2, <1>a, <2>2 DEF ExpireRuns
  <2> QED
    BY <2>1, <2>2
<1>3. ASSUME NEW c \in Ctx, ContextClosed(c)  PROVE \A d \in Ctx : CtxMove(d)
  <2>1. ctx' = [ctx EXCEPT ![c] = Closed] /\ ctx[c].closing
    BY <1>3 DEF ContextClosed
  <2>2. Closed.closing /\ ~Closed.idle /\ Closed.expire = Off
    BY DEF Closed
  <2>3. ctx'[c] = Closed => CtxMove(c)
    BY <2>1, <2>2 DEF CtxMove
  <2> QED
    BY <2>1, <2>3, OneMoves
<1>4. ASSUME NEW c \in Ctx, IdleFires(c) \/ ExpireFires(c)  PROVE \A d \in Ctx : CtxMove(d)
  <2>1. \E f : /\ ctx' = [ctx EXCEPT ![c] = f]
               /\ f.closing = ctx[c].closing /\ f.closed = ctx[c].closed /\ f.owner = ctx[c].owner
               /\ f.parked = ctx[c].parked /\ f.inUse = ctx[c].inUse
               /\ f.idle => ctx[c].idle
               /\ f.expire # Off => ctx[c].expire # Off
    <3>1. ctx[c] \in Entry
      BY CtxFacts
    <3>2. CASE IdleFires(c)
      <4> DEFINE f == [ctx[c] EXCEPT !.idle = FALSE]
      <4>1. ctx' = [ctx EXCEPT ![c] = f]
        BY <3>2 DEF IdleFires
      <4>2. /\ f.closing = ctx[c].closing /\ f.closed = ctx[c].closed /\ f.owner = ctx[c].owner
            /\ f.parked = ctx[c].parked /\ f.inUse = ctx[c].inUse
            /\ ~f.idle /\ f.expire = ctx[c].expire
        BY <3>1 DEF Entry
      <4> HIDE DEF f
      <4> QED
        BY <4>1, <4>2
    <3>3. CASE ExpireFires(c)
      <4>1. ctx' = [ctx EXCEPT ![c] = [ctx[c] EXCEPT !.expire = Off]]
        BY <3>3 DEF ExpireFires
      <4> QED
        BY <3>1, <4>1 DEF Entry
    <3> QED
      BY <1>4, <3>2, <3>3
  <2>2. PICK f : /\ ctx' = [ctx EXCEPT ![c] = f]
                 /\ f.closing = ctx[c].closing /\ f.closed = ctx[c].closed /\ f.owner = ctx[c].owner
                 /\ f.parked = ctx[c].parked /\ f.inUse = ctx[c].inUse
                 /\ f.idle => ctx[c].idle
                 /\ f.expire # Off => ctx[c].expire # Off
    BY <2>1
  <2>3. ctx'[c] = f => CtxMove(c)
    BY <2>2, CtxFacts DEF CtxMove
  <2> QED
    BY <2>2, <2>3, OneMoves
<1>5. ASSUME NEW p \in parks, PageClosed(p)  PROVE \A d \in Ctx : CtxMove(d)
  <2> DEFINE entry == IF ctx[p.of].closing THEN ctx ELSE [ctx EXCEPT ![p.of] = ArmExpire(ctx[p.of])]
  <2>1. PICK V \in Surplus(entry) : TrimNext(p, entry, V)
    BY <1>5 DEF PageClosed
  <2>2. Armed(p, entry)
    BY PageEntry
  <2> HIDE DEF entry
  <2>3. V \in SUBSET Ctx /\ \A v \in V : \A g \in Call : call[g].at # v
    <3> SUFFICES ASSUME NEW v \in V  PROVE v \in Ctx /\ \A g \in Call : call[g].at # v
      OBVIOUS
    <3>1. v \in Ctx /\ ~entry[v].inUse /\ ~entry[v].closing
      BY SurplusIdle
    <3>2. ~ctx[v].inUse /\ ~ctx[v].closing
      BY <2>2, <3>1, ArmedSame
    <3> QED
      BY <1>b, <3>1, <3>2
  <2> QED
    BY <2>1, <2>2, <2>3, TrimMoves
<1>6. ASSUME NEW p \in parks, Trimmed(p)  PROVE \A d \in Ctx : CtxMove(d)
  <2>1. TrimNext(p, ctx, p.victims) /\ p.victims \in SUBSET Ctx
    BY <1>6 DEF Trimmed, PoolInv, TypeOK, ParkRun
  <2>2. Armed(p, ctx)
    BY PageEntry
  <2>3. \A v \in p.victims : \E q \in parks : v \in q.victims /\ Trimmed(q)
    BY <1>6
  <2> QED
    BY <2>1, <2>2, <2>3, TrimMoves
<1>7. CASE BrowserGone
  <2> DEFINE registered == {c \in Ctx : \E o \in Owner : entries[o] = c}
             dropped == {c \in registered : ~ctx[c].inUse}
  <2>1. /\ \A c \in Ctx : ctx'[c] = IF c \in dropped
             THEN [CancelTimers(ctx[c]) EXCEPT !.closing = TRUE, !.discarded = TRUE]
             ELSE IF c \in registered THEN [ctx[c] EXCEPT !.discarded = TRUE] ELSE ctx[c]
        /\ \A o \in Owner : entries'[o] = IF entries[o] \in dropped THEN None ELSE entries[o]
    BY <1>7 DEF BrowserGone
  <2>b. \A c \in dropped : c \in Ctx /\ ~ctx[c].inUse /\ \E o \in Owner : entries[o] = c
    OBVIOUS
  <2> HIDE DEF dropped, registered
  <2>2. ASSUME NEW c \in dropped  PROVE CtxMove(c)
    <3> DEFINE f == [CancelTimers(ctx[c]) EXCEPT !.closing = TRUE, !.discarded = TRUE]
    <3>a. c \in Ctx /\ ctx'[c] = f /\ ~ctx[c].inUse /\ \E o \in Owner : entries[o] = c
      BY <2>1, <2>b
    <3>1. ctx[c] \in Entry
      BY <3>a, CtxFacts
    <3>2. \A o \in Owner : entries'[o] # c
      <4>1. \A o \in Owner : entries'[o] = IF entries[o] \in dropped THEN None ELSE entries[o]
        BY <2>1
      <4>2. c # None
        BY <2>b, PoolAssumption
      <4> QED
        BY <4>1, <4>2
    <3>3. ~ctx[c].closing
      BY <3>a, PoolAssumption DEF PoolInv, RegInv
    <3>4. \A g \in Call : call[g].at # c
      BY <1>b, <3>a, <3>3
    <3>5. f.closing /\ f.owner = ctx[c].owner /\ ~f.idle /\ f.expire = Off /\ f.parked = ctx[c].parked
      BY <3>1, ClosedFields
    <3> HIDE DEF f
    <3> QED
      BY <3>a, <3>2, <3>4, <3>5 DEF CtxMove
  <2>3. ASSUME NEW c \in Ctx, c \notin dropped  PROVE CtxMove(c)
    <3>1. CASE ctx'[c] = ctx[c]
      BY <3>1, SameMove
    <3>2. CASE ctx'[c] = [ctx[c] EXCEPT !.discarded = TRUE]
      <4> DEFINE f == [ctx[c] EXCEPT !.discarded = TRUE]
      <4>1. /\ f.closing = ctx[c].closing /\ f.closed = ctx[c].closed /\ f.owner = ctx[c].owner
            /\ f.parked = ctx[c].parked /\ f.inUse = ctx[c].inUse
            /\ f.idle = ctx[c].idle /\ f.expire = ctx[c].expire
        BY CtxFacts DEF Entry
      <4> HIDE DEF f
      <4>2. ctx'[c] = f
        BY <3>2 DEF f
      <4> QED
        BY <4>1, <4>2, CtxFacts DEF CtxMove
    <3> QED
      BY <2>1, <2>3, <3>1, <3>2
  <2> QED
    BY <2>2, <2>3
<1>8. CASE Tick
  <2> SUFFICES ASSUME NEW c \in Ctx  PROVE CtxMove(c)
    OBVIOUS
  <2> DEFINE f == [ctx[c] EXCEPT !.left = IF @ > 0 THEN @ - 1 ELSE 0,
                                 !.expire = IF @ \in 1..TTL THEN @ - 1 ELSE @]
  <2>1. ctx'[c] = f /\ ctx[c] \in Entry
    BY <1>8, CtxFacts DEF Tick
  <2>2. /\ f.closing = ctx[c].closing /\ f.closed = ctx[c].closed /\ f.owner = ctx[c].owner
        /\ f.parked = ctx[c].parked /\ f.inUse = ctx[c].inUse /\ f.idle = ctx[c].idle
    BY <2>1 DEF Entry
  <2>3. f.expire # Off => ctx[c].expire # Off
    <3>1. f.expire = IF ctx[c].expire \in 1 .. TTL THEN ctx[c].expire - 1 ELSE ctx[c].expire
      BY <2>1 DEF Entry
    <3> QED
      BY <3>1, PoolAssumption DEF Off
  <2> HIDE DEF f
  <2> QED
    BY <2>1, <2>2, <2>3, CtxFacts DEF CtxMove
<1> QED
  BY <1>1, <1>2, <1>3, <1>4, <1>5, <1>6, <1>7, <1>8 DEF PoolStep

-----------------------------------------------------------------------------
(* What a step may do to a call. *)

\* withSession takes the account's context; #openContext opens a new one.
Enters(h) ==
  LET k == call[h]
      l == call'[h]
  IN /\ k.at = None /\ k.what = "session" /\ l.at = entries[k.whose] /\ l.at # None
     /\ ctx'[l.at].inUse /\ ~ctx'[l.at].closing
     /\ l.pc # "checking" => ctx'[l.at].parked

Opens(h) ==
  LET k == call[h]
      l == call'[h]
  IN /\ k.at = None /\ k.pc = "opening" /\ l.at \in Ctx /\ Unused(l.at)
     /\ ctx'[l.at].inUse /\ ~ctx'[l.at].closing /\ ctx'[l.at].owner = k.whose
     /\ ctx'[l.at].slot /\ ~ctx'[l.at].parked
     /\ l.pc \notin ForSlot \cup {"paging"}

Act(h) ==
  LET k == call[h]
      l == call'[h]
  IN /\ \A g \in Call : g # h => call'[g] = call[g]
     /\ ShapeOf(l)
     /\ k.pc = "making room" => \E p \in parks : p.by = h /\ parks' = parks \ {p}
     /\ l.pc \notin {"none", "locking"} =>
          \/ k.pc # "none" /\ l.whose = k.whose /\ l.what = k.what /\ HasLock(h)
          \/ k.pc = "none" /\ l.whose = None /\ l.at = None /\ l.what = "scratch"
     /\ l.at # None => l.at = k.at \/ Enters(h) \/ Opens(h)
     /\ l.at # None /\ l.pc \in ForSlot \cup {"paging"} =>
          k.pc \in ForSlot \cup {"paging"} \/ Enters(h)
     /\ Own(l) => Own(k) \/ Opens(h)
     /\ Bound(l) => Bound(k) \/ entries'[l.whose] = None
     /\ k.pc \in {"failing", "ending"} => l.pc = "none"

\* The call ends.
LEMMA EndsAct ==
  ASSUME PoolInv, NEW h \in Call, Ends(h), call[h].pc # "making room"
  PROVE  Act(h)
<1>1. call'[h] = NoCall /\ \A g \in Call : g # h => call'[g] = call[g]
  BY DEF Ends, PoolInv, TypeOK
<1>2. NoCall.pc = "none" /\ NoCall.what = "none" /\ NoCall.whose = None /\ NoCall.at = None
  BY DEF NoCall
<1> QED
  BY <1>1, <1>2 DEF Act, ShapeOf, Bare, ForSlot, Working, Own, Bound

\* The call goes to another step, its context if any the same.
LEMMA StepAct ==
  ASSUME PoolInv, NEW h \in Call, NEW s \in Steps, HasLock(h),
         \/ Goto(h, s)
         \/ \E c \in Ctx \cup {None} : Await(h, c, s),
         LET k == call[h] IN
           \/ k.pc = "locking" /\ k.what = "session" /\ s = "discarding" /\ entries'[k.whose] = None
           \/ k.pc = "locking" /\ k.what = "session" /\ s = "acquiring" /\ entries'[k.whose] = None
           \/ k.pc = "locking" /\ k.what = "verify" /\ s = "acquiring"
           \/ k.pc = "locking" /\ s = "ending"
           \/ k.pc \in {"acquiring", "waiting"} /\ k.at = None /\ s = "opening"
           \/ k.pc \in {"acquiring", "waiting"} /\ k.at # None /\ s = "paging"
           \/ k.pc = "acquiring" /\ s \in {"making room", "waiting"}
           \/ k.pc = "paging" /\ s = "checking"
           \/ k.pc = "checking" /\ s \in {"using", "logging"}
           \/ k.pc = "logging" /\ s \in {"using", "failing"}
           \/ k.pc = "probing" /\ s = "ending"
           \/ k.pc = "using" /\ k.what = "scratch" /\ s = "ending"
           \/ k.pc = "probing" /\ s = "replacing" /\ entries'[k.whose] = None
           \/ k.pc = "discarding" /\ s = "acquiring"
  PROVE  Act(h)
<1> DEFINE k == call[h]
           l == call'[h]
<1>1. k \in CallState /\ ShapeOf(k)
  BY CallFacts
<1>2. /\ l.pc = s /\ l.what = k.what /\ l.whose = k.whose /\ l.at = k.at
      /\ \A g \in Call : g # h => call'[g] = call[g]
  <2>1. CASE Goto(h, s)
    BY <1>1, <2>1 DEF Goto, PoolInv, TypeOK, CallState
  <2>2. ASSUME NEW c \in Ctx \cup {None}, Await(h, c, s)
        PROVE  /\ l.pc = s /\ l.what = k.what /\ l.whose = k.whose /\ l.at = k.at
               /\ \A g \in Call : g # h => call'[g] = call[g]
    BY <1>1, <2>2 DEF Await, PoolInv, TypeOK, CallState
  <2> QED
    BY <2>1, <2>2
<1>3. k.pc # "making room" /\ k.pc # "none"
  OBVIOUS
<1>4. ShapeOf(l)
  <2>1. k.what \in Kinds /\ (k.whose = None <=> k.what = "scratch")
    BY <1>1, <1>3 DEF ShapeOf
  <2>2. k.at = None \/ k.at \in Ctx
    BY <1>1 DEF CallState
  <2>3. (l.pc \in Bare => l.at = None) /\ (l.pc \in Working => l.at \in Ctx)
    BY <1>1, <1>2, <2>2 DEF ShapeOf, Bare, ForSlot, Working
  <2>4. /\ l.pc \in {"paging", "checking", "logging", "failing", "discarding"} => l.what = "session"
        /\ l.pc \in {"probing", "replacing"} => l.what = "verify"
        /\ l.pc = "using" => l.what \in {"session", "scratch"}
    BY <1>1, <1>2, <2>2 DEF ShapeOf, Bare, ForSlot, Working
  <2>5. /\ l.pc \in ForSlot \cup {"opening"} => l.what # "forget"
        /\ l.pc \in ForSlot /\ l.at # None => l.what = "session"
        /\ l.pc = "locking" => l.what # "scratch"
    BY <1>1, <1>2, <2>2 DEF ShapeOf, Bare, ForSlot, Working
  <2>6. l.pc = "ending" /\ l.at # None => l.what \in {"verify", "scratch"}
    BY <1>1, <1>2, <2>2 DEF ShapeOf, Bare, ForSlot, Working
  <2> QED
    BY <1>2, <1>3, <2>1, <2>3, <2>4, <2>5, <2>6 DEF ShapeOf
<1>5. Own(l) => Own(k)
  BY <1>1, <1>2 DEF Own, ShapeOf
<1>6. Bound(l) => Bound(k) \/ entries'[l.whose] = None
  BY <1>1, <1>2 DEF Bound, ForSlot, ShapeOf, Working
<1>7. l.at # None /\ l.pc \in ForSlot \cup {"paging"} => k.pc \in ForSlot \cup {"paging"}
  BY <1>1, <1>2 DEF ForSlot, ShapeOf, Bare
<1> QED
  BY <1>2, <1>3, <1>4, <1>5, <1>6, <1>7 DEF Act

LEMMA DiscardFrees ==
  ASSUME PoolInv, NEW o \in Owner, entries[o] # None, Discard(entries[o], ctx[entries[o]])
  PROVE  entries'[o] = None
<1>1. ~ctx[entries[o]].closing
  BY DEF PoolInv, RegInv
<1> QED
  BY <1>1 DEF Discard

LEMMA CallActs ==
  ASSUME PoolInv, NEW h \in Call, CallStep(h)
  PROVE  Act(h)
<1> DEFINE k == call[h]
           l == call'[h]
<1>0. /\ ShapeOf(k) /\ k \in CallState
      /\ (k.pc \notin {"none", "locking"} => HasLock(h))
      /\ (k.what \in {"session", "verify", "forget"} => k.whose \in Owner)
      /\ k.at \in Ctx \cup {None}
  BY CallFacts DEF CallState
<1>1. CASE EnterExisting(h)
  <2> DEFINE c == entries[k.whose]
             f == [CancelTimers(ctx[c]) EXCEPT !.inUse = TRUE]
             s == IF ctx[c].parked THEN "acquiring" ELSE "checking"
  <2>1. /\ k.pc = "locking" /\ k.what = "session" /\ k.at = None /\ HasLock(h) /\ k.whose \in Owner
        /\ c # None
    BY <1>0, <1>1 DEF EnterExisting, Entering, ShapeOf, Bare
  <2>2. c \in Ctx /\ ~ctx[c].closing /\ ctx[c] \in Entry
    BY <2>1, CtxFacts DEF PoolInv, TypeOK, RegInv
  <2>3. f.inUse /\ ~f.closing /\ f.parked = ctx[c].parked
    BY <2>2 DEF Entry, CancelTimers
  <2>4. ctx'[c] = f
    BY <1>1, <2>2 DEF EnterExisting, PoolInv, TypeOK
  <2>5. /\ l.pc = s /\ l.at = c /\ l.what = k.what /\ l.whose = k.whose
        /\ \A g \in Call : g # h => call'[g] = call[g]
    <3>1. call' = [call EXCEPT ![h] = [k EXCEPT !.at = c, !.pc = s]]
      BY <1>1 DEF EnterExisting
    <3> HIDE DEF c, s
    <3> QED
      BY <1>0, <3>1 DEF PoolInv, TypeOK, CallState
  <2>6. s = "acquiring" \/ (s = "checking" /\ ~ctx[c].parked)
    OBVIOUS
  <2>7. s = "acquiring" => ctx[c].parked
    OBVIOUS
  <2> HIDE DEF f, s, c
  <2>8. Enters(h)
    BY <2>1, <2>2, <2>3, <2>4, <2>5, <2>6, <2>7, PoolAssumption DEF Enters, c
  <2>9. ShapeOf(l)
    BY <2>1, <2>2, <2>5, <2>6, PoolAssumption DEF ShapeOf, Bare, ForSlot, Working, Kinds
  <2> QED
    BY <2>1, <2>2, <2>5, <2>6, <2>8, <2>9, PoolAssumption DEF Act, Own, Bound
<1>2. CASE EnterDead(h)
  <2>1. /\ k.pc = "locking" /\ k.what = "session" /\ HasLock(h) /\ k.whose \in Owner
        /\ entries[k.whose] # None /\ Discard(entries[k.whose], ctx[entries[k.whose]])
        /\ Await(h, entries[k.whose], "discarding")
    BY <1>0, <1>2 DEF EnterDead, Entering
  <2>2. entries'[k.whose] = None /\ entries[k.whose] \in Ctx \cup {None} /\ "discarding" \in Steps
    BY <2>1, DiscardFrees DEF PoolInv, TypeOK, Steps
  <2> QED
    BY <2>1, <2>2, StepAct
<1>3. CASE Forget(h)
  <2>1. /\ k.pc = "locking" /\ HasLock(h) /\ k.whose \in Owner /\ Await(h, entries[k.whose], "ending")
    BY <1>0, <1>3 DEF Forget, Entering
  <2>2. entries[k.whose] \in Ctx \cup {None} /\ "ending" \in Steps
    BY <2>1 DEF PoolInv, TypeOK, Steps
  <2> QED
    BY <2>1, <2>2, StepAct
<1>4. CASE EnterNew(h)
  <2>1. /\ k.pc = "locking" /\ HasLock(h) /\ Goto(h, "acquiring") /\ "acquiring" \in Steps
        /\ (k.what = "session" /\ entries'[k.whose] = None) \/ k.what = "verify"
    BY <1>4 DEF EnterNew, Entering, Steps
  <2> QED
    BY <2>1, StepAct
<1>5. CASE EnterNothing(h) \/ UnparkFails(h) \/ CheckFails(h) \/ Used(h)
           \/ QueueTimeout(h) \/ OpenFails(h) \/ Adopt(h)
           \/ (Awaited(h) /\ k.pc \in {"failing", "ending"})
  <2>1. Ends(h) /\ k.pc # "making room"
    BY <1>5 DEF EnterNothing, Entering, UnparkFails, CheckFails, Used, QueueTimeout, OpenFails,
                Adopt, Awaited, AfterUse
  <2> QED
    BY <2>1, EndsAct
<1>6. CASE TakeSlot(h) \/ Resume(h)
  <2>a. k.pc \in {"acquiring", "waiting"}
    BY <1>6 DEF TakeSlot, Resume, Resumed
  <2>1. HasLock(h) /\ "opening" \in Steps /\ "paging" \in Steps
    BY <1>0, <2>a DEF Steps
  <2>2. \/ k.at = None /\ Goto(h, "opening")
        \/ k.at # None /\ Goto(h, "paging")
    BY <1>6 DEF TakeSlot, Resume
  <2> QED
    BY <2>a, <2>1, <2>2, StepAct
<1>7. ASSUME Wait(h) \/ \E c \in Ctx : MakeRoom(h, c)  PROVE Act(h)
  <2>1. k.pc = "acquiring" /\ HasLock(h) /\ "waiting" \in Steps /\ "making room" \in Steps
    BY <1>0, <1>7 DEF Wait, MakeRoom, Steps
  <2>2. Goto(h, "waiting") \/ Goto(h, "making room")
    BY <1>7 DEF Wait, MakeRoom
  <2> QED
    BY <2>1, <2>2, StepAct
<1>8. ASSUME NEW c \in Ctx, Open(h, c)  PROVE Act(h)
  <2> DEFINE s == CASE k.what = "session" -> "checking"
                    [] k.what = "verify" -> "probing"
                    [] OTHER -> "using"
  <2>1. k.pc = "opening" /\ k.at = None /\ Unused(c) /\ HasLock(h)
    BY <1>0, <1>8 DEF Open, ShapeOf, Bare
  <2>2. /\ l.pc = s /\ l.at = c /\ l.what = k.what /\ l.whose = k.whose
        /\ \A g \in Call : g # h => call'[g] = call[g]
    BY <1>0, <1>8 DEF Open, PoolInv, TypeOK, CallState
  <2>3. ctx'[c] = Opened(k.whose)
    BY <1>8 DEF Open, PoolInv, TypeOK
  <2>4. /\ Opened(k.whose).inUse /\ ~Opened(k.whose).closing /\ Opened(k.whose).owner = k.whose
        /\ Opened(k.whose).slot /\ ~Opened(k.whose).parked
    BY DEF Opened, Closed
  <2>5. k.what \in {"session", "verify", "scratch"}
    BY <1>0, <2>1 DEF ShapeOf, Kinds
  <2>6. /\ k.what = "session" => s = "checking"
        /\ k.what = "verify" => s = "probing"
        /\ k.what = "scratch" => s = "using"
    OBVIOUS
  <2> HIDE DEF s
  <2>7. Opens(h)
    BY <2>1, <2>2, <2>3, <2>4, <2>5, <2>6 DEF Opens, ForSlot
  <2>8. ShapeOf(l)
    BY <1>0, <2>1, <2>2, <2>5, <2>6, PoolAssumption DEF ShapeOf, Bare, ForSlot, Working
  <2> QED
    BY <2>1, <2>2, <2>5, <2>6, <2>7, <2>8, PoolAssumption DEF Act, Own, Bound, ForSlot
<1>9. CASE Unpark(h) \/ SessionAlive(h) \/ SessionOver(h) \/ Login(h)
  <2>1. HasLock(h) /\ "checking" \in Steps /\ "using" \in Steps /\ "logging" \in Steps
    BY <1>0, <1>9 DEF Unpark, SessionAlive, SessionOver, Login, Steps
  <2>2. \/ k.pc = "paging" /\ Goto(h, "checking")
        \/ k.pc = "checking" /\ Goto(h, "using")
        \/ k.pc = "checking" /\ Goto(h, "logging")
        \/ k.pc = "logging" /\ Goto(h, "using")
    BY <1>9 DEF Unpark, SessionAlive, SessionOver, Login
  <2> QED
    BY <2>1, <2>2, StepAct
<1>10. CASE LoginFails(h)
  <2>1. /\ k.pc = "logging" /\ HasLock(h) /\ "failing" \in Steps
        /\ \E c \in Ctx \cup {None} : Await(h, c, "failing")
    BY <1>0, <1>10 DEF LoginFails, Steps
  <2> QED
    BY <2>1, StepAct
<1>11. CASE CloseContext(h)
  <2>a. /\ k.pc = "probing" \/ (k.pc = "using" /\ k.what = "scratch")
        /\ Await(h, k.at, "ending")
    BY <1>11 DEF CloseContext
  <2>1. HasLock(h) /\ "ending" \in Steps
    BY <1>0, <2>a DEF Steps
  <2> QED
    BY <1>0, <2>a, <2>1, StepAct
<1>12. CASE Proven(h)
  <2>1. /\ k.pc = "probing" /\ HasLock(h) /\ k.whose \in Owner /\ "replacing" \in Steps
        /\ entries[k.whose] # None /\ Discard(entries[k.whose], ctx[entries[k.whose]])
        /\ Await(h, entries[k.whose], "replacing")
    BY <1>0, <1>12 DEF Proven, ShapeOf, Steps
  <2>2. entries'[k.whose] = None /\ entries[k.whose] \in Ctx \cup {None}
    BY <2>1, DiscardFrees DEF PoolInv, TypeOK
  <2> QED
    BY <2>1, <2>2, StepAct
<1>13. CASE Awaited(h) /\ k.pc \notin {"failing", "ending"}
  <2>1. k.pc = "discarding" /\ HasLock(h) /\ Await(h, None, "acquiring") /\ "acquiring" \in Steps
    BY <1>0, <1>13 DEF Awaited, Steps
  <2> QED
    BY <2>1, StepAct
<1>14. ASSUME NEW kind \in KindsUsed, NEW o \in Owner \cup {None}, Arrive(h, kind, o)  PROVE Act(h)
  <2> DEFINE s == IF o = None THEN "acquiring" ELSE "locking"
  <2>1. k.pc = "none" /\ ((o = None) <=> (kind = "scratch")) /\ kind \in Kinds
    BY <1>14, PoolAssumption DEF Arrive
  <2>2. /\ l = [NoCall EXCEPT !.pc = s, !.what = kind, !.whose = o]
        /\ \A g \in Call : g # h => call'[g] = call[g]
    BY <1>14 DEF Arrive, PoolInv, TypeOK
  <2>3. l.pc = s /\ l.what = kind /\ l.whose = o /\ l.at = None
    <3>1. NoCall \in CallState /\ NoCall.at = None
      BY NoCallType DEF NoCall
    <3> HIDE DEF s
    <3> QED
      BY <2>2, <3>1 DEF CallState
  <2>4. (s = "acquiring" /\ o = None) \/ (s = "locking" /\ o # None)
    OBVIOUS
  <2> HIDE DEF s, l
  <2>5. ShapeOf(l)
    BY <2>1, <2>3, <2>4 DEF ShapeOf, Bare, ForSlot, Working
  <2>6. \A g \in Call : g # h => call'[g] = call[g]
    BY <2>2
  <2>7. ~Own(l) /\ ~Bound(l)
    BY <2>1, <2>3, <2>4 DEF Own, Bound, ForSlot
  <2> QED
    BY <2>1, <2>3, <2>4, <2>5, <2>6, <2>7 DEF Act, l
<1> QED
  BY <1>1, <1>2, <1>3, <1>4, <1>5, <1>6, <1>7, <1>8, <1>9, <1>10, <1>11, <1>12, <1>13, <1>14
  DEF CallStep

LEMMA ReturnAct ==
  ASSUME PoolInv, NEW p \in parks, ParkReturns(p), parks' = parks \ {p}
  PROVE  UNCHANGED call \/ \E h \in Call : Act(h)
<1>1. CASE p.by \notin Call
  BY <1>1 DEF ParkReturns
<1>2. CASE p.by \in Call
  <2> DEFINE h == p.by
             k == call[h]
             l == call'[h]
  <2>1. k.pc = "making room" /\ call' = [call EXCEPT ![h].pc = "acquiring"]
    BY <1>2 DEF ParkReturns, PoolInv, ParksInv
  <2>2. /\ l.pc = "acquiring" /\ l.at = k.at /\ l.what = k.what /\ l.whose = k.whose
        /\ \A g \in Call : g # h => call'[g] = call[g]
    BY <1>2, <2>1 DEF PoolInv, TypeOK, CallState
  <2>3. ShapeOf(k) /\ HasLock(h) /\ k \in CallState
    BY <1>2, <2>1, CallFacts
  <2> HIDE DEF h
  <2>4. ShapeOf(l)
    BY <2>1, <2>2, <2>3 DEF ShapeOf, Bare, ForSlot, Working
  <2>5. h \in Call /\ p.by = h
    BY <1>2 DEF h
  <2>6. Act(h)
    BY <2>1, <2>2, <2>3, <2>4, <2>5 DEF Act, Own, Bound, ForSlot
  <2> QED
    BY <2>5, <2>6
<1> QED
  BY <1>1, <1>2

LEMMA PoolActs ==
  ASSUME PoolInv, PoolStep
  PROVE  UNCHANGED call \/ \E h \in Call : Act(h)
<1>1. ASSUME NEW p \in parks, PageClosed(p)  PROVE UNCHANGED call \/ \E h \in Call : Act(h)
  <2> DEFINE entry == IF ctx[p.of].closing THEN ctx ELSE [ctx EXCEPT ![p.of] = ArmExpire(ctx[p.of])]
  <2>1. PICK V \in Surplus(entry) : TrimNext(p, entry, V)
    BY <1>1 DEF PageClosed
  <2> HIDE DEF entry
  <2>2. UNCHANGED call \/ (ParkReturns(p) /\ parks' = parks \ {p})
    BY <2>1 DEF TrimNext
  <2> QED
    BY <2>2, ReturnAct
<1>2. ASSUME NEW p \in parks, Trimmed(p)  PROVE UNCHANGED call \/ \E h \in Call : Act(h)
  <2>1. UNCHANGED call \/ (ParkReturns(p) /\ parks' = parks \ {p})
    BY <1>2 DEF Trimmed, TrimNext
  <2> QED
    BY <2>1, ReturnAct
<1> QED
  BY <1>1, <1>2 DEF PoolStep, IdleRuns, ExpireRuns, ContextClosed, IdleFires, ExpireFires,
                    BrowserGone, Tick

-----------------------------------------------------------------------------
(* What a step may do to the accounts' contexts, chains and parks. *)

\* The holder of an account's lock registers a context it has just opened, or
\* the one it has proven.
Takes(h, o, c) ==
  /\ HasLock(h) /\ call[h].whose = o /\ c \in Ctx /\ entries[o] = None
  /\ ctx'[c].owner = o /\ ~ctx'[c].closing
  /\ \/ call[h].pc = "opening" /\ call[h].what = "session" /\ Unused(c) /\ call'[h].at = c
     \/ call[h].at = c /\ call[h].what = "verify" /\ call'[h].pc = "none"

EntryMove(o) ==
  /\ \/ entries'[o] \in {None, entries[o]}
     \/ \E h \in Call : Takes(h, o, entries'[o])
  /\ entries[o] # None /\ entries'[o] # entries[o] => ctx'[entries[o]].closing

LEMMA SameEntry ==
  ASSUME UNCHANGED entries
  PROVE  \A o \in Owner : EntryMove(o)
BY DEF EntryMove

LEMMA DiscardEntry ==
  ASSUME PoolInv, NEW c \in Ctx, NEW e \in Entry, Discard(c, e)
  PROVE  \A o \in Owner : EntryMove(o)
<1>1. CASE e.closing
  BY <1>1, SameEntry DEF Discard
<1>2. CASE ~e.closing
  <2>1. /\ ctx'[c].closing
        /\ \A o \in Owner : entries'[o] = IF entries[o] = c THEN None ELSE entries[o]
    <3>1. /\ ctx' = [ctx EXCEPT ![c] = [CancelTimers(e) EXCEPT !.closing = TRUE, !.discarded = TRUE]]
          /\ entries' = [o \in Owner |-> IF entries[o] = c THEN None ELSE entries[o]]
      BY <1>2 DEF Discard
    <3> QED
      BY <3>1, ClosedFields DEF PoolInv, TypeOK
  <2> QED
    BY <2>1 DEF EntryMove
<1> QED
  BY <1>1, <1>2

LEMMA ParkEntry ==
  ASSUME PoolInv, NEW c \in Ctx, NEW e \in Entry, NEW by, Park(c, e, by)
  PROVE  \A o \in Owner : EntryMove(o)
BY SameEntry, DiscardEntry DEF Park

LEMMA AfterUseEntry ==
  ASSUME PoolInv, NEW h \in Call, call[h].at \in Ctx, NEW e \in Entry, AfterUse(h, e)
  PROVE  \A o \in Owner : EntryMove(o)
<1> DEFINE f == [e EXCEPT !.inUse = FALSE]
<1>1. f \in Entry
  BY UseFields
<1>2. UNCHANGED entries \/ Discard(call[h].at, f) \/ Park(call[h].at, f, None)
  BY DEF AfterUse
<1> HIDE DEF f
<1> QED
  BY <1>1, <1>2, SameEntry, DiscardEntry, ParkEntry

LEMMA CallEntries ==
  ASSUME PoolInv, NEW h \in Call, CallStep(h)
  PROVE  \A o \in Owner : EntryMove(o)
<1> DEFINE k == call[h]
<1>0. /\ ShapeOf(k) /\ k \in CallState
      /\ (k.pc \notin {"none", "locking"} => HasLock(h))
      /\ (k.what \in {"session", "verify", "forget"} => k.whose \in Owner)
      /\ k.at \in Ctx \cup {None}
  BY CallFacts DEF CallState
<1>a. k.at \in Ctx => ctx[k.at] \in Entry
  BY CtxFacts
<1>b. UNCHANGED entries => \A o \in Owner : EntryMove(o)
  BY SameEntry
<1>1. CASE EnterExisting(h) \/ EnterNew(h) \/ EnterNothing(h) \/ TakeSlot(h) \/ Wait(h) \/ Resume(h)
           \/ OpenFails(h) \/ Unpark(h) \/ SessionAlive(h) \/ SessionOver(h) \/ Login(h)
           \/ CloseContext(h) \/ (Awaited(h) /\ k.pc # "failing")
  BY <1>1, <1>b DEF EnterExisting, EnterNew, EnterNothing, TakeSlot, Wait, Resume, OpenFails, Unpark,
                    SessionAlive, SessionOver, Login, CloseContext, Awaited
<1>2. CASE EnterDead(h) \/ Forget(h) \/ Proven(h)
  <2>1. Discard(entries[k.whose], ctx[entries[k.whose]]) /\ entries[k.whose] # None
    BY <1>2 DEF EnterDead, Forget, Proven
  <2>2. k.whose \in Owner
    BY <1>0, <1>2 DEF EnterDead, Forget, Proven, Entering, ShapeOf
  <2>3. entries[k.whose] \in Ctx
    BY <2>1, <2>2 DEF PoolInv, TypeOK
  <2>4. ctx[entries[k.whose]] \in Entry
    BY <2>3, CtxFacts
  <2> QED
    BY <2>1, <2>3, <2>4, DiscardEntry
<1>3. CASE QueueTimeout(h)
  <2>1. CASE UNCHANGED entries
    BY <1>b, <2>1
  <2>2. CASE ~UNCHANGED entries
    <3> DEFINE f == [ctx[k.at] EXCEPT !.inUse = FALSE]
    <3>1. k.at \in Ctx /\ Discard(k.at, f)
      BY <1>0, <1>3, <2>2 DEF QueueTimeout
    <3>2. f \in Entry
      BY <1>a, <3>1, UseFields
    <3> HIDE DEF f
    <3> QED
      BY <3>1, <3>2, DiscardEntry
  <2> QED
    BY <2>1, <2>2
<1>4. CASE UnparkFails(h) \/ CheckFails(h) \/ Used(h) \/ (Awaited(h) /\ k.pc = "failing")
  <2>1. k.at \in Ctx
    BY <1>0, <1>4 DEF UnparkFails, CheckFails, Used, ShapeOf, Working
  <2>2. \E e \in Entry : AfterUse(h, e)
    <3>1. ctx[k.at] \in Entry
      BY <1>a, <2>1
    <3>2. /\ [ctx[k.at] EXCEPT !.discarded = TRUE] \in Entry
          /\ [ctx[k.at] EXCEPT !.stale = TRUE] \in Entry
      BY <3>1 DEF Entry
    <3> QED
      BY <1>4, <3>1, <3>2 DEF UnparkFails, CheckFails, Used, Awaited
  <2> QED
    BY <2>1, <2>2, AfterUseEntry
<1>5. CASE LoginFails(h)
  <2>1. k.at \in Ctx /\ Discard(k.at, ctx[k.at])
    BY <1>0, <1>5 DEF LoginFails, ShapeOf, Working
  <2> QED
    BY <1>a, <2>1, DiscardEntry
<1>6. ASSUME NEW c \in Ctx, MakeRoom(h, c)  PROVE \A o \in Owner : EntryMove(o)
  BY <1>6, CtxFacts, ParkEntry DEF MakeRoom
<1>7. ASSUME NEW c \in Ctx, Open(h, c)  PROVE \A o \in Owner : EntryMove(o)
  <2>1. CASE k.what # "session"
    BY <1>7, <1>b, <2>1 DEF Open
  <2>2. CASE k.what = "session"
    <3>1. /\ k.whose \in Owner /\ k.pc = "opening" /\ k.at = None /\ HasLock(h) /\ Unused(c)
          /\ entries' = [entries EXCEPT ![k.whose] = c]
      BY <1>0, <1>7, <2>2 DEF Open, ShapeOf, Bare
    <3>2. entries[k.whose] = None
      BY <2>2, <3>1 DEF PoolInv, RoomForNew, Bound
    <3>3. ctx'[c] = Opened(k.whose)
      BY <1>7 DEF Open, PoolInv, TypeOK
    <3>4. ctx'[c].owner = k.whose /\ ~ctx'[c].closing
      BY <3>3 DEF Opened, Closed
    <3>5. call'[h].at = c
      BY <1>7 DEF Open, PoolInv, TypeOK, CallState
    <3>6. Takes(h, k.whose, c)
      BY <2>2, <3>1, <3>2, <3>4, <3>5 DEF Takes
    <3>7. /\ entries'[k.whose] = c
          /\ \A o \in Owner : o # k.whose => entries'[o] = entries[o]
      BY <3>1 DEF PoolInv, TypeOK
    <3> QED
      BY <3>1, <3>2, <3>6, <3>7 DEF EntryMove
  <2> QED
    BY <2>1, <2>2
<1>8. CASE Adopt(h)
  <2>1. /\ k.whose \in Owner /\ k.what = "verify" /\ k.at \in Ctx /\ HasLock(h)
        /\ entries' = [entries EXCEPT ![k.whose] = k.at]
    BY <1>0, <1>8 DEF Adopt, ShapeOf, Working
  <2>2. entries[k.whose] = None
    BY <1>8 DEF Adopt, PoolInv, RoomForNew, Bound
  <2>3. ~ctx[k.at].closing /\ ctx[k.at].owner = k.whose
    BY <1>8, <2>1, PoolAssumption DEF Adopt, PoolInv, AtInv, Own
  <2>4. call'[h].pc = "none"
    BY <1>8 DEF Adopt, Ends, NoCall, PoolInv, TypeOK
  <2>5. ctx'[k.at].owner = k.whose /\ ~ctx'[k.at].closing
    <3>1. ctx'[k.at] = Handed(k.whose, ctx[k.at]) \/ ctx'[k.at] = Rested(k.whose, ctx[k.at])
      BY <1>8, <2>1 DEF Adopt, PoolInv, TypeOK, Handed, Rested
    <3> QED
      BY <1>a, <2>1, <3>1, AdoptedFields
  <2>6. Takes(h, k.whose, k.at)
    BY <2>1, <2>2, <2>4, <2>5 DEF Takes
  <2>7. /\ entries'[k.whose] = k.at
        /\ \A o \in Owner : o # k.whose => entries'[o] = entries[o]
    BY <2>1 DEF PoolInv, TypeOK
  <2> QED
    BY <2>1, <2>2, <2>6, <2>7 DEF EntryMove
<1>9. ASSUME NEW kind, NEW o, Arrive(h, kind, o)  PROVE \A oo \in Owner : EntryMove(oo)
  BY <1>9, <1>b DEF Arrive
<1> QED
  BY <1>1, <1>2, <1>3, <1>4, <1>5, <1>6, <1>7, <1>8, <1>9 DEF CallStep

LEMMA TrimEntry ==
  ASSUME PoolInv, NEW p \in parks, NEW entry, Armed(p, entry), NEW V \in SUBSET Ctx,
         TrimNext(p, entry, V)
  PROVE  \A o \in Owner : EntryMove(o)
<1>1. CASE UNCHANGED entries
  BY <1>1, SameEntry
<1>2. CASE ~UNCHANGED entries
  <2>1. PICK v \in V :
          /\ ctx' = [entry EXCEPT ![v] = [CancelTimers(entry[v]) EXCEPT !.closing = TRUE, !.discarded = TRUE]]
          /\ entries' = [o \in Owner |-> IF entries[o] = v THEN None ELSE entries[o]]
    BY <1>2 DEF TrimNext
  <2>2. entry[v] \in Entry /\ entry \in [Ctx -> Entry]
    BY DEF Armed
  <2>3. ctx'[v].closing
    BY <2>1, <2>2, ClosedFields
  <2>4. \A o \in Owner : entries'[o] = IF entries[o] = v THEN None ELSE entries[o]
    BY <2>1
  <2> QED
    BY <2>3, <2>4 DEF EntryMove
<1> QED
  BY <1>1, <1>2

LEMMA PoolEntries ==
  ASSUME PoolInv, PoolStep
  PROVE  \A o \in Owner : EntryMove(o)
<1>a. UNCHANGED entries => \A o \in Owner : EntryMove(o)
  BY SameEntry
<1>1. ASSUME NEW q \in Owner, NEW c \in Ctx, IdleRuns(q, c)  PROVE \A o \in Owner : EntryMove(o)
  BY <1>1, <1>a, CtxFacts, ParkEntry DEF IdleRuns
<1>2. ASSUME NEW q \in Owner, NEW c \in Ctx, ExpireRuns(q, c)  PROVE \A o \in Owner : EntryMove(o)
  BY <1>2, <1>a, CtxFacts, DiscardEntry DEF ExpireRuns
<1>3. ASSUME NEW p \in parks, PageClosed(p)  PROVE \A o \in Owner : EntryMove(o)
  <2> DEFINE entry == IF ctx[p.of].closing THEN ctx ELSE [ctx EXCEPT ![p.of] = ArmExpire(ctx[p.of])]
  <2>1. PICK V \in Surplus(entry) : TrimNext(p, entry, V)
    BY <1>3 DEF PageClosed
  <2>2. Armed(p, entry)
    BY PageEntry
  <2> HIDE DEF entry
  <2>3. V \in SUBSET Ctx
    BY SurplusIdle
  <2> QED
    BY <2>1, <2>2, <2>3, TrimEntry
<1>4. ASSUME NEW p \in parks, Trimmed(p)  PROVE \A o \in Owner : EntryMove(o)
  <2>1. TrimNext(p, ctx, p.victims) /\ p.victims \in SUBSET Ctx
    BY <1>4 DEF Trimmed, PoolInv, TypeOK, ParkRun
  <2>2. Armed(p, ctx)
    BY PageEntry
  <2> QED
    BY <2>1, <2>2, TrimEntry
<1>5. CASE BrowserGone
  <2> DEFINE registered == {c \in Ctx : \E o \in Owner : entries[o] = c}
             dropped == {c \in registered : ~ctx[c].inUse}
  <2>1. /\ \A c \in Ctx : c \in dropped =>
             ctx'[c] = [CancelTimers(ctx[c]) EXCEPT !.closing = TRUE, !.discarded = TRUE]
        /\ \A o \in Owner : entries'[o] = IF entries[o] \in dropped THEN None ELSE entries[o]
    BY <1>5 DEF BrowserGone
  <2>2. dropped \subseteq Ctx
    OBVIOUS
  <2> HIDE DEF dropped, registered
  <2>3. \A c \in dropped : ctx'[c].closing
    <3> SUFFICES ASSUME NEW c \in dropped  PROVE ctx'[c].closing
      OBVIOUS
    <3>1. c \in Ctx /\ ctx[c] \in Entry
      BY <2>2, CtxFacts
    <3> QED
      BY <2>1, <3>1, ClosedFields
  <2> QED
    BY <2>1, <2>3 DEF EntryMove
<1> QED
  BY <1>1, <1>2, <1>3, <1>4, <1>5, <1>a DEF PoolStep, ContextClosed, IdleFires, ExpireFires, Tick

\* A timer's task leaves its chain when the context it was for does not want it.
Spent(o, t) ==
  \E c \in Ctx :
    \/ t = IdleTask(c) /\ (entries[o] = c => ctx[c].inUse \/ ctx[c].parked)
    \/ t = ExpireTask(c) /\ (entries[o] = c => ctx[c].inUse)

QueueMove(o) ==
  \/ queue'[o] = queue[o]
  \/ \E t \in Task : queue'[o] = Append(queue[o], t)
  \/ /\ queue[o] # <<>> /\ queue'[o] = Tail(queue[o])
     /\ \/ \E h \in Call : call[h].whose = o /\ Head(queue[o]) = CallTask(h) /\ call'[h].pc = "none"
        \/ Spent(o, Head(queue[o])) /\ \A p \in parks' : p.by # o

LEMMA EndsQueue ==
  ASSUME PoolInv, NEW h \in Call, HasLock(h), Ends(h)
  PROVE  \A o \in Owner : QueueMove(o)
<1>1. CASE call[h].whose = None
  BY <1>1 DEF Ends, QueueMove
<1>2. CASE call[h].whose # None
  <2>1. call[h].whose \in Owner /\ call'[h].pc = "none"
    BY <1>2 DEF PoolInv, TypeOK, CallState, Ends, NoCall
  <2>2. queue[call[h].whose] # <<>> /\ Head(queue[call[h].whose]) = CallTask(h)
    BY <1>2 DEF HasLock
  <2>3. /\ queue'[call[h].whose] = Tail(queue[call[h].whose])
        /\ \A o \in Owner : o # call[h].whose => queue'[o] = queue[o]
    BY <1>2, <2>1 DEF Ends, PoolInv, TypeOK
  <2> QED
    BY <2>1, <2>2, <2>3 DEF QueueMove
<1> QED
  BY <1>1, <1>2

LEMMA AppendQueue ==
  ASSUME PoolInv, NEW o \in Owner, NEW t \in Task, queue' = [queue EXCEPT ![o] = Append(queue[o], t)]
  PROVE  \A q \in Owner : QueueMove(q)
BY DEF PoolInv, TypeOK, QueueMove

LEMMA SpendQueue ==
  ASSUME PoolInv, NEW o \in Owner, queue[o] # <<>>, Spent(o, Head(queue[o])),
         \A p \in parks' : p.by # o, queue' = [queue EXCEPT ![o] = Tail(queue[o])]
  PROVE  \A q \in Owner : QueueMove(q)
BY DEF PoolInv, TypeOK, QueueMove

LEMMA CallQueues ==
  ASSUME PoolInv, NEW h \in Call, CallStep(h)
  PROVE  \A o \in Owner : QueueMove(o)
<1> DEFINE k == call[h]
<1>0. k.pc \notin {"none", "locking"} => HasLock(h)
  BY CallFacts
<1>a. UNCHANGED queue => \A o \in Owner : QueueMove(o)
  BY DEF QueueMove
<1>1. CASE EnterExisting(h) \/ EnterDead(h) \/ EnterNew(h) \/ Forget(h) \/ TakeSlot(h) \/ Wait(h)
           \/ Resume(h) \/ Unpark(h) \/ SessionAlive(h) \/ SessionOver(h) \/ Login(h)
           \/ LoginFails(h) \/ CloseContext(h) \/ Proven(h) \/ (Awaited(h) /\ k.pc = "discarding")
  BY <1>1, <1>a DEF EnterExisting, EnterDead, EnterNew, Forget, TakeSlot, Wait, Resume, Unpark,
                    SessionAlive, SessionOver, Login, LoginFails, CloseContext, Proven, Awaited
<1>2. CASE EnterNothing(h) \/ UnparkFails(h) \/ CheckFails(h) \/ Used(h)
           \/ QueueTimeout(h) \/ OpenFails(h) \/ Adopt(h)
           \/ (Awaited(h) /\ k.pc # "discarding")
  <2>1. Ends(h) /\ (k.pc \notin {"none", "locking"} \/ HasLock(h))
    BY <1>2 DEF EnterNothing, Entering, UnparkFails, CheckFails, Used, QueueTimeout, OpenFails,
                Adopt, Awaited, AfterUse
  <2> QED
    BY <1>0, <2>1, EndsQueue
<1>3. ASSUME NEW c \in Ctx, MakeRoom(h, c) \/ Open(h, c)  PROVE \A o \in Owner : QueueMove(o)
  BY <1>3, <1>a DEF MakeRoom, Open
<1>4. ASSUME NEW kind \in KindsUsed, NEW o \in Owner \cup {None}, Arrive(h, kind, o)
      PROVE \A q \in Owner : QueueMove(q)
  <2>1. CASE o = None
    BY <1>4, <1>a, <2>1 DEF Arrive
  <2>2. CASE o # None
    BY <1>4, <2>2, TaskFacts, AppendQueue DEF Arrive
  <2> QED
    BY <2>1, <2>2
<1> QED
  BY <1>1, <1>2, <1>3, <1>4 DEF CallStep

LEMMA ReturnQueue ==
  ASSUME PoolInv, NEW p \in parks, ParkReturns(p), parks' = parks \ {p}
  PROVE  \A o \in Owner : QueueMove(o)
<1>1. CASE p.by \notin Owner
  BY <1>1 DEF ParkReturns, QueueMove
<1>2. CASE p.by \in Owner
  <2>1. /\ queue[p.by] # <<>>
        /\ \E c \in Ctx :
             \/ Head(queue[p.by]) = IdleTask(c) /\ (entries[p.by] = c => ctx[c].parked)
             \/ Head(queue[p.by]) = ExpireTask(c) /\ entries[p.by] # c
    BY <1>2 DEF PoolInv, ParksInv
  <2>2. Spent(p.by, Head(queue[p.by]))
    BY <2>1 DEF Spent
  <2>3. \A q \in parks' : q.by # p.by
    BY <1>2, PoolAssumption DEF PoolInv, ParksInv
  <2>4. queue' = [queue EXCEPT ![p.by] = Tail(queue[p.by])]
    BY <1>2 DEF ParkReturns
  <2> QED
    BY <1>2, <2>1, <2>2, <2>3, <2>4, SpendQueue
<1> QED
  BY <1>1, <1>2

LEMMA PoolQueues ==
  ASSUME PoolInv, PoolStep
  PROVE  \A o \in Owner : QueueMove(o)
<1>a. UNCHANGED queue => \A o \in Owner : QueueMove(o)
  BY DEF QueueMove
<1>b. ASSUME NEW o \in Owner, NEW c \in Ctx, IdleRuns(o, c) \/ ExpireRuns(o, c)
      PROVE  \A q \in Owner : QueueMove(q)
  <2>1. CASE UNCHANGED queue
    BY <1>a, <2>1
  <2>2. CASE ~UNCHANGED queue
    <3>1. /\ queue[o] # <<>> /\ queue' = [queue EXCEPT ![o] = Tail(queue[o])]
          /\ UNCHANGED parks /\ \A p \in parks : p.by # o
      BY <1>b, <2>2 DEF IdleRuns, ExpireRuns, TimerTurn
    <3>2. Spent(o, Head(queue[o]))
      <4>1. CASE IdleRuns(o, c)
        <5>1. entries[o] = c => ctx[c].inUse \/ ctx[c].parked
          BY <2>2, <4>1, PoolAssumption DEF IdleRuns, PoolInv, RegInv
        <5> QED
          BY <4>1, <5>1 DEF IdleRuns, TimerTurn, Spent
      <4>2. CASE ExpireRuns(o, c)
        <5>1. entries[o] = c => ctx[c].inUse
          BY <2>2, <4>2, PoolAssumption DEF ExpireRuns, PoolInv, RegInv
        <5> QED
          BY <4>2, <5>1 DEF ExpireRuns, TimerTurn, Spent
      <4> QED
        BY <1>b, <4>1, <4>2
    <3> QED
      BY <3>1, <3>2, SpendQueue
  <2> QED
    BY <2>1, <2>2
<1>1. ASSUME NEW c \in Ctx, IdleFires(c) \/ ExpireFires(c)  PROVE \A q \in Owner : QueueMove(q)
  <2>1. 0 # Off
    BY PoolAssumption DEF Off
  <2>2. ctx[c].owner \in Owner
    BY <1>1, <2>1, CtxFacts DEF IdleFires, ExpireFires
  <2>3. \E t \in Task : queue' = [queue EXCEPT ![ctx[c].owner] = Append(queue[ctx[c].owner], t)]
    BY <1>1, TaskFacts DEF IdleFires, ExpireFires
  <2> QED
    BY <2>2, <2>3, AppendQueue
<1>2. ASSUME NEW p \in parks, PageClosed(p)  PROVE \A q \in Owner : QueueMove(q)
  <2> DEFINE entry == IF ctx[p.of].closing THEN ctx ELSE [ctx EXCEPT ![p.of] = ArmExpire(ctx[p.of])]
  <2>1. PICK V \in Surplus(entry) : TrimNext(p, entry, V)
    BY <1>2 DEF PageClosed
  <2> HIDE DEF entry
  <2>2. UNCHANGED queue \/ (ParkReturns(p) /\ parks' = parks \ {p})
    BY <2>1 DEF TrimNext
  <2> QED
    BY <1>a, <2>2, ReturnQueue
<1>3. ASSUME NEW p \in parks, Trimmed(p)  PROVE \A q \in Owner : QueueMove(q)
  <2>1. UNCHANGED queue \/ (ParkReturns(p) /\ parks' = parks \ {p})
    BY <1>3 DEF Trimmed, TrimNext
  <2> QED
    BY <1>a, <2>1, ReturnQueue
<1>4. ASSUME UNCHANGED queue  PROVE \A q \in Owner : QueueMove(q)
  BY <1>4 DEF QueueMove
<1>5. CASE BrowserGone \/ Tick \/ (\E c \in Ctx : ContextClosed(c))
  BY <1>4, <1>5 DEF ContextClosed, BrowserGone, Tick
<1> QED
  BY <1>b, <1>1, <1>2, <1>3, <1>5 DEF PoolStep

\* Who may come to await a park, and a park that goes on.
Awaits(n) ==
  \/ n.by = None
  \/ /\ n.by \in Call /\ call[n.by].pc # "making room" /\ call'[n.by].pc = "making room"
  \/ /\ n.by \in Owner /\ (\A p \in parks : p.by # n.by)
     /\ queue[n.by] # <<>> /\ queue'[n.by] = queue[n.by]
     /\ \E c \in Ctx :
          \/ Head(queue[n.by]) = IdleTask(c) /\ (entries'[n.by] = c => ctx'[c].parked)
          \/ Head(queue[n.by]) = ExpireTask(c) /\ entries'[n.by] # c

ParksMove ==
  \/ parks' = parks
  \/ \E n \in ParkRun :
       /\ parks' = parks \cup {n} /\ n.victims = {} /\ Awaits(n)
       /\ ctx[n.of].closing \/ ctx[n.of].owner \in Owner
       /\ Registered(n.of) \/ \E h \in Call : call[h].at = n.of
  \/ \E p \in parks : parks' = parks \ {p}
  \/ \E p \in parks, n \in ParkRun :
       /\ parks' = (parks \ {p}) \cup {n} /\ n.by = p.by /\ n.of = p.of
       /\ \A v \in n.victims : v \in p.victims \/ Registered(v)
       /\ UNCHANGED <<call, queue>>

\* #park leaves the context parked, or out of the pool.
LEMMA ParkAdds ==
  ASSUME PoolInv, NEW c \in Ctx, NEW e \in Entry, NEW by \in Call \cup Owner \cup {None},
         ~e.closing, Park(c, e, by)
  PROVE  /\ \E n \in ParkRun :
              parks' = parks \cup {n} /\ n.of = c /\ n.by = by /\ n.victims = {}
         /\ \A o \in Owner : entries'[o] = c => ctx'[c].parked
<1>1. CASE Live(e)
  <2> DEFINE n == [of |-> c, by |-> by, stage |-> "page", wait |-> None, victims |-> {}]
  <2>1. parks' = parks \cup {n}
    BY <1>1 DEF Park
  <2>2. n \in ParkRun /\ n.of = c /\ n.by = by /\ n.victims = {}
    BY DEF ParkRun
  <2>3. ctx' = [ctx EXCEPT ![c] = [CancelTimers(e) EXCEPT !.parked = TRUE, !.slot = FALSE]]
    BY <1>1 DEF Park
  <2>4. ctx'[c].parked
    BY <2>3 DEF Entry, CancelTimers, PoolInv, TypeOK
  <2> HIDE DEF n
  <2> QED
    BY <2>1, <2>2, <2>4
<1>2. CASE ~Live(e)
  <2> DEFINE n == [of |-> c, by |-> by, stage |-> "trim", wait |-> c, victims |-> {}]
  <2>1. parks' = parks \cup {n}
    BY <1>2 DEF Park
  <2>2. n \in ParkRun /\ n.of = c /\ n.by = by /\ n.victims = {}
    BY DEF ParkRun
  <2>3. \A o \in Owner : entries'[o] # c
    BY <1>2, PoolAssumption DEF Park, Discard
  <2> HIDE DEF n
  <2> QED
    BY <2>1, <2>2, <2>3
<1> QED
  BY <1>1, <1>2

LEMMA AfterUseParks ==
  ASSUME PoolInv, NEW h \in Call, call[h].at \in Ctx, call[h].whose \in Owner,
         NEW e \in Entry, Like(e, call[h].at), AfterUse(h, e)
  PROVE  ParksMove
<1> DEFINE f == [e EXCEPT !.inUse = FALSE]
           c == call[h].at
<1>1. f \in Entry /\ Like(f, c)
  BY UseFields
<1>2. UNCHANGED parks \/ (~f.closing /\ Park(c, f, None))
  BY DEF AfterUse
<1> HIDE DEF f
<1>3. CASE UNCHANGED parks
  BY <1>3 DEF ParksMove
<1>4. CASE ~f.closing /\ Park(c, f, None)
  <2>1. PICK n \in ParkRun : parks' = parks \cup {n} /\ n.of = c /\ n.by = None /\ n.victims = {}
    BY <1>1, <1>4, ParkAdds
  <2>2. ctx[c].owner \in Owner
    BY <1>1, <1>4, CallFacts, PoolAssumption DEF Like
  <2> QED
    BY <2>1, <2>2 DEF ParksMove, Awaits
<1> QED
  BY <1>2, <1>3, <1>4

LEMMA CallParks ==
  ASSUME PoolInv, NEW h \in Call, CallStep(h)
  PROVE  ParksMove
<1> DEFINE k == call[h]
<1>0. /\ ShapeOf(k) /\ k \in CallState
      /\ (k.what \in {"session", "verify", "forget"} => k.whose \in Owner)
      /\ k.at \in Ctx \cup {None}
  BY CallFacts DEF CallState
<1>1. CASE EnterExisting(h) \/ EnterDead(h) \/ EnterNew(h) \/ EnterNothing(h) \/ Forget(h)
           \/ TakeSlot(h) \/ Wait(h) \/ Resume(h) \/ QueueTimeout(h) \/ OpenFails(h) \/ Unpark(h)
           \/ SessionAlive(h) \/ SessionOver(h) \/ Login(h) \/ LoginFails(h) \/ CloseContext(h)
           \/ Proven(h) \/ (Awaited(h) /\ k.pc # "failing")
  BY <1>1 DEF EnterExisting, EnterDead, EnterNew, EnterNothing, Forget, TakeSlot, Wait, Resume,
              QueueTimeout, OpenFails, Unpark, SessionAlive, SessionOver, Login, LoginFails,
              CloseContext, Proven, Awaited, ParksMove
<1>2. CASE UnparkFails(h) \/ CheckFails(h) \/ Used(h) \/ (Awaited(h) /\ k.pc = "failing")
  <2>1. k.at \in Ctx /\ k.whose \in Owner
    BY <1>0, <1>2 DEF UnparkFails, CheckFails, Used, ShapeOf, Working
  <2>2. \E e \in Entry : AfterUse(h, e) /\ Like(e, k.at)
    <3>1. ctx[k.at] \in Entry /\ Like(ctx[k.at], k.at)
      BY <2>1, CtxFacts
    <3>2. /\ [ctx[k.at] EXCEPT !.discarded = TRUE] \in Entry
          /\ [ctx[k.at] EXCEPT !.stale = TRUE] \in Entry
          /\ Like([ctx[k.at] EXCEPT !.discarded = TRUE], k.at)
          /\ Like([ctx[k.at] EXCEPT !.stale = TRUE], k.at)
      BY <3>1 DEF Entry, Like
    <3>3. CASE UnparkFails(h)
      BY <3>2, <3>3 DEF UnparkFails
    <3>4. CASE CheckFails(h)
      BY <3>1, <3>4 DEF CheckFails
    <3>5. CASE Used(h)
      BY <3>1, <3>2, <3>5 DEF Used
    <3>6. CASE Awaited(h) /\ k.pc = "failing"
      BY <3>1, <3>6 DEF Awaited
    <3> QED
      BY <1>2, <3>3, <3>4, <3>5, <3>6
  <2> QED
    BY <2>1, <2>2, AfterUseParks
<1>3. ASSUME NEW c \in Ctx, MakeRoom(h, c)  PROVE ParksMove
  <2>1. ~ctx[c].closing /\ Registered(c) /\ Park(c, ctx[c], h) /\ k.pc = "acquiring"
    BY <1>3 DEF MakeRoom, Idle, Registered
  <2>2. PICK n \in ParkRun : parks' = parks \cup {n} /\ n.of = c /\ n.by = h /\ n.victims = {}
    BY <2>1, CtxFacts, ParkAdds
  <2>3. call'[h].pc = "making room"
    BY <1>3 DEF MakeRoom, Goto, PoolInv, TypeOK, CallState
  <2>4. ctx[c].owner \in Owner
    BY <2>1, PoolAssumption DEF Registered, PoolInv, RegInv
  <2> QED
    BY <2>1, <2>2, <2>3, <2>4 DEF ParksMove, Awaits
<1>4. CASE Adopt(h)
  <2> DEFINE n == [of |-> k.at, by |-> None, stage |-> "page", wait |-> None, victims |-> {}]
  <2>1. k.at \in Ctx /\ k.whose \in Owner
    BY <1>0, <1>4 DEF Adopt, ShapeOf, Working
  <2>2. n \in ParkRun /\ n.of = k.at /\ n.by = None /\ n.victims = {}
    BY <2>1 DEF ParkRun
  <2>3. parks' = parks \/ parks' = parks \cup {n}
    BY <1>4 DEF Adopt
  <2>4. ctx[k.at].closing \/ ctx[k.at].owner \in Owner
    BY <2>1, CallFacts, PoolAssumption
  <2> HIDE DEF n
  <2> QED
    BY <2>2, <2>3, <2>4 DEF ParksMove, Awaits
<1>5. ASSUME NEW c, Open(h, c)  PROVE ParksMove
  BY <1>5 DEF Open, ParksMove
<1>6. ASSUME NEW kind, NEW o, Arrive(h, kind, o)  PROVE ParksMove
  BY <1>6 DEF Arrive, ParksMove
<1> QED
  BY <1>1, <1>2, <1>3, <1>4, <1>5, <1>6 DEF CallStep

LEMMA TrimParks ==
  ASSUME PoolInv, NEW p \in parks, NEW entry, NEW V \in SUBSET Ctx, TrimNext(p, entry, V),
         \A v \in V : v \in p.victims \/ Registered(v)
  PROVE  ParksMove
<1>1. CASE parks' = parks \ {p}
  BY <1>1 DEF ParksMove
<1>2. CASE parks' # parks \ {p}
  <2>1. PICK v \in V :
          /\ parks' = (parks \ {p}) \cup
               {[p EXCEPT !.stage = "trim", !.wait = v, !.victims = V \ {v}]}
          /\ UNCHANGED <<call, queue>>
    BY <1>2 DEF TrimNext
  <2> DEFINE n == [p EXCEPT !.stage = "trim", !.wait = v, !.victims = V \ {v}]
  <2>2. p \in ParkRun
    BY DEF PoolInv, TypeOK
  <2>3. n \in ParkRun /\ n.by = p.by /\ n.of = p.of /\ n.victims = V \ {v}
    BY <2>2 DEF ParkRun
  <2>4. parks' = (parks \ {p}) \cup {n}
    BY <2>1
  <2> HIDE DEF n
  <2> QED
    BY <2>1, <2>3, <2>4 DEF ParksMove
<1> QED
  BY <1>1, <1>2

LEMMA PoolParks ==
  ASSUME PoolInv, PoolStep
  PROVE  ParksMove
<1>1. ASSUME NEW o \in Owner, NEW c \in Ctx, IdleRuns(o, c) \/ ExpireRuns(o, c)  PROVE ParksMove
  <2>1. CASE UNCHANGED parks
    BY <2>1 DEF ParksMove
  <2>2. CASE ~UNCHANGED parks
    <3>1. /\ entries[o] = c /\ ~ctx[c].closing /\ UNCHANGED queue
          /\ queue[o] # <<>> /\ \A p \in parks : p.by # o
      BY <1>1, <2>2 DEF IdleRuns, ExpireRuns, TimerTurn
    <3>2. ctx[c].owner \in Owner /\ ctx[c] \in Entry /\ Registered(c)
      BY <3>1, CtxFacts, PoolAssumption DEF PoolInv, RegInv, Registered
    <3>3. CASE IdleRuns(o, c)
      <4>1. Park(c, ctx[c], o) /\ Head(queue[o]) = IdleTask(c)
        BY <2>2, <3>3 DEF IdleRuns, TimerTurn
      <4>a. o \in Call \cup Owner \cup {None} /\ ~ctx[c].closing /\ ctx[c] \in Entry
        BY <3>1, <3>2
      <4>b. /\ \E n \in ParkRun : parks' = parks \cup {n} /\ n.of = c /\ n.by = o /\ n.victims = {}
            /\ \A q \in Owner : entries'[q] = c => ctx'[c].parked
        BY <4>1, <4>a, ParkAdds
      <4>2. PICK n \in ParkRun : parks' = parks \cup {n} /\ n.of = c /\ n.by = o /\ n.victims = {}
        BY <4>b
      <4>3. entries'[o] = c => ctx'[c].parked
        BY <4>b
      <4>4. Awaits(n)
        BY <3>1, <4>1, <4>2, <4>3 DEF Awaits
      <4> QED
        BY <3>2, <4>2, <4>4 DEF ParksMove
    <3>4. CASE ExpireRuns(o, c)
      <4> DEFINE n == [of |-> c, by |-> o, stage |-> "trim", wait |-> c, victims |-> {}]
      <4>1. Discard(c, ctx[c]) /\ Head(queue[o]) = ExpireTask(c) /\ parks' = parks \cup {n}
        BY <2>2, <3>4 DEF ExpireRuns, TimerTurn
      <4>2. n \in ParkRun /\ n.of = c /\ n.by = o /\ n.victims = {}
        BY DEF ParkRun
      <4>3. entries'[o] # c
        BY <3>1, <4>1, PoolAssumption DEF Discard
      <4> HIDE DEF n
      <4>4. Awaits(n)
        BY <3>1, <4>1, <4>2, <4>3 DEF Awaits
      <4> QED
        BY <3>2, <4>1, <4>2, <4>4 DEF ParksMove
    <3> QED
      BY <1>1, <3>3, <3>4
  <2> QED
    BY <2>1, <2>2
<1>2. ASSUME NEW p \in parks, PageClosed(p)  PROVE ParksMove
  <2> DEFINE entry == IF ctx[p.of].closing THEN ctx ELSE [ctx EXCEPT ![p.of] = ArmExpire(ctx[p.of])]
  <2>1. PICK V \in Surplus(entry) : TrimNext(p, entry, V)
    BY <1>2 DEF PageClosed
  <2> HIDE DEF entry
  <2>2. V \in SUBSET Ctx /\ \A v \in V : Registered(v)
    BY SurplusIdle
  <2> QED
    BY <2>1, <2>2, TrimParks
<1>3. ASSUME NEW p \in parks, Trimmed(p)  PROVE ParksMove
  <2>1. TrimNext(p, ctx, p.victims) /\ p.victims \in SUBSET Ctx
    BY <1>3 DEF Trimmed, PoolInv, TypeOK, ParkRun
  <2> QED
    BY <2>1, TrimParks
<1> QED
  BY <1>1, <1>2, <1>3 DEF PoolStep, ContextClosed, IdleFires, ExpireFires, BrowserGone, Tick, ParksMove

-----------------------------------------------------------------------------
(* The invariant is kept. *)

Moves ==
  /\ \A c \in Ctx : CtxMove(c)
  /\ \A o \in Owner : EntryMove(o) /\ QueueMove(o)
  /\ ParksMove
  /\ UNCHANGED call \/ \E h \in Call : Act(h)

LEMMA NextMoves ==
  ASSUME PoolInv, Next
  PROVE  Moves /\ TypeOK'
<1>1. CASE \E h \in Call : CallStep(h)
  <2>1. StateOK'
    BY <1>1, CallStepType DEF PoolInv
  <2>2. Moves
    BY <1>1, CallCtxMoves, CallEntries, CallQueues, CallParks, CallActs DEF Moves
  <2> QED
    BY <2>1, <2>2, BoundsKept DEF PoolInv, TypeOK, StateOK, BoundsOK
<1>2. CASE PoolStep
  <2>1. StateOK'
    BY <1>2, PoolStepType DEF PoolInv
  <2>2. Moves
    BY <1>2, PoolCtxMoves, PoolEntries, PoolQueues, PoolParks, PoolActs DEF Moves
  <2> QED
    BY <2>1, <2>2, BoundsKept DEF PoolInv, TypeOK, StateOK, BoundsOK
<1> QED
  BY <1>1, <1>2, NextSteps

LEMMA ShapeKept ==
  ASSUME PoolInv, Moves
  PROVE  CallShape'
BY DEF PoolInv, Moves, Act, CallShape

\* A chain's head stays until its call or its timer's task is done.
LEMMA HeadKept ==
  ASSUME PoolInv, Moves, NEW o \in Owner, queue[o] # <<>>,
         \/ \E h \in Call : Head(queue[o]) = CallTask(h) /\ call'[h].pc # "none"
         \/ \E c \in Ctx : /\ Head(queue[o]) \in {IdleTask(c), ExpireTask(c)}
                           /\ \E p \in parks' : p.by = o
  PROVE  queue'[o] # <<>> /\ Head(queue'[o]) = Head(queue[o])
<1>1. QueueMove(o) /\ queue[o] \in Seq(Task)
  BY DEF Moves, PoolInv, TypeOK
<1>2. CASE queue'[o] = queue[o]
  BY <1>2
<1>3. CASE \E t \in Task : queue'[o] = Append(queue[o], t)
  BY <1>1, <1>3, ChainAppend
<1>4. ASSUME NEW h \in Call, Head(queue[o]) = CallTask(h), call'[h].pc = "none"  PROVE FALSE
  BY <1>4, TaskFacts
<1>5. ASSUME Spent(o, Head(queue[o])), \A p \in parks' : p.by # o  PROVE FALSE
  BY <1>5, TaskFacts DEF Spent
<1> QED
  BY <1>1, <1>2, <1>3, <1>4, <1>5 DEF QueueMove

LEMMA LocksKept ==
  ASSUME PoolInv, Moves
  PROVE  LocksHeld'
<1> SUFFICES ASSUME NEW g \in Call, call'[g].pc \notin {"none", "locking"}, call'[g].whose # None
             PROVE  queue'[call'[g].whose] # <<>> /\ Head(queue'[call'[g].whose]) = CallTask(g)
  BY DEF LocksHeld, HasLock
<1>1. call'[g].whose = call[g].whose /\ HasLock(g)
  <2>1. CASE call'[g] = call[g]
    BY <2>1, CallFacts
  <2>2. CASE call'[g] # call[g]
    <3>1. Act(g)
      BY <2>2 DEF Moves, Act
    <3> QED
      BY <3>1 DEF Act
  <2> QED
    BY <2>1, <2>2
<1>2. call[g].whose \in Owner
  BY <1>1 DEF PoolInv, TypeOK, CallState
<1>3. queue[call[g].whose] # <<>> /\ Head(queue[call[g].whose]) = CallTask(g)
  BY <1>1 DEF HasLock
<1> QED
  BY <1>1, <1>2, <1>3, HeadKept

LEMMA RegKept ==
  ASSUME PoolInv, Moves, TypeOK'
  PROVE  RegInv'
<1>1. ASSUME NEW o \in Owner, entries'[o] # None
      PROVE  ctx'[entries'[o]].owner = o /\ ~ctx'[entries'[o]].closing
  <2>1. CASE entries'[o] = entries[o]
    <3>1. entries[o] \in Ctx /\ ctx[entries[o]].owner = o /\ ~ctx[entries[o]].closing
      BY <1>1, <2>1 DEF PoolInv, TypeOK, RegInv
    <3> QED
      BY <2>1, <3>1 DEF Moves, CtxMove
  <2>2. CASE entries'[o] # entries[o]
    BY <1>1, <2>2 DEF Moves, EntryMove, Takes
  <2> QED
    BY <2>1, <2>2
<1>2. \A c \in Ctx : ctx'[c].closed => ctx'[c].closing
  BY DEF Moves, CtxMove
<1> QED
  BY <1>1, <1>2 DEF RegInv

\* What somebody looks at is not opened anew.
LEMMA StaysClosing ==
  ASSUME PoolInv, Moves, NEW c \in Ctx, ctx[c].closing,
         \/ \E g \in Call : call[g].at = c
         \/ \E p \in parks : c = p.of \/ c \in p.victims
  PROVE  ctx'[c].closing
<1>1. Referenced(c)
  BY DEF Referenced
<1> QED
  BY <1>1 DEF Moves, CtxMove, Unused

\* Where a call's context comes from.
LEMMA AtMoves ==
  ASSUME PoolInv, Moves, TypeOK', NEW g \in Call, call'[g].at # None
  PROVE  /\ call'[g].at \in Ctx /\ call'[g].pc \notin {"none", "locking"}
         /\ call'[g].whose = call[g].whose /\ call'[g].what = call[g].what
         /\ HasLock(g)
         /\ \/ call'[g] = call[g]
            \/ Act(g) /\ (call'[g].at = call[g].at \/ Enters(g) \/ Opens(g))
<1>1. call'[g].at \in Ctx
  BY DEF TypeOK, CallState
<1>2. call'[g].pc \notin {"none", "locking"}
  BY ShapeKept DEF CallShape, ShapeOf, Bare
<1>3. CASE call'[g] = call[g]
  BY <1>1, <1>2, <1>3, CallFacts
<1>4. CASE call'[g] # call[g]
  <2>1. Act(g)
    BY ZenonT(30), <1>4 DEF Moves, Act
  <2> QED
    BY <1>1, <1>2, <2>1 DEF Act
<1> QED
  BY <1>3, <1>4

LEMMA EntersFacts ==
  ASSUME PoolInv, NEW g \in Call, HasLock(g), Enters(g)
  PROVE  LET c == call'[g].at IN
         /\ call[g].whose \in Owner /\ c = entries[call[g].whose] /\ c \in Ctx
         /\ ctx[c].owner = call[g].whose /\ ~ctx[c].closing
         /\ \A h \in Call : call[h].at # c
<1> DEFINE c == call'[g].at
<1>1. call[g].whose \in Owner /\ c = entries[call[g].whose] /\ c # None /\ call[g].at = None
  BY CallFacts DEF Enters
<1>2. c \in Ctx /\ ctx[c].owner = call[g].whose /\ ~ctx[c].closing
  BY <1>1 DEF PoolInv, TypeOK, RegInv
<1>3. ASSUME NEW h \in Call, call[h].at = c  PROVE FALSE
  <2>1. call[h].whose = call[g].whose /\ HasLock(h)
    BY <1>1, <1>3, SoleUser
  <2>2. h = g
    BY <1>1, <2>1, OneHolder, PoolAssumption
  <2> QED
    BY <1>1, <1>3, <2>2
<1> QED
  BY <1>1, <1>2, <1>3

LEMMA OpensFacts ==
  ASSUME PoolInv, NEW g \in Call, Opens(g)
  PROVE  LET c == call'[g].at IN
         /\ c \in Ctx /\ ctx[c].closing /\ ~Registered(c)
         /\ \A h \in Call : call[h].at # c
<1> DEFINE c == call'[g].at
<1>1. c \in Ctx /\ ctx[c].closing /\ ~Referenced(c)
  BY CtxFacts DEF Opens, Unused
<1>2. ~Registered(c)
  BY <1>1, PoolAssumption DEF Registered, PoolInv, RegInv
<1>3. \A h \in Call : call[h].at # c
  BY <1>1 DEF Referenced
<1> QED
  BY <1>1, <1>2, <1>3

LEMMA AtUnique ==
  ASSUME PoolInv, Moves, TypeOK', NEW g \in Call, NEW h \in Call,
         call'[g].at = call'[h].at, call'[g].at # None
  PROVE  g = h
<1>1. CASE call'[g].at = call[g].at /\ call'[h].at = call[h].at
  BY <1>1, CallFacts
<1>2. CASE call'[g].at # call[g].at /\ call'[h].at # call[h].at
  BY <1>2 DEF Moves, Act
<1>3. ASSUME NEW f \in Call, NEW e \in Call, call'[f].at # call[f].at, call'[e].at = call[e].at,
             call'[f].at = call'[e].at, call'[f].at # None
      PROVE  FALSE
  <2>1. HasLock(f) /\ (Enters(f) \/ Opens(f))
    BY <1>3, AtMoves
  <2> QED
    BY <1>3, <2>1, EntersFacts, OpensFacts
<1> QED
  BY <1>1, <1>2, <1>3

LEMMA InUseStays ==
  ASSUME PoolInv, Moves, TypeOK', NEW g \in Call, call'[g].at # None
  PROVE  LET c == call'[g].at IN
         ctx'[c].closing \/ (ctx'[c].inUse /\ ctx'[c].owner = call'[g].whose)
<1> DEFINE c == call'[g].at
<1>1. /\ c \in Ctx /\ call'[g].pc # "none" /\ call'[g].whose = call[g].whose /\ HasLock(g)
      /\ c = call[g].at \/ Enters(g) \/ Opens(g)
  BY AtMoves
<1>2. CASE c = call[g].at
  <2>1. ctx[c].closing \/ (ctx[c].inUse /\ ctx[c].owner = call[g].whose)
    BY <1>2, CallFacts
  <2>2. ctx[c].closing => ctx'[c].closing
    BY <1>1, <1>2, StaysClosing
  <2>3. CtxMove(c)
    BY <1>1 DEF Moves
  <2>4. CASE ctx'[c].closing
    BY <2>4
  <2>5. CASE ~ctx'[c].closing
    <3>1. ~ctx[c].closing /\ ctx[c].inUse /\ ctx[c].owner = call[g].whose
      BY <2>1, <2>2, <2>5
    <3>2. ctx'[c].owner = ctx[c].owner
      BY <2>3, <3>1 DEF CtxMove
    <3>3. ~ctx'[c].inUse => call'[g].pc = "none"
      BY <1>2, <2>3, <2>5, <3>1 DEF CtxMove
    <3> QED
      BY <1>1, <3>1, <3>2, <3>3
  <2> QED
    BY <2>4, <2>5
<1>3. CASE Enters(g)
  <2>1. ctx[c].owner = call[g].whose /\ ~ctx[c].closing
    BY <1>1, <1>3, EntersFacts
  <2>2. CtxMove(c)
    BY <1>1 DEF Moves
  <2> QED
    BY <1>1, <1>3, <2>1, <2>2 DEF Enters, CtxMove
<1>4. CASE Opens(g)
  BY <1>1, <1>4 DEF Opens
<1> QED
  BY <1>1, <1>2, <1>3, <1>4

LEMMA ParkedStays ==
  ASSUME PoolInv, Moves, TypeOK', NEW g \in Call, call'[g].at # None,
         call'[g].pc \in ForSlot \cup {"paging"}
  PROVE  ctx'[call'[g].at].closing \/ ctx'[call'[g].at].parked
<1> DEFINE c == call'[g].at
<1>1. /\ c \in Ctx /\ HasLock(g)
      /\ \/ call'[g] = call[g]
         \/ Act(g) /\ (c = call[g].at \/ Enters(g) \/ Opens(g))
  BY AtMoves
<1>2. CASE Enters(g)
  <2>1. call'[g].pc # "checking"
    BY DEF ForSlot
  <2> QED
    BY <1>2, <2>1 DEF Enters
<1>3. CASE ~Enters(g)
  <2>1. c = call[g].at
    BY <1>1, <1>3 DEF Opens
  <2>2. call[g].pc \in ForSlot \cup {"paging"}
    BY <1>1, <1>3 DEF Act
  <2>3. ctx[c].closing \/ ctx[c].parked
    BY <2>1, <2>2 DEF PoolInv, AtInv
  <2>4. ctx[c].closing => ctx'[c].closing
    BY <1>1, <2>1, StaysClosing
  <2>5. ASSUME ~ctx[c].closing, ctx[c].parked, ~ctx'[c].parked  PROVE FALSE
    <3>1. PICK f \in Call : call[f].at = c /\ call'[f].pc \in {"checking", "none"}
      BY <1>1, <2>5 DEF Moves, CtxMove
    <3>2. f = g
      BY <2>1, <3>1, CallFacts
    <3> QED
      BY <3>1, <3>2 DEF ForSlot
  <2> QED
    BY <2>3, <2>4, <2>5
<1> QED
  BY <1>2, <1>3

LEMMA NotShared ==
  ASSUME PoolInv, Moves, TypeOK', NEW g \in Call, call'[g].at # None,
         call'[g].what \in {"verify", "scratch"}
  PROVE  \A o \in Owner : entries'[o] # call'[g].at
<1> DEFINE c == call'[g].at
<1>1. /\ c \in Ctx /\ call'[g].what = call[g].what /\ call'[g].pc # "none" /\ HasLock(g)
      /\ c = call[g].at \/ Enters(g) \/ Opens(g)
  BY AtMoves
<1>2. ~Registered(c)
  <2>1. CASE c = call[g].at
    BY <1>1, <2>1 DEF PoolInv, AtInv
  <2>2. CASE Opens(g)
    BY <2>2, OpensFacts
  <2>3. CASE Enters(g)
    BY <1>1, <2>3 DEF Enters
  <2> QED
    BY <1>1, <2>1, <2>2, <2>3
<1>3. ASSUME NEW o \in Owner, entries'[o] = c  PROVE FALSE
  <2>1. entries'[o] # entries[o] /\ c # None
    BY <1>2, <1>3 DEF Registered
  <2>2. PICK h \in Call : Takes(h, o, c)
    BY <1>3, <2>1 DEF Moves, EntryMove
  <2>3. CASE call[h].what = "session" /\ call'[h].at = c
    <3>1. g = h
      BY <2>1, <2>3, AtUnique
    <3> QED
      BY <1>1, <2>3, <3>1
  <2>4. CASE call[h].at = c /\ call'[h].pc = "none"
    <3>1. g # h
      BY <1>1, <2>4
    <3>2. CASE c = call[g].at
      BY <2>1, <2>4, <3>1, <3>2, CallFacts
    <3>3. CASE Enters(g) \/ Opens(g)
      BY <1>1, <2>4, <3>3, EntersFacts, OpensFacts
    <3> QED
      BY <1>1, <3>2, <3>3
  <2> QED
    BY <2>2, <2>3, <2>4 DEF Takes
<1> QED
  BY <1>3

LEMMA OwnStays ==
  ASSUME PoolInv, Moves, TypeOK', NEW g \in Call, Own(call'[g]), call'[g].at # None
  PROVE  ~ctx'[call'[g].at].closing
<1> DEFINE c == call'[g].at
<1>1. /\ c \in Ctx /\ HasLock(g) /\ call'[g].what = call[g].what
      /\ \/ call'[g] = call[g]
         \/ Act(g) /\ (c = call[g].at \/ Enters(g) \/ Opens(g))
  BY AtMoves
<1>2. CASE Opens(g)
  BY <1>2 DEF Opens
<1>3. CASE ~Opens(g)
  <2>1. Own(call[g])
    BY <1>1, <1>3 DEF Act
  <2>2. call[g].at \in Ctx /\ call[g].what \in {"verify", "scratch"}
    BY <2>1, CallFacts DEF Own, ShapeOf, Working
  <2>3. c = call[g].at
    BY <1>1, <1>3, <2>2, PoolAssumption DEF Enters
  <2>4. ~ctx[c].closing /\ ~Registered(c)
    BY <2>1, <2>2, <2>3, PoolAssumption DEF PoolInv, AtInv
  <2>5. ASSUME ctx'[c].closing  PROVE FALSE
    <3>1. \/ call'[g].pc \in Leaving
          \/ \E p \in parks : c \in p.victims
      BY <1>1, <2>3, <2>4, <2>5 DEF Moves, CtxMove
    <3>2. call'[g].pc \notin Leaving
      BY DEF Own, Leaving
    <3> QED
      BY <2>4, <3>1, <3>2 DEF PoolInv, VictimsInv
  <2> QED
    BY <2>5
<1> QED
  BY <1>2, <1>3

LEMMA AtKept ==
  ASSUME PoolInv, Moves, TypeOK'
  PROVE  AtInv'
<1>1. ASSUME NEW g \in Call, call'[g].at # None
      PROVE  \A o \in Owner : call'[g].what \in {"verify", "scratch"} => entries'[o] # call'[g].at
  BY <1>1, NotShared
<1>2. \A g, h \in Call : call'[g].at = call'[h].at /\ call'[g].at # None => g = h
  BY AtUnique
<1> QED
  BY <1>1, <1>2, InUseStays, ParkedStays, OwnStays DEF AtInv, Registered, Own

LEMMA RoomKept ==
  ASSUME PoolInv, Moves, TypeOK'
  PROVE  RoomForNew'
<1> SUFFICES ASSUME NEW g \in Call, Bound(call'[g])  PROVE entries'[call'[g].whose] = None
  BY DEF RoomForNew, Bound
<1>0. call'[g].pc \notin {"none", "locking"}
  BY DEF Bound, ForSlot
<1>1. /\ call'[g].whose = call[g].whose /\ HasLock(g)
      /\ call'[g] = call[g] \/ Act(g)
  <2>1. CASE call'[g] = call[g]
    BY <1>0, <2>1, CallFacts
  <2>2. CASE call'[g] # call[g]
    <3>1. Act(g)
      BY ZenonT(30), <2>2 DEF Moves, Act
    <3>2. call'[g].what # "scratch"
      BY ShapeKept DEF Bound, CallShape, ShapeOf
    <3> QED
      BY <1>0, <3>1, <3>2 DEF Act
  <2> QED
    BY <2>1, <2>2
<1>2. call[g].whose \in Owner
  <2>1. ShapeOf(call'[g]) /\ call[g].whose \in Owner \cup {None}
    BY ShapeKept DEF CallShape, PoolInv, TypeOK, CallState
  <2> QED
    BY <1>1, <2>1 DEF ShapeOf, Bound, ForSlot
<1>3. CASE ~Bound(call[g])
  BY <1>1, <1>3 DEF Act
<1>4. CASE Bound(call[g])
  <2>1. entries[call[g].whose] = None
    BY <1>4 DEF PoolInv, RoomForNew
  <2>2. ASSUME entries'[call[g].whose] # None  PROVE FALSE
    <3>1. PICK h \in Call : Takes(h, call[g].whose, entries'[call[g].whose])
      BY <1>2, <2>1, <2>2 DEF Moves, EntryMove
    <3>2. h = g
      BY <1>1, <1>2, <3>1, OneHolder, PoolAssumption DEF Takes
    <3>3. CASE call'[h].pc = "none"
      BY <1>0, <3>2, <3>3
    <3>4. CASE call[h].pc = "opening" /\ call[h].what = "session" /\ call'[h].at # None
      <4>1. call'[h].pc = "replacing" /\ ShapeOf(call'[h])
        BY <3>2, <3>4, ShapeKept DEF Bound, CallShape
      <4>2. call'[h].what = call[h].what
        BY <1>1, <3>2, <3>4, <4>1 DEF Act
      <4> QED
        BY <3>4, <4>1, <4>2 DEF ShapeOf
    <3> QED
      BY <3>1, <3>3, <3>4, PoolAssumption DEF Takes
  <2> QED
    BY <1>1, <2>2
<1> QED
  BY <1>3, <1>4

LEMMA ParksKept ==
  ASSUME PoolInv, Moves, TypeOK'
  PROVE  ParksInv'
<1>1. ASSUME NEW p \in parks', NEW q \in parks', p.by = q.by, p.by # None  PROVE p = q
  <2>1. \A r, s \in parks : r.by = s.by /\ r.by # None => r = s
    BY DEF PoolInv, ParksInv
  <2>2. CASE parks' = parks \/ \E r \in parks : parks' = parks \ {r}
    BY <1>1, <2>1, <2>2
  <2>3. ASSUME NEW n \in ParkRun, parks' = parks \cup {n}, Awaits(n)  PROVE p = q
    <3>1. n.by # None => \A r \in parks : r.by # n.by
      BY <2>3 DEF Awaits, PoolInv, ParksInv
    <3> QED
      BY <1>1, <2>1, <2>3, <3>1
  <2>4. ASSUME NEW r \in parks, NEW n \in ParkRun, parks' = (parks \ {r}) \cup {n}, n.by = r.by
        PROVE  p = q
    BY <1>1, <2>1, <2>4
  <2> QED
    BY <2>2, <2>3, <2>4 DEF Moves, ParksMove
<1>2. ASSUME NEW p \in parks', p.by \in Call  PROVE call'[p.by].pc = "making room"
  <2>1. CASE \E q \in parks : q.by = p.by
    <3>1. PICK q \in parks : q.by = p.by
      BY <2>1
    <3>2. call[p.by].pc = "making room"
      BY <1>2, <3>1 DEF PoolInv, ParksInv
    <3>3. CASE call'[p.by] = call[p.by]
      BY <3>2, <3>3
    <3>4. CASE call'[p.by] # call[p.by]
      <4>1. Act(p.by)
        BY ZenonT(30), <1>2, <3>4 DEF Moves, Act
      <4>2. PICK r \in parks : r.by = p.by /\ parks' = parks \ {r}
        BY <3>2, <4>1 DEF Act
      <4> QED
        BY <1>2, <4>2, PoolAssumption DEF PoolInv, ParksInv
    <3> QED
      BY <3>3, <3>4
  <2>2. CASE ~ \E q \in parks : q.by = p.by
    <3>1. Awaits(p)
      BY <2>2 DEF Moves, ParksMove
    <3> QED
      BY <1>2, <3>1, PoolAssumption DEF Awaits
  <2> QED
    BY <2>1, <2>2
<1>3. ASSUME NEW p \in parks', p.by \in Owner
      PROVE  /\ queue'[p.by] # <<>>
             /\ \E c \in Ctx :
                  \/ Head(queue'[p.by]) = IdleTask(c) /\ (entries'[p.by] = c => ctx'[c].parked)
                  \/ Head(queue'[p.by]) = ExpireTask(c) /\ entries'[p.by] # c
  <2> DEFINE o == p.by
  <2>1. CASE \E q \in parks : q.by = o
    <3>1. PICK c \in Ctx :
            /\ queue[o] # <<>>
            /\ \/ Head(queue[o]) = IdleTask(c) /\ (entries[o] = c => ctx[c].parked)
               \/ Head(queue[o]) = ExpireTask(c) /\ entries[o] # c
      BY <1>3, <2>1 DEF PoolInv, ParksInv
    <3>2. queue'[o] # <<>> /\ Head(queue'[o]) = Head(queue[o])
      BY <1>3, <3>1, HeadKept
    <3>3. ASSUME NEW h \in Call, HasLock(h), call[h].whose = o  PROVE FALSE
      BY <1>3, <3>1, <3>3, TaskFacts, PoolAssumption DEF HasLock
    <3>4. entries'[o] = c => entries[o] = c
      BY <1>3, <3>3, PoolAssumption DEF Moves, EntryMove, Takes
    <3>5. ASSUME entries'[o] = c, ctx[c].parked  PROVE ctx'[c].parked
      <4>1. entries[o] = c /\ ~ctx[c].closing
        BY <1>3, <3>4, <3>5, PoolAssumption DEF PoolInv, RegInv
      <4>2. \A h \in Call : call[h].at # c
        BY <1>3, <3>3, <4>1, SoleUser, PoolAssumption
      <4> QED
        BY <3>5, <4>1, <4>2 DEF Moves, CtxMove
    <3> QED
      BY <3>1, <3>2, <3>4, <3>5
  <2>2. CASE ~ \E q \in parks : q.by = o
    <3>1. Awaits(p)
      BY <2>2 DEF Moves, ParksMove
    <3> QED
      BY <1>3, <3>1, PoolAssumption DEF Awaits
  <2> QED
    BY <2>1, <2>2
<1> QED
  BY <1>1, <1>2, <1>3 DEF ParksInv

LEMMA VictimsKept ==
  ASSUME PoolInv, Moves, TypeOK'
  PROVE  VictimsInv'
<1> SUFFICES ASSUME NEW p \in parks', NEW v \in p.victims
             PROVE  ctx'[v].closing \/ \E o \in Owner : entries'[o] = v
  BY DEF VictimsInv, Registered
<1>1. v \in Ctx
  BY DEF TypeOK, ParkRun
<1>2. Registered(v) \/ \E q \in parks : v \in q.victims
  BY DEF Moves, ParksMove
<1>3. CASE Registered(v)
  BY <1>1, <1>3, PoolAssumption DEF Registered, Moves, EntryMove
<1>4. CASE ~Registered(v)
  <2>1. PICK q \in parks : v \in q.victims
    BY <1>2, <1>4
  <2>2. ctx[v].closing
    BY <1>4, <2>1 DEF PoolInv, VictimsInv
  <2> QED
    BY <1>1, <2>1, <2>2, StaysClosing
<1> QED
  BY <1>3, <1>4

LEMMA OwnedKept ==
  ASSUME PoolInv, Moves, TypeOK'
  PROVE  Owned'
<1>1. \A c \in Ctx : ctx'[c].idle \/ ctx'[c].expire # Off => ctx'[c].owner \in Owner
  BY DEF Moves, CtxMove
<1>2. ASSUME NEW c \in Ctx, ctx[c].closing \/ ctx[c].owner \in Owner,
             ctx[c].closing => ctx'[c].closing
      PROVE  ctx'[c].closing \/ ctx'[c].owner \in Owner
  BY <1>2 DEF Moves, CtxMove
<1>3. ASSUME NEW p \in parks'  PROVE ctx'[p.of].closing \/ ctx'[p.of].owner \in Owner
  <2>1. p.of \in Ctx
    BY DEF TypeOK, ParkRun
  <2>2. CASE \E q \in parks : q.of = p.of
    <3>1. PICK q \in parks : q.of = p.of
      BY <2>2
    <3>2. ctx[p.of].closing \/ ctx[p.of].owner \in Owner
      BY <3>1 DEF PoolInv, Owned
    <3>3. ctx[p.of].closing => ctx'[p.of].closing
      BY <2>1, <3>1, StaysClosing
    <3> QED
      BY <1>2, <2>1, <3>2, <3>3
  <2>3. CASE ~ \E q \in parks : q.of = p.of
    <3>1. /\ ctx[p.of].closing \/ ctx[p.of].owner \in Owner
          /\ Registered(p.of) \/ \E h \in Call : call[h].at = p.of
      BY <2>3 DEF Moves, ParksMove
    <3>2. ctx[p.of].closing => ctx'[p.of].closing
      BY <2>1, <3>1, StaysClosing, PoolAssumption DEF Registered, PoolInv, RegInv
    <3> QED
      BY <1>2, <2>1, <3>1, <3>2
  <2> QED
    BY <2>2, <2>3
<1> QED
  BY <1>1, <1>3 DEF Owned

LEMMA PoolStepKept ==
  ASSUME PoolInv, Next
  PROVE  PoolInv'
<1>1. Moves /\ TypeOK'
  BY NextMoves
<1> QED
  BY <1>1, ShapeKept, LocksKept, RegKept, ParksKept, AtKept, RoomKept, VictimsKept, OwnedKept
  DEF PoolInv

\* Nothing has happened yet.
LEMMA InitPool ==
  ASSUME Init
  PROVE  PoolInv
<1>1. TypeOK
  <2>1. ctx \in [Ctx -> Entry] /\ call \in [Call -> CallState]
    BY EntryFacts, NoCallType DEF Init
  <2>2. active \in 0 .. MaxContexts /\ callsLeft \in 0 .. MaxCalls /\ faultsLeft \in 0 .. MaxFaults
    BY PoolAssumption DEF Init
  <2>3. waiters \in Seq(Call) /\ queue \in [Owner -> Seq(Task)]
    BY DEF Init
  <2> QED
    BY <2>1, <2>2, <2>3 DEF Init, TypeOK
<1>2. \A h \in Call : /\ call[h].pc = "none" /\ call[h].what = "none"
                      /\ call[h].whose = None /\ call[h].at = None
  BY DEF Init, NoCall
<1>3. \A c \in Ctx : ctx[c].closing /\ ctx[c].closed /\ ~ctx[c].idle /\ ctx[c].expire = Off
  BY DEF Init, Closed
<1>4. CallShape /\ LocksHeld /\ AtInv /\ RoomForNew
  BY <1>2 DEF CallShape, ShapeOf, Bare, ForSlot, Working, LocksHeld, AtInv, RoomForNew, Bound
<1>5. RegInv /\ ParksInv /\ VictimsInv /\ Owned
  BY <1>3 DEF Init, RegInv, ParksInv, VictimsInv, Owned
<1> QED
  BY <1>1, <1>4, <1>5 DEF PoolInv

LEMMA PoolStutter ==
  ASSUME PoolInv, UNCHANGED vars
  PROVE  PoolInv'
<1>1. TypeOK' = TypeOK
  BY DEF vars, TypeOK
<1>2. CallShape' = CallShape /\ LocksHeld' = LocksHeld /\ RegInv' = RegInv
  BY DEF vars, CallShape, LocksHeld, HasLock, RegInv
<1>3. ParksInv' = ParksInv /\ AtInv' = AtInv
  BY DEF vars, ParksInv, AtInv, Registered, Own
<1>4. RoomForNew' = RoomForNew /\ VictimsInv' = VictimsInv /\ Owned' = Owned
  BY DEF vars, RoomForNew, Bound, VictimsInv, Registered, Owned
<1> QED
  BY <1>1, <1>2, <1>3, <1>4 DEF PoolInv

\* The invariant behind every result of this module: locks, contexts, parks
\* and calls agree on whose context is whose, whatever order their steps take.
THEOREM PoolIsConsistent == Spec => []PoolInv
<1>1. Init => PoolInv
  BY InitPool
<1>2. PoolInv /\ [Next]_vars => PoolInv'
  BY PoolStepKept, PoolStutter
<1> QED
  BY <1>1, <1>2, PTL DEF Spec

\* Every variable of the pool keeps its type; in particular #active is never
\* negative and never above maxContexts.
THEOREM PoolTypes == Spec => []TypeOK
<1>1. PoolInv => TypeOK
  BY DEF PoolInv
<1> QED
  BY <1>1, PoolIsConsistent, PTL

-----------------------------------------------------------------------------
(* Nobody waits for nothing. *)

\* A context that #acquireSlot would park to make room.
Spare(c) == /\ Registered(c)
            /\ ctx[c].slot /\ ~ctx[c].inUse /\ ~ctx[c].closing /\ ~ctx[c].parked

\* No context becomes spare.
NoneSpared == \A d \in Ctx : Spare(d)' => Spare(d)

\* Whoever waits after a step waited before it, no slot has been freed and no
\* context has become spare; or there is neither a slot nor a spare context.
WaitMove ==
  waiters' # <<>> =>
    \/ waiters # <<>> /\ UNCHANGED active /\ NoneSpared
    \/ active = MaxContexts /\ UNCHANGED active /\ Idle = {} /\ NoneSpared

LEMMA OneSpare ==
  ASSUME PoolInv, NEW c \in Ctx, NEW f, ctx' = [ctx EXCEPT ![c] = f],
         \A o \in Owner : entries'[o] \in {None, entries[o], c},
         \/ f.inUse \/ f.closing \/ f.parked \/ ~f.slot
         \/ /\ UNCHANGED entries
            /\ f.slot = ctx[c].slot /\ f.inUse = ctx[c].inUse
            /\ f.closing = ctx[c].closing /\ f.parked = ctx[c].parked
  PROVE  NoneSpared
<1>1. ctx'[c] = f /\ \A d \in Ctx : d # c => ctx'[d] = ctx[d]
  BY DEF PoolInv, TypeOK
<1>2. \A d \in Ctx : d # c /\ (\E o \in Owner : entries'[o] = d) => Registered(d)
  BY PoolAssumption DEF Registered
<1>3. Spare(c)' => Spare(c)
  BY <1>1 DEF Spare, Registered
<1> QED
  BY <1>1, <1>2, <1>3 DEF NoneSpared, Spare, Registered

LEMMA SameSpare ==
  ASSUME UNCHANGED <<entries, ctx>>
  PROVE  NoneSpared
BY DEF NoneSpared, Spare, Registered

LEMMA DiscardSpares ==
  ASSUME PoolInv, NEW c \in Ctx, NEW e \in Entry, Discard(c, e)
  PROVE  NoneSpared
<1>1. CASE e.closing
  <2>1. ctx' = [ctx EXCEPT ![c] = e] /\ UNCHANGED entries
    BY <1>1 DEF Discard
  <2> QED
    BY <1>1, <2>1, OneSpare
<1>2. CASE ~e.closing
  <2> DEFINE f == [CancelTimers(e) EXCEPT !.closing = TRUE, !.discarded = TRUE]
  <2>1. /\ ctx' = [ctx EXCEPT ![c] = f]
        /\ entries' = [o \in Owner |-> IF entries[o] = c THEN None ELSE entries[o]]
    BY <1>2 DEF Discard
  <2>2. f.closing
    BY ClosedFields
  <2>3. \A o \in Owner : entries'[o] \in {None, entries[o], c}
    BY <2>1
  <2> HIDE DEF f
  <2> QED
    BY <2>1, <2>2, <2>3, OneSpare
<1> QED
  BY <1>1, <1>2

LEMMA ReleaseWaits ==
  ASSUME TypeOK, ReleaseSlot, waiters' # <<>>
  PROVE  waiters # <<>> /\ UNCHANGED active
BY DEF ReleaseSlot

LEMMA ParkFields ==
  \A e \in Entry :
    LET f == [CancelTimers(e) EXCEPT !.parked = TRUE, !.slot = FALSE] IN
    /\ f.parked /\ ~f.slot /\ ~f.idle /\ f.expire = Off
    /\ f.closing = e.closing /\ f.closed = e.closed /\ f.inUse = e.inUse /\ f.owner = e.owner
BY DEF Entry, CancelTimers

LEMMA ParkWaits ==
  ASSUME PoolInv, NEW c \in Ctx, NEW e \in Entry, NEW by, Park(c, e, by)
  PROVE  NoneSpared /\ (waiters' # <<>> => waiters # <<>> /\ UNCHANGED active)
<1>1. CASE Live(e)
  <2> DEFINE f == [CancelTimers(e) EXCEPT !.parked = TRUE, !.slot = FALSE]
  <2>1. ctx' = [ctx EXCEPT ![c] = f] /\ UNCHANGED entries /\ ReleaseSlot
    BY <1>1 DEF Park
  <2>2. f.parked
    BY ParkFields
  <2> HIDE DEF f
  <2> QED
    BY <2>1, <2>2, OneSpare, ReleaseWaits DEF PoolInv
<1>2. CASE ~Live(e)
  BY <1>2, DiscardSpares DEF Park, slotVars
<1> QED
  BY <1>1, <1>2

LEMMA AfterUseWaits ==
  ASSUME PoolInv, NEW h \in Call, call[h].at \in Ctx, NEW e \in Entry, AfterUse(h, e)
  PROVE  WaitMove
<1> DEFINE c == call[h].at
           f == [e EXCEPT !.inUse = FALSE]
<1>1. f \in Entry /\ ArmExpire(f).parked = f.parked
  BY UseFields, TimerFields
<1>2. \/ /\ f.closing /\ ctx' = [ctx EXCEPT ![c] = f] /\ UNCHANGED <<entries, slotVars>>
      \/ Discard(c, f) /\ UNCHANGED slotVars
      \/ /\ f.parked /\ ctx' = [ctx EXCEPT ![c] = ArmExpire(f)] /\ UNCHANGED <<entries, slotVars>>
      \/ Park(c, f, None)
      \/ waiters = <<>> /\ UNCHANGED slotVars
  BY DEF AfterUse
<1> HIDE DEF f
<1>3. CASE f.closing /\ ctx' = [ctx EXCEPT ![c] = f] /\ UNCHANGED <<entries, slotVars>>
  BY <1>3, OneSpare DEF WaitMove, slotVars
<1>4. CASE Discard(c, f) /\ UNCHANGED slotVars
  BY <1>1, <1>4, DiscardSpares DEF WaitMove, slotVars
<1>5. CASE f.parked /\ ctx' = [ctx EXCEPT ![c] = ArmExpire(f)] /\ UNCHANGED <<entries, slotVars>>
  BY <1>1, <1>5, OneSpare DEF WaitMove, slotVars
<1>6. CASE Park(c, f, None)
  BY <1>1, <1>6, ParkWaits DEF WaitMove
<1>7. CASE waiters = <<>> /\ UNCHANGED slotVars
  BY <1>7 DEF WaitMove, slotVars
<1> QED
  BY <1>2, <1>3, <1>4, <1>5, <1>6, <1>7

LEMMA CallWaits ==
  ASSUME PoolInv, NEW h \in Call, CallStep(h)
  PROVE  WaitMove
<1> DEFINE k == call[h]
<1>0. /\ ShapeOf(k) /\ k \in CallState
      /\ (k.at # None => /\ k.at \in Ctx /\ ctx[k.at] \in Entry
                         /\ ctx[k.at].closing \/ ctx[k.at].inUse)
      /\ (k.what \in {"session", "verify", "forget"} => k.whose \in Owner)
  BY CallFacts, CtxFacts
<1>a. UNCHANGED <<entries, ctx>> /\ UNCHANGED slotVars => WaitMove
  BY SameSpare DEF WaitMove, slotVars
<1>b. UNCHANGED slotVars /\ NoneSpared => WaitMove
  BY DEF WaitMove, slotVars
<1>c. \A k1 : Entering(h, k1) => k.whose \in Owner
  BY <1>0 DEF Entering, ShapeOf, CallState
<1>d. \A o \in Owner : entries[o] # None => entries[o] \in Ctx /\ ctx[entries[o]] \in Entry
  BY DEF PoolInv, TypeOK
<1>1. CASE EnterExisting(h)
  <2> DEFINE c == entries[k.whose]
             f == [CancelTimers(ctx[c]) EXCEPT !.inUse = TRUE]
  <2>1. c \in Ctx /\ ctx[c] \in Entry
    BY <1>1, <1>c, <1>d DEF EnterExisting
  <2>2. ctx' = [ctx EXCEPT ![c] = f] /\ UNCHANGED entries /\ UNCHANGED slotVars
    BY <1>1 DEF EnterExisting
  <2>3. f.inUse
    BY <2>1 DEF Entry, CancelTimers
  <2> HIDE DEF f, c
  <2> QED
    BY <1>b, <2>1, <2>2, <2>3, OneSpare
<1>2. CASE EnterDead(h) \/ Forget(h) \/ Proven(h)
  <2> DEFINE c == entries[k.whose]
  <2>1. k.whose \in Owner
    BY <1>0, <1>2, <1>c DEF EnterDead, Forget, Proven, ShapeOf
  <2>2. c # None /\ Discard(c, ctx[c]) /\ UNCHANGED slotVars
    BY <1>2 DEF EnterDead, Forget, Proven
  <2>3. c \in Ctx /\ ctx[c] \in Entry
    BY <1>d, <2>1, <2>2
  <2> HIDE DEF c
  <2> QED
    BY <1>b, <2>2, <2>3, DiscardSpares
<1>3. CASE EnterNew(h) \/ EnterNothing(h) \/ SessionAlive(h) \/ SessionOver(h)
           \/ (Awaited(h) /\ k.pc # "failing")
  BY <1>3, <1>a DEF EnterNew, EnterNothing, SessionAlive, SessionOver, Awaited
<1>4. CASE TakeSlot(h)
  BY <1>4 DEF TakeSlot, WaitMove
<1>5. CASE Resume(h)
  <2>1. CASE k.at = None
    BY <1>5, <1>a, <2>1 DEF Resume
  <2>2. CASE k.at # None
    <3> DEFINE c == k.at
               f == [ctx[c] EXCEPT !.slot = TRUE]
    <3>1. ctx' = [ctx EXCEPT ![c] = f] /\ UNCHANGED entries /\ UNCHANGED slotVars
      BY <1>5, <2>2 DEF Resume
    <3>2. c \in Ctx /\ (f.inUse \/ f.closing)
      BY <1>0, <2>2 DEF Entry
    <3> HIDE DEF f, c
    <3> QED
      BY <1>b, <3>1, <3>2, OneSpare
  <2> QED
    BY <2>1, <2>2
<1>6. ASSUME NEW c \in Ctx, MakeRoom(h, c)  PROVE WaitMove
  <2>1. Park(c, ctx[c], h) /\ ctx[c] \in Entry
    BY <1>6, CtxFacts DEF MakeRoom
  <2> QED
    BY <2>1, ParkWaits DEF WaitMove
<1>7. CASE Wait(h)
  BY <1>7, SameSpare DEF Wait, WaitMove
<1>8. CASE QueueTimeout(h)
  <2>1. waiters # <<>> /\ UNCHANGED active
    BY <1>8 DEF QueueTimeout, Queued
  <2>2. NoneSpared
    <3>1. CASE k.at = None
      BY <1>8, <3>1, SameSpare DEF QueueTimeout
    <3>2. CASE k.at # None
      <4> DEFINE c == k.at
                 f == [ctx[c] EXCEPT !.inUse = FALSE]
      <4>1. \/ Discard(c, f)
            \/ ~f.closing /\ ctx' = [ctx EXCEPT ![c] = ArmExpire(f)] /\ UNCHANGED entries
        BY <1>8, <3>2 DEF QueueTimeout
      <4>2. c \in Ctx /\ ctx[c] \in Entry /\ (ctx[c].closing \/ ctx[c].parked)
        BY <1>0, <1>8, <3>2 DEF QueueTimeout, PoolInv, AtInv, ForSlot
      <4>3. f \in Entry /\ f.closing = ctx[c].closing /\ f.parked = ctx[c].parked
        BY <4>2, UseFields DEF Entry
      <4> HIDE DEF c, f
      <4>4. ArmExpire(f).parked = f.parked
        BY <4>3, TimerFields
      <4>5. CASE Discard(c, f)
        BY <4>2, <4>3, <4>5, DiscardSpares
      <4>6. CASE ~f.closing /\ ctx' = [ctx EXCEPT ![c] = ArmExpire(f)] /\ UNCHANGED entries
        BY <4>2, <4>3, <4>4, <4>6, OneSpare
      <4> QED
        BY <4>1, <4>5, <4>6
    <3> QED
      BY <3>1, <3>2
  <2> QED
    BY <2>1, <2>2 DEF WaitMove
<1>9. ASSUME NEW c \in Ctx, Open(h, c)  PROVE WaitMove
  <2> DEFINE f == Opened(k.whose)
  <2>1. ctx' = [ctx EXCEPT ![c] = f] /\ UNCHANGED slotVars /\ f.inUse
    BY <1>9 DEF Open, Opened, Closed
  <2>2. \A o \in Owner : entries'[o] \in {None, entries[o], c}
    BY <1>9 DEF Open, PoolInv, TypeOK
  <2> HIDE DEF f
  <2> QED
    BY <1>b, <2>1, <2>2, OneSpare
<1>10. CASE OpenFails(h)
  BY <1>10, ReleaseWaits, SameSpare DEF OpenFails, PoolInv, WaitMove
<1>11. CASE Unpark(h) \/ CloseContext(h) \/ Login(h)
  <2> DEFINE c == k.at
  <2>1. c # None
    BY <1>0, <1>11, PoolAssumption DEF Unpark, CloseContext, Login, ShapeOf, Working
  <2>2. c \in Ctx /\ ctx[c] \in Entry /\ (ctx[c].closing \/ ctx[c].inUse)
    BY <1>0, <2>1
  <2>3. UNCHANGED entries /\ UNCHANGED slotVars
    BY <1>11 DEF Unpark, CloseContext, Login
  <2>4. \E f : ctx' = [ctx EXCEPT ![c] = f] /\ (f.inUse \/ f.closing)
    <3>1. /\ [ctx[c] EXCEPT !.parked = FALSE].inUse = ctx[c].inUse
          /\ [ctx[c] EXCEPT !.parked = FALSE].closing = ctx[c].closing
          /\ [ctx[c] EXCEPT !.closing = TRUE].closing
          /\ [ctx[c] EXCEPT !.left = TTL, !.stale = FALSE].inUse = ctx[c].inUse
          /\ [ctx[c] EXCEPT !.left = TTL, !.stale = FALSE].closing = ctx[c].closing
      BY <2>2 DEF Entry
    <3>2. \/ ctx' = [ctx EXCEPT ![c] = [ctx[c] EXCEPT !.parked = FALSE]]
          \/ ctx' = [ctx EXCEPT ![c] = [ctx[c] EXCEPT !.closing = TRUE]]
          \/ ctx' = [ctx EXCEPT ![c] = [ctx[c] EXCEPT !.left = TTL, !.stale = FALSE]]
      BY <1>11, <2>2 DEF Unpark, CloseContext, Login, PoolInv, TypeOK
    <3> QED
      BY <2>2, <3>1, <3>2
  <2>5. PICK f : ctx' = [ctx EXCEPT ![c] = f] /\ (f.inUse \/ f.closing)
    BY <2>4
  <2> QED
    BY <1>b, <2>2, <2>3, <2>5, OneSpare
<1>12. CASE UnparkFails(h) \/ CheckFails(h) \/ Used(h) \/ (Awaited(h) /\ k.pc = "failing")
  <2>1. k.at \in Ctx /\ ctx[k.at] \in Entry
    BY <1>0, <1>12, CtxFacts DEF UnparkFails, CheckFails, Used, ShapeOf, Working
  <2>2. \E e \in Entry : AfterUse(h, e)
    <3>1. /\ [ctx[k.at] EXCEPT !.discarded = TRUE] \in Entry
          /\ [ctx[k.at] EXCEPT !.stale = TRUE] \in Entry
      BY <2>1 DEF Entry
    <3> QED
      BY <1>12, <2>1, <3>1 DEF UnparkFails, CheckFails, Used, Awaited
  <2> QED
    BY <2>1, <2>2, AfterUseWaits
<1>13. CASE LoginFails(h)
  <2>1. k.at \in Ctx /\ ctx[k.at] \in Entry /\ Discard(k.at, ctx[k.at]) /\ UNCHANGED slotVars
    BY <1>0, <1>13, CtxFacts DEF LoginFails, ShapeOf, Working
  <2> QED
    BY <1>b, <2>1, DiscardSpares
<1>14. CASE Adopt(h)
  <2> DEFINE c == k.at
             f == Handed(k.whose, ctx[c])
  <2>1. c \in Ctx /\ ctx[c] \in Entry /\ k.whose \in Owner
    BY <1>0, <1>14, CtxFacts DEF Adopt, ShapeOf, Working
  <2>2. CASE waiters = <<>>
    BY <1>14, <2>2 DEF Adopt, WaitMove, slotVars
  <2>3. CASE waiters # <<>>
    <3>1. ctx' = [ctx EXCEPT ![c] = f] /\ ReleaseSlot
      BY <1>14, <2>3 DEF Adopt, Handed
    <3>2. \A o \in Owner : entries'[o] \in {None, entries[o], c}
      BY <1>14 DEF Adopt, PoolInv, TypeOK
    <3>3. f.parked
      BY <2>1, AdoptedFields
    <3> HIDE DEF f, c
    <3> QED
      BY <2>1, <3>1, <3>2, <3>3, OneSpare, ReleaseWaits DEF WaitMove, PoolInv
  <2> QED
    BY <2>2, <2>3
<1>15. ASSUME NEW kind, NEW o, Arrive(h, kind, o)  PROVE WaitMove
  BY <1>15, <1>a DEF Arrive
<1> QED
  BY <1>1, <1>2, <1>3, <1>4, <1>5, <1>6, <1>7, <1>8, <1>9, <1>10, <1>11, <1>12, <1>13,
     <1>14, <1>15 DEF CallStep

LEMMA TrimWaits ==
  ASSUME PoolInv, NEW p \in parks, NEW entry, Armed(p, entry), NEW V \in SUBSET Ctx,
         TrimNext(p, entry, V)
  PROVE  NoneSpared
<1>1. \A d \in Ctx : /\ entry[d].slot = ctx[d].slot /\ entry[d].inUse = ctx[d].inUse
                     /\ entry[d].closing = ctx[d].closing /\ entry[d].parked = ctx[d].parked
  BY ArmedSame
<1>2. CASE ctx' = entry /\ UNCHANGED entries
  BY <1>1, <1>2 DEF NoneSpared, Spare, Registered
<1>3. ASSUME NEW v \in V,
             ctx' = [entry EXCEPT ![v] = [CancelTimers(entry[v]) EXCEPT !.closing = TRUE, !.discarded = TRUE]],
             entries' = [o \in Owner |-> IF entries[o] = v THEN None ELSE entries[o]]
      PROVE NoneSpared
  <2>1. entry \in [Ctx -> Entry] /\ v \in Ctx /\ entry[v] \in Entry
    BY DEF Armed
  <2>2. ctx'[v].closing /\ \A d \in Ctx : d # v => ctx'[d] = entry[d]
    BY <1>3, <2>1, ClosedFields
  <2>3. \A d \in Ctx : (\E o \in Owner : entries'[o] = d) => Registered(d)
    BY <1>3, PoolAssumption DEF Registered
  <2> QED
    BY <1>1, <2>2, <2>3 DEF NoneSpared, Spare, Registered
<1>4. \/ ctx' = entry /\ UNCHANGED entries
      \/ \E v \in V :
           /\ ctx' = [entry EXCEPT ![v] = [CancelTimers(entry[v]) EXCEPT !.closing = TRUE, !.discarded = TRUE]]
           /\ entries' = [o \in Owner |-> IF entries[o] = v THEN None ELSE entries[o]]
  BY DEF TrimNext
<1> QED
  BY <1>2, <1>3, <1>4

LEMMA PoolWaits ==
  ASSUME PoolInv, PoolStep
  PROVE  WaitMove
<1>b. UNCHANGED slotVars /\ NoneSpared => WaitMove
  BY DEF WaitMove, slotVars
<1>1. ASSUME NEW o \in Owner, NEW c \in Ctx, IdleRuns(o, c)  PROVE WaitMove
  <2>1. ctx[c] \in Entry
    BY CtxFacts
  <2>2. CASE Park(c, ctx[c], o)
    BY <2>1, <2>2, ParkWaits DEF WaitMove
  <2>3. CASE ~Park(c, ctx[c], o)
    BY <1>1, <1>b, <2>3, SameSpare DEF IdleRuns
  <2> QED
    BY <2>2, <2>3
<1>2. ASSUME NEW o \in Owner, NEW c \in Ctx, ExpireRuns(o, c)  PROVE WaitMove
  <2>1. ctx[c] \in Entry /\ UNCHANGED slotVars
    BY <1>2, CtxFacts DEF ExpireRuns
  <2>2. Discard(c, ctx[c]) \/ UNCHANGED <<entries, ctx>>
    BY <1>2 DEF ExpireRuns
  <2> QED
    BY <1>b, <2>1, <2>2, DiscardSpares, SameSpare
<1>3. ASSUME NEW c \in Ctx, ContextClosed(c)  PROVE WaitMove
  <2>1. ctx' = [ctx EXCEPT ![c] = Closed] /\ UNCHANGED entries /\ Closed.closing
    BY <1>3 DEF ContextClosed, Closed
  <2>2. NoneSpared
    BY <2>1, OneSpare
  <2> QED
    BY <1>3, <1>b, <2>2, ReleaseWaits DEF ContextClosed, WaitMove, PoolInv
<1>4. ASSUME NEW c \in Ctx, IdleFires(c) \/ ExpireFires(c)  PROVE WaitMove
  <2>1. UNCHANGED entries /\ UNCHANGED slotVars /\ ctx[c] \in Entry
    BY <1>4, CtxFacts DEF IdleFires, ExpireFires
  <2>2. \E f : /\ ctx' = [ctx EXCEPT ![c] = f]
               /\ f.slot = ctx[c].slot /\ f.inUse = ctx[c].inUse
               /\ f.closing = ctx[c].closing /\ f.parked = ctx[c].parked
    <3>1. CASE IdleFires(c)
      <4> DEFINE f == [ctx[c] EXCEPT !.idle = FALSE]
      <4>1. /\ f.slot = ctx[c].slot /\ f.inUse = ctx[c].inUse
            /\ f.closing = ctx[c].closing /\ f.parked = ctx[c].parked
        BY <2>1 DEF Entry
      <4>2. ctx' = [ctx EXCEPT ![c] = f]
        BY <3>1 DEF IdleFires
      <4> HIDE DEF f
      <4> QED
        BY <4>1, <4>2
    <3>2. CASE ExpireFires(c)
      <4> DEFINE f == [ctx[c] EXCEPT !.expire = Off]
      <4>1. /\ f.slot = ctx[c].slot /\ f.inUse = ctx[c].inUse
            /\ f.closing = ctx[c].closing /\ f.parked = ctx[c].parked
        BY <2>1 DEF Entry
      <4>2. ctx' = [ctx EXCEPT ![c] = f]
        BY <3>2 DEF ExpireFires
      <4> HIDE DEF f
      <4> QED
        BY <4>1, <4>2
    <3> QED
      BY <1>4, <3>1, <3>2
  <2> QED
    BY <1>b, <2>1, <2>2, OneSpare
<1>5. ASSUME NEW p \in parks, PageClosed(p)  PROVE WaitMove
  <2> DEFINE entry == IF ctx[p.of].closing THEN ctx ELSE [ctx EXCEPT ![p.of] = ArmExpire(ctx[p.of])]
  <2>1. PICK V \in Surplus(entry) : TrimNext(p, entry, V)
    BY <1>5 DEF PageClosed
  <2>2. Armed(p, entry)
    BY PageEntry
  <2> HIDE DEF entry
  <2>3. V \in SUBSET Ctx
    BY SurplusIdle
  <2> QED
    BY <1>5, <1>b, <2>1, <2>2, <2>3, TrimWaits DEF PageClosed
<1>6. ASSUME NEW p \in parks, Trimmed(p)  PROVE WaitMove
  <2>1. TrimNext(p, ctx, p.victims) /\ p.victims \in SUBSET Ctx /\ Armed(p, ctx)
    BY <1>6, PageEntry DEF Trimmed, PoolInv, TypeOK, ParkRun
  <2> QED
    BY <1>6, <1>b, <2>1, TrimWaits DEF Trimmed
<1>7. CASE BrowserGone
  <2>1. ASSUME NEW d \in Ctx, Spare(d)'  PROVE Spare(d)
    <3>1. ctx[d] \in Entry
      BY CtxFacts
    <3>2. /\ [CancelTimers(ctx[d]) EXCEPT !.closing = TRUE, !.discarded = TRUE].closing
          /\ LET f == [ctx[d] EXCEPT !.discarded = TRUE] IN
               /\ f.slot = ctx[d].slot /\ f.inUse = ctx[d].inUse
               /\ f.closing = ctx[d].closing /\ f.parked = ctx[d].parked
      BY <3>1, ClosedFields DEF Entry
    <3>3. Registered(d)
      BY <1>7, <2>1, PoolAssumption DEF BrowserGone, Spare, Registered
    <3>4. \/ ctx'[d] = [CancelTimers(ctx[d]) EXCEPT !.closing = TRUE, !.discarded = TRUE]
          \/ ctx'[d] = [ctx[d] EXCEPT !.discarded = TRUE]
          \/ ctx'[d] = ctx[d]
      BY <1>7 DEF BrowserGone
    <3> QED
      BY <2>1, <3>2, <3>3, <3>4 DEF Spare
  <2> QED
    BY <1>7, <1>b, <2>1 DEF BrowserGone, NoneSpared
<1>8. CASE Tick
  <2>1. ASSUME NEW d \in Ctx
        PROVE  /\ ctx'[d].slot = ctx[d].slot /\ ctx'[d].inUse = ctx[d].inUse
               /\ ctx'[d].closing = ctx[d].closing /\ ctx'[d].parked = ctx[d].parked
    BY <1>8, CtxFacts DEF Tick, Entry
  <2>2. UNCHANGED entries /\ UNCHANGED slotVars
    BY <1>8 DEF Tick
  <2> QED
    BY <1>b, <2>1, <2>2 DEF NoneSpared, Spare, Registered
<1> QED
  BY <1>1, <1>2, <1>3, <1>4, <1>5, <1>6, <1>7, <1>8 DEF PoolStep

LEMMA WaitKept ==
  ASSUME PoolInv, Next, NobodyWaitsForNothing
  PROVE  NobodyWaitsForNothing'
<1>1. WaitMove
  BY CallWaits, PoolWaits, NextSteps
<1>2. Idle = {} <=> \A d \in Ctx : ~Spare(d)
  BY DEF Idle, Spare, Registered
<1>3. Idle' = {} <=> \A d \in Ctx : ~Spare(d)'
  BY DEF Idle, Spare, Registered
<1> QED
  BY <1>1, <1>2, <1>3 DEF WaitMove, NobodyWaitsForNothing, NoneSpared

\* Whoever waits for a slot waits because all maxContexts of them are taken and
\* no idle context could be parked to make room: no slot is freed and no
\* context put aside without a look at the line of waiters.
THEOREM NobodyWaitsWhileThereIsRoom == Spec => []NobodyWaitsForNothing
<1>1. Init => NobodyWaitsForNothing
  BY DEF Init, NobodyWaitsForNothing
<1>2. PoolInv /\ NobodyWaitsForNothing /\ [Next]_vars => NobodyWaitsForNothing'
  <2>1. UNCHANGED vars /\ NobodyWaitsForNothing => NobodyWaitsForNothing'
    BY DEF vars, NobodyWaitsForNothing, Idle
  <2> QED
    BY <2>1, WaitKept
<1> QED
  BY <1>1, <1>2, PoolIsConsistent, PTL DEF Spec

-----------------------------------------------------------------------------
(* Nothing is forgotten. *)

\* The parks that are closing a page go on.
PagesKept == \A p \in parks : p.stage = "page" => p \in parks'

\* An account's idle context has got its timer, or is as idle as before and
\* what was to see to it still is.
TimerMove(o) ==
  LET c == entries'[o] IN c # None /\ ~ctx'[c].inUse =>
    \/ ~ctx'[c].parked /\ ctx'[c].idle
    \/ ctx'[c].parked /\ (ctx'[c].expire # Off \/ \E p \in parks' : p.of = c /\ p.stage = "page")
    \/ /\ entries[o] = c /\ ~ctx[c].inUse /\ ctx'[c].parked = ctx[c].parked
       /\ ctx[c].idle => ctx'[c].idle \/ Has(queue'[o], IdleTask(c))
       /\ ctx[c].expire # Off => ctx'[c].expire # Off \/ Has(queue'[o], ExpireTask(c))
       /\ \A p \in parks : p.of = c /\ p.stage = "page" => p \in parks' \/ ctx'[c].expire # Off

TimersMove == \A o \in Owner : TimerMove(o)

LEMMA OneTimer ==
  ASSUME PoolInv, NEW c \in Ctx, NEW f, ctx' = [ctx EXCEPT ![c] = f], PagesKept,
         \A o \in Owner : entries'[o] \in {None, entries[o], c},
         \/ f.inUse \/ \A o \in Owner : entries'[o] # c
         \/ ~f.parked /\ f.idle
         \/ f.parked /\ (f.expire # Off \/ \E p \in parks' : p.of = c /\ p.stage = "page")
         \/ /\ UNCHANGED entries /\ f.inUse = ctx[c].inUse /\ f.parked = ctx[c].parked
            /\ f.idle = ctx[c].idle /\ f.expire = ctx[c].expire
  PROVE  TimersMove
<1> SUFFICES ASSUME NEW o \in Owner, entries'[o] # None  PROVE TimerMove(o)
  BY DEF TimersMove, TimerMove
<1>1. ctx'[c] = f /\ \A d \in Ctx : d # c => ctx'[d] = ctx[d]
  BY DEF PoolInv, TypeOK
<1>2. CASE entries'[o] = c
  BY <1>1, <1>2 DEF TimerMove, PagesKept
<1>3. CASE entries'[o] # c
  <2>1. entries'[o] = entries[o] /\ entries[o] \in Ctx
    BY <1>3 DEF PoolInv, TypeOK
  <2>2. ctx'[entries[o]] = ctx[entries[o]]
    BY <1>1, <1>3, <2>1
  <2> QED
    BY <2>1, <2>2 DEF TimerMove, PagesKept
<1> QED
  BY <1>2, <1>3

LEMMA SameTimers ==
  ASSUME PoolInv, UNCHANGED <<entries, ctx>>, PagesKept
  PROVE  TimersMove
BY DEF TimersMove, TimerMove, PagesKept

LEMMA ExpireArmed ==
  \A e \in Entry : ArmExpire(e).expire # Off /\ ArmExpire(e).parked = e.parked
BY PoolAssumption DEF Entry, ArmExpire, Off

\* A context that is closing is no account's.
LEMMA ClosingUnregistered ==
  ASSUME PoolInv, NEW c \in Ctx, ctx[c].closing
  PROVE  \A o \in Owner : entries[o] # c
BY PoolAssumption DEF PoolInv, RegInv

LEMMA DiscardTimers ==
  ASSUME PoolInv, NEW c \in Ctx, NEW e \in Entry, e.closing = ctx[c].closing, Discard(c, e), PagesKept
  PROVE  TimersMove
<1>1. CASE e.closing
  <2>1. ctx' = [ctx EXCEPT ![c] = e] /\ UNCHANGED entries
    BY <1>1 DEF Discard
  <2> QED
    BY <1>1, <2>1, OneTimer, ClosingUnregistered
<1>2. CASE ~e.closing
  <2>1. /\ ctx' = [ctx EXCEPT ![c] = [CancelTimers(e) EXCEPT !.closing = TRUE, !.discarded = TRUE]]
        /\ entries' = [o \in Owner |-> IF entries[o] = c THEN None ELSE entries[o]]
    BY <1>2 DEF Discard
  <2>2. \A o \in Owner : entries'[o] \in {None, entries[o], c} /\ entries'[o] # c
    BY <2>1, PoolAssumption
  <2> QED
    BY <2>1, <2>2, OneTimer
<1> QED
  BY <1>1, <1>2

LEMMA ParkTimers ==
  ASSUME PoolInv, NEW c \in Ctx, NEW e \in Entry, NEW by, e.closing = ctx[c].closing, Park(c, e, by)
  PROVE  TimersMove
<1>1. PagesKept
  BY DEF Park, PagesKept
<1>2. CASE Live(e)
  <2> DEFINE f == [CancelTimers(e) EXCEPT !.parked = TRUE, !.slot = FALSE]
             n == [of |-> c, by |-> by, stage |-> "page", wait |-> None, victims |-> {}]
  <2>1. ctx' = [ctx EXCEPT ![c] = f] /\ UNCHANGED entries /\ parks' = parks \cup {n}
    BY <1>2 DEF Park
  <2>2. f.parked
    BY ParkFields
  <2>3. n \in parks' /\ n.of = c /\ n.stage = "page"
    BY <2>1
  <2> HIDE DEF f, n
  <2> QED
    BY <1>1, <2>1, <2>2, <2>3, OneTimer
<1>3. CASE ~Live(e)
  BY <1>1, <1>3, DiscardTimers DEF Park
<1> QED
  BY <1>2, <1>3

LEMMA AfterUseTimers ==
  ASSUME PoolInv, NEW h \in Call, call[h].at \in Ctx, NEW e \in Entry,
         e.closing = ctx[call[h].at].closing, AfterUse(h, e)
  PROVE  TimersMove
<1> DEFINE c == call[h].at
           f == [e EXCEPT !.inUse = FALSE]
           i == [f EXCEPT !.idle = TRUE]
<1>1. /\ f \in Entry /\ f.closing = e.closing
      /\ i.idle /\ i.parked = f.parked
  BY DEF Entry
<1>2. \/ /\ f.closing /\ ctx' = [ctx EXCEPT ![c] = f] /\ UNCHANGED <<entries, parks>>
      \/ Discard(c, f) /\ UNCHANGED parks
      \/ /\ f.parked /\ ctx' = [ctx EXCEPT ![c] = ArmExpire(f)] /\ UNCHANGED <<entries, parks>>
      \/ Park(c, f, None)
      \/ /\ ~f.parked /\ ctx' = [ctx EXCEPT ![c] = i] /\ UNCHANGED <<entries, parks>>
  BY DEF AfterUse
<1> HIDE DEF f, i
<1>3. CASE f.closing /\ ctx' = [ctx EXCEPT ![c] = f] /\ UNCHANGED <<entries, parks>>
  BY <1>1, <1>3, OneTimer, ClosingUnregistered DEF PagesKept
<1>4. CASE Discard(c, f) /\ UNCHANGED parks
  BY <1>1, <1>4, DiscardTimers DEF PagesKept
<1>5. CASE f.parked /\ ctx' = [ctx EXCEPT ![c] = ArmExpire(f)] /\ UNCHANGED <<entries, parks>>
  BY <1>1, <1>5, OneTimer, ExpireArmed DEF PagesKept
<1>6. CASE Park(c, f, None)
  BY <1>1, <1>6, ParkTimers
<1>7. CASE ~f.parked /\ ctx' = [ctx EXCEPT ![c] = i] /\ UNCHANGED <<entries, parks>>
  BY <1>1, <1>7, OneTimer DEF PagesKept
<1> QED
  BY <1>2, <1>3, <1>4, <1>5, <1>6, <1>7

LEMMA CallTimers ==
  ASSUME PoolInv, NEW h \in Call, CallStep(h)
  PROVE  TimersMove
<1> DEFINE k == call[h]
<1>0. /\ ShapeOf(k) /\ k \in CallState
      /\ (k.at # None => /\ k.at \in Ctx /\ ctx[k.at] \in Entry
                         /\ ctx[k.at].closing \/ ctx[k.at].inUse)
      /\ (k.what \in {"session", "verify", "forget"} => k.whose \in Owner)
  BY CallFacts, CtxFacts
<1>a. UNCHANGED <<entries, ctx>> /\ UNCHANGED parks => TimersMove
  BY SameTimers DEF PagesKept
<1>b. UNCHANGED parks => PagesKept
  BY DEF PagesKept
<1>c. \A k1 : Entering(h, k1) => k.whose \in Owner
  BY <1>0 DEF Entering, ShapeOf, CallState
<1>d. \A o \in Owner : entries[o] # None => entries[o] \in Ctx /\ ctx[entries[o]] \in Entry
  BY DEF PoolInv, TypeOK
<1>1. CASE EnterExisting(h)
  <2> DEFINE c == entries[k.whose]
             f == [CancelTimers(ctx[c]) EXCEPT !.inUse = TRUE]
  <2>1. c \in Ctx /\ ctx[c] \in Entry
    BY <1>1, <1>c, <1>d DEF EnterExisting
  <2>2. ctx' = [ctx EXCEPT ![c] = f] /\ UNCHANGED entries /\ UNCHANGED parks
    BY <1>1 DEF EnterExisting
  <2>3. f.inUse
    BY <2>1 DEF Entry, CancelTimers
  <2> HIDE DEF f, c
  <2> QED
    BY <1>b, <2>1, <2>2, <2>3, OneTimer
<1>2. CASE EnterDead(h) \/ Forget(h) \/ Proven(h)
  <2> DEFINE c == entries[k.whose]
  <2>1. k.whose \in Owner
    BY <1>0, <1>2, <1>c DEF EnterDead, Forget, Proven, ShapeOf
  <2>2. c # None /\ Discard(c, ctx[c]) /\ UNCHANGED parks
    BY <1>2 DEF EnterDead, Forget, Proven
  <2>3. c \in Ctx /\ ctx[c] \in Entry
    BY <1>d, <2>1, <2>2
  <2> HIDE DEF c
  <2> QED
    BY <1>b, <2>2, <2>3, DiscardTimers
<1>3. CASE EnterNew(h) \/ EnterNothing(h) \/ SessionAlive(h) \/ SessionOver(h) \/ Wait(h)
           \/ OpenFails(h) \/ (Awaited(h) /\ k.pc # "failing")
  BY <1>3, <1>a DEF EnterNew, EnterNothing, SessionAlive, SessionOver, Wait, OpenFails, Awaited
<1>4. CASE TakeSlot(h) \/ Resume(h)
  <2>1. CASE k.at = None
    BY <1>4, <1>a, <2>1 DEF TakeSlot, Resume
  <2>2. CASE k.at # None
    <3> DEFINE c == k.at
               f == [ctx[c] EXCEPT !.slot = TRUE]
    <3>1. ctx' = [ctx EXCEPT ![c] = f] /\ UNCHANGED entries /\ UNCHANGED parks
      BY <1>4, <2>2 DEF TakeSlot, Resume
    <3>2. /\ c \in Ctx /\ f.inUse = ctx[c].inUse /\ f.parked = ctx[c].parked
          /\ f.idle = ctx[c].idle /\ f.expire = ctx[c].expire
      BY <1>0, <2>2 DEF Entry
    <3> HIDE DEF f, c
    <3> QED
      BY <1>b, <3>1, <3>2, OneTimer
  <2> QED
    BY <2>1, <2>2
<1>6. ASSUME NEW c \in Ctx, MakeRoom(h, c)  PROVE TimersMove
  <2>1. Park(c, ctx[c], h) /\ ctx[c] \in Entry
    BY <1>6, CtxFacts DEF MakeRoom
  <2> QED
    BY <2>1, ParkTimers
<1>8. CASE QueueTimeout(h)
  <2>1. CASE k.at = None
    BY <1>8, <1>a, <2>1 DEF QueueTimeout
  <2>2. CASE k.at # None
    <3> DEFINE c == k.at
               f == [ctx[c] EXCEPT !.inUse = FALSE]
    <3>1. UNCHANGED parks /\ \/ Discard(c, f)
                             \/ ~f.closing /\ ctx' = [ctx EXCEPT ![c] = ArmExpire(f)] /\ UNCHANGED entries
      BY <1>8, <2>2 DEF QueueTimeout
    <3>2. c \in Ctx /\ ctx[c] \in Entry /\ (ctx[c].closing \/ ctx[c].parked)
      BY <1>0, <1>8, <2>2 DEF QueueTimeout, PoolInv, AtInv, ForSlot
    <3>3. f \in Entry /\ f.closing = ctx[c].closing /\ f.parked = ctx[c].parked
      BY <3>2, UseFields DEF Entry
    <3> HIDE DEF c, f
    <3>4. ArmExpire(f).parked = f.parked /\ ArmExpire(f).expire # Off
      BY <3>3, ExpireArmed
    <3>5. CASE Discard(c, f)
      BY <1>b, <3>1, <3>2, <3>3, <3>5, DiscardTimers
    <3>6. CASE ~f.closing /\ ctx' = [ctx EXCEPT ![c] = ArmExpire(f)] /\ UNCHANGED entries
      BY <1>b, <3>1, <3>2, <3>3, <3>4, <3>6, OneTimer
    <3> QED
      BY <3>1, <3>5, <3>6
  <2> QED
    BY <2>1, <2>2
<1>9. ASSUME NEW c \in Ctx, Open(h, c)  PROVE TimersMove
  <2> DEFINE f == Opened(k.whose)
  <2>1. ctx' = [ctx EXCEPT ![c] = f] /\ UNCHANGED parks /\ f.inUse
    BY <1>9 DEF Open, Opened, Closed
  <2>2. \A o \in Owner : entries'[o] \in {None, entries[o], c}
    BY <1>9 DEF Open, PoolInv, TypeOK
  <2> HIDE DEF f
  <2> QED
    BY <1>b, <2>1, <2>2, OneTimer
<1>11. CASE Unpark(h) \/ CloseContext(h) \/ Login(h)
  <2> DEFINE c == k.at
  <2>1. c # None
    BY <1>0, <1>11, PoolAssumption DEF Unpark, CloseContext, Login, ShapeOf, Working
  <2>2. c \in Ctx /\ ctx[c] \in Entry /\ (ctx[c].closing \/ ctx[c].inUse)
    BY <1>0, <2>1
  <2>3. UNCHANGED entries /\ UNCHANGED parks
    BY <1>11 DEF Unpark, CloseContext, Login
  <2>4. \E f : ctx' = [ctx EXCEPT ![c] = f] /\ f.inUse = ctx[c].inUse
    <3>1. /\ [ctx[c] EXCEPT !.parked = FALSE].inUse = ctx[c].inUse
          /\ [ctx[c] EXCEPT !.closing = TRUE].inUse = ctx[c].inUse
          /\ [ctx[c] EXCEPT !.left = TTL, !.stale = FALSE].inUse = ctx[c].inUse
      BY <2>2 DEF Entry
    <3>2. \/ ctx' = [ctx EXCEPT ![c] = [ctx[c] EXCEPT !.parked = FALSE]]
          \/ ctx' = [ctx EXCEPT ![c] = [ctx[c] EXCEPT !.closing = TRUE]]
          \/ ctx' = [ctx EXCEPT ![c] = [ctx[c] EXCEPT !.left = TTL, !.stale = FALSE]]
      BY <1>11, <2>2 DEF Unpark, CloseContext, Login, PoolInv, TypeOK
    <3> QED
      BY <3>1, <3>2
  <2>5. PICK f : ctx' = [ctx EXCEPT ![c] = f] /\ f.inUse = ctx[c].inUse
    BY <2>4
  <2>6. f.inUse \/ \A o \in Owner : entries'[o] # c
    BY <2>2, <2>3, <2>5, ClosingUnregistered
  <2> QED
    BY <1>b, <2>2, <2>3, <2>5, <2>6, OneTimer
<1>12. CASE UnparkFails(h) \/ CheckFails(h) \/ Used(h) \/ (Awaited(h) /\ k.pc = "failing")
  <2>1. k.at \in Ctx /\ ctx[k.at] \in Entry
    BY <1>0, <1>12, CtxFacts DEF UnparkFails, CheckFails, Used, ShapeOf, Working
  <2>2. \E e \in Entry : AfterUse(h, e) /\ e.closing = ctx[k.at].closing
    <3>1. /\ [ctx[k.at] EXCEPT !.discarded = TRUE] \in Entry
          /\ [ctx[k.at] EXCEPT !.stale = TRUE] \in Entry
          /\ [ctx[k.at] EXCEPT !.discarded = TRUE].closing = ctx[k.at].closing
          /\ [ctx[k.at] EXCEPT !.stale = TRUE].closing = ctx[k.at].closing
      BY <2>1 DEF Entry
    <3> QED
      BY <1>12, <2>1, <3>1 DEF UnparkFails, CheckFails, Used, Awaited
  <2> QED
    BY <2>1, <2>2, AfterUseTimers
<1>13. CASE LoginFails(h)
  <2>1. k.at \in Ctx /\ ctx[k.at] \in Entry /\ Discard(k.at, ctx[k.at]) /\ UNCHANGED parks
    BY <1>0, <1>13, CtxFacts DEF LoginFails, ShapeOf, Working
  <2> QED
    BY <1>b, <2>1, DiscardTimers
<1>14. CASE Adopt(h)
  <2> DEFINE c == k.at
             f == Handed(k.whose, ctx[c])
             i == Rested(k.whose, ctx[c])
             n == [of |-> c, by |-> None, stage |-> "page", wait |-> None, victims |-> {}]
  <2>1. c \in Ctx /\ ctx[c] \in Entry /\ k.whose \in Owner
    BY <1>0, <1>14, CtxFacts DEF Adopt, ShapeOf, Working
  <2>2. f.parked /\ i.idle /\ ~i.parked
    BY <2>1, AdoptedFields
  <2>3. \A o \in Owner : entries'[o] \in {None, entries[o], c}
    BY <1>14 DEF Adopt, PoolInv, TypeOK
  <2>4. \/ ctx' = [ctx EXCEPT ![c] = f] /\ parks' = parks \cup {n}
        \/ ctx' = [ctx EXCEPT ![c] = i] /\ UNCHANGED parks
    BY <1>14 DEF Adopt, Handed, Rested
  <2>5. PagesKept
    BY <2>4 DEF PagesKept
  <2>6. n.of = c /\ n.stage = "page"
    OBVIOUS
  <2> HIDE DEF f, i, n, c
  <2>7. CASE ctx' = [ctx EXCEPT ![c] = f] /\ parks' = parks \cup {n}
    BY <2>1, <2>2, <2>3, <2>5, <2>6, <2>7, OneTimer
  <2>8. CASE ctx' = [ctx EXCEPT ![c] = i] /\ UNCHANGED parks
    BY <2>1, <2>2, <2>3, <2>5, <2>8, OneTimer
  <2> QED
    BY <2>4, <2>7, <2>8
<1>15. ASSUME NEW kind, NEW o, Arrive(h, kind, o)  PROVE TimersMove
  BY <1>15, <1>a DEF Arrive
<1> QED
  BY <1>1, <1>2, <1>3, <1>4, <1>6, <1>8, <1>9, <1>11, <1>12, <1>13, <1>14, <1>15 DEF CallStep

\* What #armExpire or nothing does to a context, when trimming closes others.
LEMMA TrimTimers ==
  ASSUME PoolInv, NEW p \in parks, NEW entry, Armed(p, entry), NEW V \in SUBSET Ctx,
         \A d \in Ctx : entry[d].expire = Off => ctx[d].expire = Off,
         p.stage = "page" /\ ~ctx[p.of].closing => entry[p.of].expire # Off,
         TrimNext(p, entry, V)
  PROVE  TimersMove
<1> SUFFICES ASSUME NEW o \in Owner, entries'[o] # None  PROVE TimerMove(o)
  BY DEF TimersMove, TimerMove
<1> DEFINE c == entries'[o]
<1>1. /\ entries[o] = c /\ c \in Ctx /\ ctx'[c] = entry[c]
  <2>1. \A e \in Owner : entries[e] \in Ctx \cup {None}
    BY DEF PoolInv, TypeOK
  <2>2. CASE ctx' = entry /\ UNCHANGED entries
    BY <2>1, <2>2
  <2>3. ASSUME NEW v \in V,
               ctx' = [entry EXCEPT ![v] = [CancelTimers(entry[v]) EXCEPT !.closing = TRUE, !.discarded = TRUE]],
               entries' = [e \in Owner |-> IF entries[e] = v THEN None ELSE entries[e]]
        PROVE  entries[o] = c /\ c \in Ctx /\ ctx'[c] = entry[c]
    BY <2>1, <2>3 DEF Armed
  <2>4. \/ ctx' = entry /\ UNCHANGED entries
        \/ \E v \in V :
             /\ ctx' = [entry EXCEPT ![v] = [CancelTimers(entry[v]) EXCEPT !.closing = TRUE, !.discarded = TRUE]]
             /\ entries' = [e \in Owner |-> IF entries[e] = v THEN None ELSE entries[e]]
    BY DEF TrimNext
  <2> QED
    BY <2>2, <2>3, <2>4
<1>2. \A q \in parks : q # p => q \in parks'
  BY DEF TrimNext
<1>3. ctx[c].owner = o /\ ~ctx[c].closing
  BY <1>1 DEF PoolInv, RegInv
<1>4. /\ entry[c].inUse = ctx[c].inUse /\ entry[c].parked = ctx[c].parked
      /\ entry[c].idle = ctx[c].idle
  BY <1>1, ArmedSame
<1>5. \A q \in parks : q.of = c /\ q.stage = "page" => q \in parks' \/ entry[c].expire # Off
  BY <1>2, <1>3
<1>6. ctx[c].expire # Off => entry[c].expire # Off
  BY <1>1
<1> HIDE DEF c
<1> QED
  BY <1>1, <1>4, <1>5, <1>6 DEF TimerMove, c

LEMMA PoolTimers ==
  ASSUME PoolInv, PoolStep
  PROVE  TimersMove
<1>b. UNCHANGED parks => PagesKept
  BY DEF PagesKept
<1>1. ASSUME NEW o \in Owner, NEW c \in Ctx, IdleRuns(o, c)  PROVE TimersMove
  <2>1. ctx[c] \in Entry
    BY CtxFacts
  <2>2. CASE Park(c, ctx[c], o)
    BY <2>1, <2>2, ParkTimers
  <2>3. CASE ~Park(c, ctx[c], o)
    BY <1>1, <1>b, <2>3, SameTimers DEF IdleRuns
  <2> QED
    BY <2>2, <2>3
<1>2. ASSUME NEW o \in Owner, NEW c \in Ctx, ExpireRuns(o, c)  PROVE TimersMove
  <2>1. ctx[c] \in Entry /\ PagesKept
    BY <1>2, CtxFacts DEF ExpireRuns, PagesKept
  <2>2. Discard(c, ctx[c]) \/ UNCHANGED <<entries, ctx>>
    BY <1>2 DEF ExpireRuns
  <2> QED
    BY <2>1, <2>2, DiscardTimers, SameTimers
<1>3. ASSUME NEW c \in Ctx, ContextClosed(c)  PROVE TimersMove
  <2>1. ctx' = [ctx EXCEPT ![c] = Closed] /\ UNCHANGED entries /\ UNCHANGED parks /\ ctx[c].closing
    BY <1>3 DEF ContextClosed
  <2>2. \A o \in Owner : entries'[o] # c
    BY <2>1, ClosingUnregistered
  <2> QED
    BY <1>b, <2>1, <2>2, OneTimer
<1>4. ASSUME NEW c \in Ctx, IdleFires(c) \/ ExpireFires(c)  PROVE TimersMove
  <2> SUFFICES ASSUME NEW o \in Owner, entries'[o] # None  PROVE TimerMove(o)
    BY DEF TimersMove, TimerMove
  <2>1. UNCHANGED entries /\ UNCHANGED parks /\ ctx[c] \in Entry
    BY <1>4, CtxFacts DEF IdleFires, ExpireFires
  <2>2. entries'[o] = entries[o] /\ entries[o] \in Ctx /\ ctx[entries[o]].owner = o
    BY <2>1 DEF PoolInv, TypeOK, RegInv
  <2>3. CASE entries[o] # c
    <3>1. ctx'[entries[o]] = ctx[entries[o]]
      BY <1>4, <2>2, <2>3 DEF IdleFires, ExpireFires, PoolInv, TypeOK
    <3> QED
      BY <2>1, <2>2, <3>1 DEF TimerMove
  <2>4. CASE entries[o] = c /\ IdleFires(c)
    <3>1. /\ ctx'[c].inUse = ctx[c].inUse /\ ctx'[c].parked = ctx[c].parked
          /\ ctx'[c].expire = ctx[c].expire
      BY <2>1, <2>4 DEF IdleFires, Entry, PoolInv, TypeOK
    <3>2. queue'[o] = Append(queue[o], IdleTask(c)) /\ queue[o] \in Seq(Task)
      BY <2>2, <2>4 DEF IdleFires, PoolInv, TypeOK
    <3>3. Has(queue'[o], IdleTask(c))
      BY <3>2, ChainAppend, TaskFacts
    <3> QED
      BY <2>1, <2>2, <2>4, <3>1, <3>3 DEF TimerMove
  <2>5. CASE entries[o] = c /\ ExpireFires(c)
    <3>1. /\ ctx'[c].inUse = ctx[c].inUse /\ ctx'[c].parked = ctx[c].parked
          /\ ctx'[c].idle = ctx[c].idle
      BY <2>1, <2>5 DEF ExpireFires, Entry, PoolInv, TypeOK
    <3>2. queue'[o] = Append(queue[o], ExpireTask(c)) /\ queue[o] \in Seq(Task)
      BY <2>2, <2>5 DEF ExpireFires, PoolInv, TypeOK
    <3>3. Has(queue'[o], ExpireTask(c))
      BY <3>2, ChainAppend, TaskFacts
    <3> QED
      BY <2>1, <2>2, <2>5, <3>1, <3>3 DEF TimerMove
  <2> QED
    BY <1>4, <2>3, <2>4, <2>5
<1>5. ASSUME NEW p \in parks, PageClosed(p)  PROVE TimersMove
  <2> DEFINE entry == IF ctx[p.of].closing THEN ctx ELSE [ctx EXCEPT ![p.of] = ArmExpire(ctx[p.of])]
  <2>1. PICK V \in Surplus(entry) : TrimNext(p, entry, V)
    BY <1>5 DEF PageClosed
  <2>2. Armed(p, entry) /\ p.of \in Ctx
    BY PageEntry DEF PoolInv, TypeOK, ParkRun
  <2>3. ~ctx[p.of].closing => entry[p.of].expire # Off
    BY <2>2, ExpireArmed DEF PoolInv, TypeOK
  <2>4. \A d \in Ctx : d # p.of => entry[d] = ctx[d]
    BY <2>2 DEF Armed
  <2>5. ctx[p.of].closing => entry = ctx
    OBVIOUS
  <2> HIDE DEF entry
  <2>6. V \in SUBSET Ctx
    BY SurplusIdle
  <2>7. \A d \in Ctx : entry[d].expire = Off => ctx[d].expire = Off
    BY <2>3, <2>4, <2>5
  <2> QED
    BY <2>1, <2>2, <2>3, <2>6, <2>7, TrimTimers
<1>6. ASSUME NEW p \in parks, Trimmed(p)  PROVE TimersMove
  <2>1. /\ TrimNext(p, ctx, p.victims) /\ p.victims \in SUBSET Ctx /\ Armed(p, ctx)
        /\ p.stage # "page"
    BY <1>6, PageEntry DEF Trimmed, PoolInv, TypeOK, ParkRun
  <2> QED
    BY <2>1, TrimTimers
<1>7. CASE BrowserGone
  <2> SUFFICES ASSUME NEW o \in Owner, entries'[o] # None, ~ctx'[entries'[o]].inUse  PROVE FALSE
    BY DEF TimersMove, TimerMove
  <2>1. entries[o] \in Ctx \cup {None}
    BY DEF PoolInv, TypeOK
  <2>2. entries'[o] = entries[o] /\ entries[o] \in Ctx
    BY <1>7, <2>1 DEF BrowserGone
  <2>3. ctx[entries[o]].inUse
    BY <1>7, <2>2 DEF BrowserGone
  <2>4. ctx'[entries[o]] = [ctx[entries[o]] EXCEPT !.discarded = TRUE]
    BY <1>7, <2>2, <2>3 DEF BrowserGone
  <2>5. ctx'[entries[o]].inUse
    BY <2>2, <2>3, <2>4, CtxFacts DEF Entry
  <2> QED
    BY <2>2, <2>5
<1>8. CASE Tick
  <2>1. ASSUME NEW d \in Ctx
        PROVE  /\ ctx'[d].inUse = ctx[d].inUse /\ ctx'[d].idle = ctx[d].idle
               /\ ctx'[d].parked = ctx[d].parked
               /\ ctx[d].expire # Off => ctx'[d].expire # Off
    <3>1. \A n \in 0 .. Off : n # Off => (IF n \in 1 .. TTL THEN n - 1 ELSE n) # Off
      BY PoolAssumption DEF Off
    <3>2. ctx[d] \in Entry /\ ctx[d].expire \in 0 .. Off
      BY CtxFacts DEF Entry
    <3>3. ctx'[d] = [ctx[d] EXCEPT !.left = IF ctx[d].left > 0 THEN ctx[d].left - 1 ELSE 0,
                       !.expire = IF ctx[d].expire \in 1..TTL THEN ctx[d].expire - 1 ELSE ctx[d].expire]
      BY <1>8, <3>2 DEF Tick, Entry
    <3>4. /\ ctx'[d].inUse = ctx[d].inUse /\ ctx'[d].idle = ctx[d].idle
          /\ ctx'[d].parked = ctx[d].parked
          /\ ctx'[d].expire = IF ctx[d].expire \in 1..TTL THEN ctx[d].expire - 1 ELSE ctx[d].expire
      BY <3>2, <3>3 DEF Entry
    <3> QED
      BY <3>1, <3>2, <3>4
  <2>2. UNCHANGED entries /\ UNCHANGED parks
    BY <1>8 DEF Tick
  <2>3. \A o \in Owner : entries[o] # None => entries[o] \in Ctx
    BY DEF PoolInv, TypeOK
  <2> QED
    BY <2>1, <2>2, <2>3 DEF TimersMove, TimerMove
<1> QED
  BY <1>1, <1>2, <1>3, <1>4, <1>5, <1>6, <1>7, <1>8 DEF PoolStep

\* A timer's task stays in its chain as long as its context waits for it.
LEMMA TaskStays ==
  ASSUME PoolInv, Moves, NEW o \in Owner, entries[o] # None, ~ctx[entries[o]].inUse
  PROVE  LET c == entries[o] IN
         /\ Has(queue[o], ExpireTask(c)) => Has(queue'[o], ExpireTask(c))
         /\ ~ctx[c].parked /\ Has(queue[o], IdleTask(c)) => Has(queue'[o], IdleTask(c))
<1> DEFINE c == entries[o]
<1>1. QueueMove(o) /\ queue[o] \in Seq(Task) /\ c \in Ctx
  BY DEF Moves, PoolInv, TypeOK
<1>2. CASE queue'[o] = queue[o]
  BY <1>2
<1>3. CASE \E t \in Task : queue'[o] = Append(queue[o], t)
  BY <1>1, <1>3, ChainAppend
<1>4. ASSUME queue[o] # <<>>, queue'[o] = Tail(queue[o]),
             NEW h \in Call, Head(queue[o]) = CallTask(h)
      PROVE  \A x \in {IdleTask(c), ExpireTask(c)} : Has(queue[o], x) => Has(queue'[o], x)
  BY <1>1, <1>4, ChainTail, TaskFacts
<1>5. ASSUME queue[o] # <<>>, queue'[o] = Tail(queue[o]), Spent(o, Head(queue[o]))
      PROVE  /\ Has(queue[o], ExpireTask(c)) => Has(queue'[o], ExpireTask(c))
             /\ ~ctx[c].parked /\ Has(queue[o], IdleTask(c)) => Has(queue'[o], IdleTask(c))
  <2>1. Head(queue[o]) # ExpireTask(c)
    BY <1>1, <1>5, TaskFacts DEF Spent
  <2>2. Head(queue[o]) = IdleTask(c) => ctx[c].parked
    BY <1>1, <1>5, TaskFacts DEF Spent
  <2> QED
    BY <1>1, <1>5, <2>1, <2>2, ChainTail
<1> QED
  BY <1>1, <1>2, <1>3, <1>4, <1>5 DEF QueueMove

LEMMA TimersKept ==
  ASSUME PoolInv, TimersInv, Next
  PROVE  TimersInv'
<1>1. Moves /\ TimersMove
  BY NextMoves, CallTimers, PoolTimers, NextSteps
<1> SUFFICES ASSUME NEW o \in Owner, entries'[o] # None, ~ctx'[entries'[o]].inUse
             PROVE  /\ ~ctx'[entries'[o]].parked =>
                         ctx'[entries'[o]].idle \/ Has(queue'[o], IdleTask(entries'[o]))
                    /\ ctx'[entries'[o]].parked =>
                         \/ ctx'[entries'[o]].expire # Off
                         \/ Has(queue'[o], ExpireTask(entries'[o]))
                         \/ \E p \in parks' : p.of = entries'[o] /\ p.stage = "page"
  BY DEF TimersInv, Has
<1> DEFINE c == entries'[o]
<1>2. TimerMove(o)
  BY <1>1 DEF TimersMove
<1>3. CASE /\ entries[o] = c /\ ~ctx[c].inUse /\ ctx'[c].parked = ctx[c].parked
           /\ ctx[c].idle => ctx'[c].idle \/ Has(queue'[o], IdleTask(c))
           /\ ctx[c].expire # Off => ctx'[c].expire # Off \/ Has(queue'[o], ExpireTask(c))
           /\ \A p \in parks : p.of = c /\ p.stage = "page" => p \in parks' \/ ctx'[c].expire # Off
  <2>1. /\ ~ctx[c].parked => ctx[c].idle \/ Has(queue[o], IdleTask(c))
        /\ ctx[c].parked => \/ ctx[c].expire # Off
                            \/ Has(queue[o], ExpireTask(c))
                            \/ \E p \in parks : p.of = c /\ p.stage = "page"
    BY <1>3 DEF TimersInv
  <2>2. /\ Has(queue[o], ExpireTask(c)) => Has(queue'[o], ExpireTask(c))
        /\ ~ctx[c].parked /\ Has(queue[o], IdleTask(c)) => Has(queue'[o], IdleTask(c))
    BY <1>1, <1>3, TaskStays
  <2> QED
    BY <1>3, <2>1, <2>2
<1> QED
  BY <1>2, <1>3 DEF TimerMove

\* A context that an account has and no call uses is on its way out: its idle
\* timer runs, or its expiry timer, or what they started is in the account's
\* chain, or the park that will arm the expiry timer is closing its page.
THEOREM NoContextIsForgotten == Spec => []NothingForgotten
<1>1. Init => TimersInv
  BY DEF Init, TimersInv
<1>2. PoolInv /\ TimersInv /\ [Next]_vars => TimersInv'
  <2>1. UNCHANGED vars /\ TimersInv => TimersInv'
    BY DEF vars, TimersInv, Has
  <2> QED
    BY <2>1, TimersKept
<1>3. TimersInv => NothingForgotten
  BY DEF TimersInv, NothingForgotten, Has
<1> QED
  BY <1>1, <1>2, <1>3, PoolIsConsistent, PTL DEF Spec

-----------------------------------------------------------------------------
(* But for that step, nothing is closed under a call. *)

\* A call's context is closed by the call itself, when nothing trims it.
LEMMA KeptStays ==
  ASSUME PoolInv, KeptInv, Next, ~TrimsUnderACall
  PROVE  KeptInv'
<1>1. Moves /\ TypeOK'
  BY NextMoves
<1> SUFFICES ASSUME NEW g \in Call, call'[g].at # None, call'[g].pc \notin {"failing", "ending"},
                    ctx'[call'[g].at].closing
             PROVE  FALSE
  BY DEF KeptInv
<1> DEFINE c == call'[g].at
<1>2. /\ c \in Ctx /\ call'[g].pc # "none"
      /\ c = call[g].at \/ Enters(g) \/ Opens(g)
      /\ call'[g] = call[g] \/ Act(g)
  BY <1>1, AtMoves
<1>3. c = call[g].at
  BY <1>2 DEF Enters, Opens
<1>4. call[g].pc \notin {"failing", "ending"}
  BY <1>2 DEF Act
<1>5. ~ctx[c].closing
  BY <1>3, <1>4 DEF KeptInv
<1>6. call'[g].pc \in Leaving
  <2>1. CtxMove(c) /\ ctx'[c].closing
    BY <1>1, <1>2 DEF Moves
  <2>2. \/ \A h \in Call : call[h].at = c => call'[h].pc \in Leaving
        \/ \E p \in parks : c \in p.victims /\ Trimmed(p)
    BY <1>5, <2>1 DEF CtxMove
  <2> HIDE DEF c
  <2>3. \A p \in parks : ~(c \in p.victims /\ Trimmed(p))
    BY <1>3, <1>5, <2>1 DEF TrimsUnderACall
  <2> QED
    BY <1>3, <2>2, <2>3
<1> QED
  BY <1>2, <1>6 DEF Leaving

\* Unless #trimParked closes a context that a call has taken since it was chosen,
\* no context is closed under a call that works on it, whoever parks, trims or
\* expires what meanwhile: nothing else in the pool can do it.
THEOREM ContextsInUseAreKept == Spec /\ [][~TrimsUnderACall]_vars => []InUseKept
<1>1. Init => KeptInv
  BY DEF Init, KeptInv, NoCall
<1>2. PoolInv /\ KeptInv /\ [Next]_vars /\ [~TrimsUnderACall]_vars => KeptInv'
  <2>1. UNCHANGED vars /\ KeptInv => KeptInv'
    BY DEF vars, KeptInv
  <2> QED
    BY <2>1, KeptStays
<1>3. PoolInv /\ KeptInv => InUseKept
  <2> SUFFICES ASSUME PoolInv, KeptInv, NEW h \in Call,
                      call[h].pc \in {"paging", "checking", "logging", "using", "probing", "replacing"}
               PROVE  ~ctx[call[h].at].closing
    BY DEF InUseKept
  <2>1. call[h].at \in Ctx /\ call[h].at # None
    BY CallFacts, PoolAssumption DEF ShapeOf, Working
  <2> QED
    BY <2>1 DEF KeptInv
<1> QED
  BY <1>1, <1>2, <1>3, PoolIsConsistent, PTL DEF Spec

-----------------------------------------------------------------------------
(* Slots: who holds one, and who has been given one. *)

\* A slot has been given up: it passes to one who had none, or is free.
Passed(W) ==
  \/ active' = (IF active > 0 THEN active - 1 ELSE 0) /\ Coming' = W
  \/ UNCHANGED active /\ \E g \in Call \ W : Coming' = W \cup {g}

\* No step changes more than one slot.
SlotMove ==
  \/ UNCHANGED active /\ Held' = Held /\ Coming' = Coming
  \/ active' = active + 1 /\ Held' = Held /\ \E h \in Call \ Coming : Coming' = Coming \cup {h}
  \/ active' = active + 1 /\ Coming' = Coming /\ \E c \in Ctx \ Held : Held' = Held \cup {c}
  \/ /\ UNCHANGED active
     /\ \E h \in Coming, c \in Ctx \ Held : Coming' = Coming \ {h} /\ Held' = Held \cup {c}
  \/ \E c \in Held : Held' = Held \ {c} /\ Passed(Coming)
  \/ \E h \in Coming : Held' = Held /\ Passed(Coming \ {h})

LEMMA CountKept ==
  ASSUME Counted, SlotMove
  PROVE  Counted'
<1>1. IsFiniteSet(Held) /\ IsFiniteSet(Coming)
  BY DEF Counted
<1>2. Cardinality(Held) \in Nat /\ Cardinality(Coming) \in Nat
  BY <1>1, FS_CardinalityType
<1>3. /\ \A c \in Ctx \ Held : Cardinality(Held \cup {c}) = Cardinality(Held) + 1
      /\ \A c \in Held : Cardinality(Held \ {c}) = Cardinality(Held) - 1
      /\ \A h \in Call \ Coming : Cardinality(Coming \cup {h}) = Cardinality(Coming) + 1
      /\ \A h \in Coming : /\ IsFiniteSet(Coming \ {h})
                           /\ Cardinality(Coming \ {h}) = Cardinality(Coming) - 1
  BY <1>1, FS_AddElement, FS_RemoveElement
<1>4. /\ \A c \in Held : Held # {} /\ Cardinality(Held) > 0
      /\ \A h \in Coming : Coming # {} /\ Cardinality(Coming) > 0
  BY <1>1, <1>2, FS_EmptySet
<1>5. ASSUME NEW h \in Coming, NEW g \in Call \ (Coming \ {h})
      PROVE  Cardinality((Coming \ {h}) \cup {g}) = Cardinality(Coming)
  <2> DEFINE W == Coming \ {h}
  <2>1. IsFiniteSet(W) /\ Cardinality(W) = Cardinality(Coming) - 1 /\ g \notin W
    BY <1>3
  <2> HIDE DEF W
  <2>2. Cardinality(W \cup {g}) = Cardinality(W) + 1
    BY <2>1, FS_AddElement
  <2>3. Cardinality(W \cup {g}) = Cardinality(Coming)
    BY <1>2, <2>1, <2>2
  <2> QED
    BY <2>3 DEF W
<1>6. ASSUME NEW c \in Held, Held' = Held \ {c}, Passed(Coming)
      PROVE  active' = Cardinality(Held') + Cardinality(Coming')
  BY SMTT(30), <1>2, <1>3, <1>4, <1>6 DEF Passed, Counted
<1>7. ASSUME NEW h \in Coming, Held' = Held, Passed(Coming \ {h})
      PROVE  active' = Cardinality(Held') + Cardinality(Coming')
  <2>1. CASE active' = (IF active > 0 THEN active - 1 ELSE 0) /\ Coming' = Coming \ {h}
    <3>1. Cardinality(Coming') = Cardinality(Coming) - 1 /\ Cardinality(Held') = Cardinality(Held)
      BY <1>3, <1>7, <2>1
    <3>2. Cardinality(Coming) > 0
      BY <1>4
    <3> QED
      BY <1>2, <2>1, <3>1, <3>2 DEF Counted
  <2>2. ASSUME NEW g \in Call \ (Coming \ {h}), active' = active, Coming' = (Coming \ {h}) \cup {g}
        PROVE  active' = Cardinality(Held') + Cardinality(Coming')
    BY <1>5, <1>7, <2>2 DEF Counted
  <2> QED
    BY <1>7, <2>1, <2>2 DEF Passed
<1>8. ASSUME \/ UNCHANGED active /\ Held' = Held /\ Coming' = Coming
             \/ active' = active + 1 /\ Held' = Held /\ \E h \in Call \ Coming : Coming' = Coming \cup {h}
             \/ active' = active + 1 /\ Coming' = Coming /\ \E c \in Ctx \ Held : Held' = Held \cup {c}
             \/ /\ UNCHANGED active
                /\ \E h \in Coming, c \in Ctx \ Held : Coming' = Coming \ {h} /\ Held' = Held \cup {c}
      PROVE  active' = Cardinality(Held') + Cardinality(Coming')
  <2>1. active = Cardinality(Held) + Cardinality(Coming)
    BY DEF Counted
  <2>2. CASE UNCHANGED active /\ Held' = Held /\ Coming' = Coming
    BY <2>1, <2>2
  <2>3. CASE active' = active + 1 /\ Held' = Held /\ \E h \in Call \ Coming : Coming' = Coming \cup {h}
    <3>1. Cardinality(Held') = Cardinality(Held) /\ Cardinality(Coming') = Cardinality(Coming) + 1
      BY <1>3, <2>3
    <3> QED
      BY <1>2, <2>1, <2>3, <3>1
  <2>4. CASE active' = active + 1 /\ Coming' = Coming /\ \E c \in Ctx \ Held : Held' = Held \cup {c}
    <3>1. Cardinality(Held') = Cardinality(Held) + 1 /\ Cardinality(Coming') = Cardinality(Coming)
      BY <1>3, <2>4
    <3> QED
      BY <1>2, <2>1, <2>4, <3>1
  <2>5. CASE /\ UNCHANGED active
             /\ \E h \in Coming, c \in Ctx \ Held : Coming' = Coming \ {h} /\ Held' = Held \cup {c}
    <3>1. Cardinality(Held') = Cardinality(Held) + 1 /\ Cardinality(Coming') = Cardinality(Coming) - 1
      BY <1>3, <2>5
    <3> QED
      BY <1>2, <2>1, <2>5, <3>1
  <2> QED
    BY <1>8, <2>2, <2>3, <2>4, <2>5
<1>9. active' = Cardinality(Held') + Cardinality(Coming')
  BY <1>6, <1>7, <1>8 DEF SlotMove
<1>10. IsFiniteSet(Held') /\ IsFiniteSet(Coming')
  <2>1. \A c : IsFiniteSet(Held \cup {c}) /\ IsFiniteSet(Held \ {c})
    BY <1>1, FS_AddElement, FS_RemoveElement
  <2>2. \A h : IsFiniteSet(Coming \cup {h}) /\ IsFiniteSet(Coming \ {h})
    BY <1>1, FS_AddElement, FS_RemoveElement
  <2>3. \A h, g : IsFiniteSet((Coming \ {h}) \cup {g})
    <3> TAKE h, g
    <3> DEFINE W == Coming \ {h}
    <3>1. IsFiniteSet(W)
      BY <2>2
    <3> HIDE DEF W
    <3>2. IsFiniteSet(W \cup {g})
      BY <3>1, FS_AddElement
    <3> QED
      BY <3>2 DEF W
  <2>4. \/ Held' = Held
        \/ \E c : Held' = Held \cup {c} \/ Held' = Held \ {c}
    BY DEF SlotMove
  <2>5. \/ Coming' = Coming
        \/ \E h : Coming' = Coming \cup {h} \/ Coming' = Coming \ {h}
        \/ \E h, g : Coming' = (Coming \ {h}) \cup {g}
    BY DEF SlotMove, Passed
  <2>6. IsFiniteSet(Held')
    BY <1>1, <2>1, <2>4
  <2>7. IsFiniteSet(Coming')
    <3>1. ASSUME NEW h, Coming' = Coming \cup {h} \/ Coming' = Coming \ {h}
          PROVE  IsFiniteSet(Coming')
      <4>1. IsFiniteSet(Coming \cup {h}) /\ IsFiniteSet(Coming \ {h})
        BY <2>2
      <4> QED
        BY <3>1, <4>1
    <3>2. ASSUME NEW h, NEW g, Coming' = (Coming \ {h}) \cup {g}
          PROVE  IsFiniteSet(Coming')
      <4>1. IsFiniteSet((Coming \ {h}) \cup {g})
        BY <2>3
      <4> QED
        BY <3>2, <4>1
    <3> QED
      BY <1>1, <2>5, <3>1, <3>2
  <2> QED
    BY <2>6, <2>7
<1> QED
  BY <1>9, <1>10 DEF Counted

-----------------------------------------------------------------------------
(* The line of waiters. *)

LEMMA QueuedFacts ==
  ASSUME TypeOK
  PROVE  /\ Len(waiters) \in Nat /\ DOMAIN waiters = 1 .. Len(waiters)
         /\ \A i \in DOMAIN waiters : waiters[i] \in Call
         /\ Queued \subseteq Call
BY LenProperties, ElementOfSeq DEF TypeOK, Queued

LEMMA TailQueued ==
  ASSUME TypeOK, WaitersInv, waiters # <<>>, waiters' = Tail(waiters)
  PROVE  /\ Head(waiters) \in Queued /\ Queued' = Queued \ {Head(waiters)}
         /\ \A i, j \in DOMAIN waiters' : waiters'[i] = waiters'[j] => i = j
<1> DEFINE n == Len(waiters)
<1>1. n \in Nat /\ DOMAIN waiters = 1 .. n /\ waiters \in Seq(Call)
  BY QueuedFacts DEF TypeOK
<1>2. /\ Len(waiters') = n - 1 /\ waiters' \in Seq(Call)
      /\ \A i \in 1 .. Len(Tail(waiters)) : waiters'[i] = waiters[i + 1]
      /\ Head(waiters) = waiters[1] /\ n # 0
  BY <1>1, HeadTailProperties, EmptySeq
<1>3. DOMAIN waiters' = 1 .. n - 1
  BY <1>2, LenProperties
<1>4. \A i, j \in 1 .. n : waiters[i] = waiters[j] => i = j
  BY <1>1 DEF WaitersInv
<1> HIDE DEF n
<1>5. \A i \in 1 .. n - 1 : waiters'[i] = waiters[i + 1] /\ i + 1 \in 1 .. n
  BY <1>1, <1>2
<1>6. Queued' = {waiters[i] : i \in 2 .. n}
  <2>1. \A i \in 2 .. n : i - 1 \in 1 .. n - 1 /\ waiters'[i - 1] = waiters[i]
    BY <1>1, <1>5
  <2>2. \A i \in 1 .. n - 1 : i + 1 \in 2 .. n
    BY <1>1
  <2>3. Queued' = {waiters'[i] : i \in 1 .. n - 1}
    BY <1>3 DEF Queued
  <2>4. \A x : x \in Queued' => x \in {waiters[i] : i \in 2 .. n}
    BY <1>5, <2>2, <2>3
  <2>5. \A x : x \in {waiters[i] : i \in 2 .. n} => x \in Queued'
    BY <2>1, <2>3
  <2> QED
    BY <2>4, <2>5
<1>7. Queued = {waiters[i] : i \in 1 .. n} /\ 1 \in 1 .. n
  BY <1>1, <1>2 DEF Queued
<1>8. Queued' = Queued \ {Head(waiters)}
  <2>1. \A i \in 1 .. n : i = 1 \/ i \in 2 .. n
    BY <1>1
  <2>2. \A i \in 2 .. n : i \in 1 .. n /\ i # 1
    BY <1>1
  <2> QED
    BY <1>2, <1>4, <1>6, <1>7, <2>1, <2>2
<1>9. \A i, j \in 1 .. n - 1 : waiters'[i] = waiters'[j] => i = j
  BY <1>1, <1>4, <1>5
<1> QED
  BY <1>2, <1>3, <1>7, <1>8, <1>9

LEMMA AppendQueued ==
  ASSUME TypeOK, WaitersInv, NEW h \in Call, h \notin Queued, waiters' = Append(waiters, h)
  PROVE  /\ Queued' = Queued \cup {h}
         /\ \A i, j \in DOMAIN waiters' : waiters'[i] = waiters'[j] => i = j
<1> DEFINE n == Len(waiters)
<1>1. n \in Nat /\ DOMAIN waiters = 1 .. n /\ waiters \in Seq(Call)
  BY QueuedFacts DEF TypeOK
<1>2. /\ waiters' \in Seq(Call) /\ Len(waiters') = n + 1 /\ waiters'[n + 1] = h
      /\ \A i \in 1 .. n : waiters'[i] = waiters[i]
  BY <1>1, AppendProperties
<1>3. DOMAIN waiters' = 1 .. n + 1
  BY <1>2, LenProperties
<1>4. /\ \A i, j \in 1 .. n : waiters[i] = waiters[j] => i = j
      /\ \A i \in 1 .. n : waiters[i] # h
      /\ Queued = {waiters[i] : i \in 1 .. n}
  BY <1>1 DEF WaitersInv, Queued
<1> HIDE DEF n
<1>5. \A i \in 1 .. n + 1 : i \in 1 .. n \/ i = n + 1
  BY <1>1
<1>6. \A i \in 1 .. n : i \in 1 .. n + 1
  BY <1>1
<1>7. n + 1 \in 1 .. n + 1
  BY <1>1
<1>8. Queued' = {waiters'[i] : i \in 1 .. n + 1}
  BY <1>3 DEF Queued
<1>9. Queued' = Queued \cup {h}
  BY <1>2, <1>4, <1>5, <1>6, <1>7, <1>8
<1>10. \A i, j \in 1 .. n + 1 : waiters'[i] = waiters'[j] => i = j
  BY <1>2, <1>4, <1>5
<1> QED
  BY <1>3, <1>9, <1>10

LEMMA WithoutQueued ==
  ASSUME TypeOK, WaitersInv, NEW h, h \in Queued, waiters' = Without(waiters, h)
  PROVE  /\ Queued' = Queued \ {h}
         /\ \A i, j \in DOMAIN waiters' : waiters'[i] = waiters'[j] => i = j
<1> DEFINE n == Len(waiters)
           at == CHOOSE j \in DOMAIN waiters : waiters[j] = h
<1>1. n \in Nat /\ DOMAIN waiters = 1 .. n
  BY QueuedFacts
<1>2. at \in 1 .. n /\ waiters[at] = h
  BY <1>1 DEF Queued
<1>3. waiters' = [j \in 1 .. n - 1 |-> IF j < at THEN waiters[j] ELSE waiters[j + 1]]
  BY DEF Without
<1>4. /\ \A i, j \in 1 .. n : waiters[i] = waiters[j] => i = j
      /\ Queued = {waiters[i] : i \in 1 .. n}
  BY <1>1 DEF WaitersInv, Queued
<1> HIDE DEF n, at
<1>5. DOMAIN waiters' = 1 .. n - 1
  BY <1>3
<1>6. \A j \in 1 .. n - 1 : /\ j < at => waiters'[j] = waiters[j] /\ j \in 1 .. n /\ j # at
                            /\ ~(j < at) => waiters'[j] = waiters[j + 1] /\ j + 1 \in 1 .. n /\ j + 1 # at
  BY <1>1, <1>2, <1>3
<1>7. \A i \in 1 .. n : \/ i < at /\ i \in 1 .. n - 1
                        \/ i = at
                        \/ i - 1 \in 1 .. n - 1 /\ ~(i - 1 < at)
  BY <1>1, <1>2
<1>8. Queued' = {waiters'[i] : i \in 1 .. n - 1}
  BY <1>5 DEF Queued
<1>9. ASSUME NEW x, x \in Queued'  PROVE x \in Queued /\ x # h
  <2>1. PICK j \in 1 .. n - 1 : x = waiters'[j]
    BY <1>8, <1>9
  <2> QED
    BY <1>2, <1>4, <1>6, <2>1
<1>10. ASSUME NEW x, x \in Queued, x # h  PROVE x \in Queued'
  <2>1. PICK i \in 1 .. n : x = waiters[i]
    BY <1>4, <1>10
  <2>2. CASE i < at /\ i \in 1 .. n - 1
    BY <1>6, <1>8, <2>1, <2>2
  <2>3. CASE i - 1 \in 1 .. n - 1 /\ ~(i - 1 < at)
    <3>1. waiters'[i - 1] = waiters[(i - 1) + 1] /\ (i - 1) + 1 = i
      BY <1>1, <1>6, <2>3
    <3> QED
      BY <1>8, <2>1, <2>3, <3>1
  <2> QED
    BY <1>2, <1>7, <1>10, <2>1, <2>2, <2>3
<1>11. \A i, j \in 1 .. n - 1 : waiters'[i] = waiters'[j] => i = j
  BY <1>1, <1>2, <1>4, <1>6
<1> QED
  BY <1>5, <1>9, <1>10, <1>11

-----------------------------------------------------------------------------
(* What a step does to slots, pages and the line of waiters. *)

Paging(c) == \E h \in Call : call[h].at = c /\ call[h].pc = "paging"

\* A context that was not closing loses or gets a page only if it is an
\* account's, or its call works for one, or its call has ended.
PageMove(c) ==
  ~ctx[c].closing =>
    \/ ctx'[c].slot = ctx[c].slot /\ ctx'[c].parked = ctx[c].parked
    \/ Registered(c)
    \/ \E h \in Call : call[h].at = c /\ (call'[h].pc = "none" \/ call[h].what = "session")

SlotStep == SlotMove /\ WaitersInv' /\ HoldsInv' /\ \A c \in Ctx : PageMove(c)

PlainCtx(c) ==
  /\ ctx'[c].slot = ctx[c].slot /\ ctx'[c].closed = ctx[c].closed
  /\ ctx'[c].parked = ctx[c].parked /\ (ctx[c].closing => ctx'[c].closing)

\* The call neither has a slot coming nor gets one.
Quiet(g) ==
  /\ call[g].pc \notin {"opening", "waiting"}
  /\ call'[g].pc \notin {"opening", "waiting", "paging"}
  /\ call[g].pc = "paging" => ctx'[call[g].at].closing

QuietCalls == \A g \in Call : call'[g] = call[g] \/ Quiet(g)

LEMMA PlainHolds ==
  ASSUME HoldsInv, \A c \in Ctx : PlainCtx(c),
         \A g \in Call : \/ call'[g] = call[g]
                         \/ /\ call'[g].pc # "paging"
                            /\ call[g].pc = "paging" => ctx'[call[g].at].closing
  PROVE  HoldsInv' /\ Held' = Held /\ \A c \in Ctx : PageMove(c)
<1>1. ASSUME NEW c \in Ctx, ~ctx'[c].closing
      PROVE  ctx'[c].slot <=> ~ctx'[c].parked \/ Paging(c)'
  <2>1. Paging(c)' <=> Paging(c)
    BY <1>1 DEF Paging
  <2>2. ~ctx[c].closing /\ ctx'[c].slot = ctx[c].slot /\ ctx'[c].parked = ctx[c].parked
    BY <1>1 DEF PlainCtx
  <2>3. ctx[c].slot <=> ~ctx[c].parked \/ Paging(c)
    BY <2>2 DEF HoldsInv, Paging
  <2> QED
    BY <2>1, <2>2, <2>3
<1>2. Held' = Held
  BY DEF Held, PlainCtx
<1>3. \A c \in Ctx : PageMove(c)
  BY DEF PageMove, PlainCtx
<1> QED
  BY <1>1, <1>2, <1>3 DEF HoldsInv, Paging

LEMMA SameComing ==
  ASSUME TypeOK, WaitersInv, UNCHANGED waiters,
         \A g \in Call : \/ call'[g] = call[g]
                         \/ /\ call[g].pc \notin {"opening", "waiting"}
                            /\ call'[g].pc \notin {"opening", "waiting"}
  PROVE  Coming' = Coming /\ WaitersInv'
<1>1. Queued' = Queued
  BY DEF Queued
<1>2. \A g \in Call : g \in Coming' <=> g \in Coming
  BY <1>1 DEF Coming, Resumed
<1>3. Coming' = Coming
  BY <1>2 DEF Coming
<1>4. \A i \in DOMAIN waiters : waiters[i] \in Call
  BY QueuedFacts
<1> QED
  BY <1>3, <1>4 DEF WaitersInv

LEMMA PlainStep ==
  ASSUME TypeOK, WaitersInv, HoldsInv,
         \A c \in Ctx : PlainCtx(c), UNCHANGED slotVars, QuietCalls
  PROVE  SlotStep
<1>1. HoldsInv' /\ Held' = Held /\ \A c \in Ctx : PageMove(c)
  BY PlainHolds DEF QuietCalls, Quiet
<1>2. Coming' = Coming /\ WaitersInv'
  BY SameComing DEF QuietCalls, Quiet, slotVars
<1> QED
  BY <1>1, <1>2 DEF SlotStep, SlotMove, slotVars

\* The slot that was let go goes to the head of the line, or is free.
LEMMA Released ==
  ASSUME TypeOK, WaitersInv, ReleaseSlot, NEW W \in SUBSET Call,
         \A g \in Call : g \in W <=>
           call'[g].pc = "opening" \/ (call'[g].pc = "waiting" /\ g \notin Queued),
         \A g \in Queued : call'[g] = call[g]
  PROVE  Passed(W) /\ WaitersInv'
<1>0. /\ \A i \in DOMAIN waiters : waiters[i] \in Call /\ waiters[i] \in Queued
      /\ \A g \in Queued : g \in Call /\ call[g].pc = "waiting"
  BY QueuedFacts DEF Queued, WaitersInv
<1>1. CASE waiters = <<>>
  <2>1. active' = (IF active > 0 THEN active - 1 ELSE 0) /\ waiters' = waiters
    BY <1>1 DEF ReleaseSlot
  <2>2. Queued' = Queued
    BY <2>1 DEF Queued
  <2>3. Coming' = W
    BY <2>2 DEF Coming, Resumed
  <2>4. WaitersInv'
    BY <1>0, <2>1 DEF WaitersInv
  <2> QED
    BY <2>1, <2>3, <2>4 DEF Passed
<1>2. CASE waiters # <<>>
  <2> DEFINE g == Head(waiters)
  <2>1. waiters' = Tail(waiters) /\ active' = active
    BY <1>2 DEF ReleaseSlot
  <2>2. /\ g \in Queued /\ Queued' = Queued \ {g}
        /\ \A i, j \in DOMAIN waiters' : waiters'[i] = waiters'[j] => i = j
    BY <1>2, <2>1, TailQueued
  <2> HIDE DEF g
  <2>3. g \in Call \ W /\ call'[g].pc = "waiting"
    BY <1>0, <2>2
  <2>4. Coming' = W \cup {g}
    BY <2>2, <2>3 DEF Coming, Resumed
  <2>5. \A i \in DOMAIN waiters' : call'[waiters'[i]].pc = "waiting"
    <3>1. \A i \in DOMAIN waiters' : waiters'[i] \in Queued'
      BY DEF Queued
    <3> QED
      BY <1>0, <2>2, <3>1
  <2> QED
    BY <2>1, <2>2, <2>3, <2>4, <2>5 DEF Passed, WaitersInv
<1> QED
  BY <1>1, <1>2

\* An open context with a page is put aside and its slot let go.
LEMMA PutAside ==
  ASSUME PoolInv, WaitersInv, HoldsInv, NEW c \in Ctx, ~ctx[c].closing, ~ctx[c].parked,
         NEW f, f.parked, ~f.slot, ctx' = [ctx EXCEPT ![c] = f], ReleaseSlot, QuietCalls,
         Registered(c) \/ \E h \in Call : call[h].at = c /\ call'[h].pc = "none"
  PROVE  SlotStep
<1>1. ctx'[c] = f /\ \A d \in Ctx : d # c => ctx'[d] = ctx[d]
  BY DEF PoolInv, TypeOK
<1>2. ctx[c].slot /\ ~ctx[c].closed
  BY DEF HoldsInv, PoolInv, RegInv
<1>3. c \in Held /\ Held' = Held \ {c}
  BY <1>1, <1>2 DEF Held
<1>4. Passed(Coming) /\ WaitersInv'
  <2>1. \A g \in Call : call'[g] = call[g] \/ (g \notin Coming /\ g \notin Queued /\ Quiet(g))
    <3>1. \A g \in Queued : call[g].pc = "waiting"
      BY QueuedFacts DEF WaitersInv, Queued, PoolInv
    <3> QED
      BY <3>1 DEF QuietCalls, Quiet, Coming, Resumed
  <2>2. \A g \in Call : g \in Coming <=>
           call'[g].pc = "opening" \/ (call'[g].pc = "waiting" /\ g \notin Queued)
    BY <2>1 DEF Quiet, Coming, Resumed
  <2>3. Coming \in SUBSET Call
    BY DEF Coming
  <2>4. \A g \in Queued : call'[g] = call[g]
    BY <2>1, QueuedFacts DEF PoolInv
  <2> HIDE DEF Coming
  <2> QED
    BY <2>2, <2>3, <2>4, Released DEF PoolInv
<1>5. ASSUME NEW d \in Ctx, ~ctx'[d].closing
      PROVE  ctx'[d].slot <=> ~ctx'[d].parked \/ Paging(d)'
  <2>1. ~Paging(c)
    <3>1. \A g \in Call : call[g].at = c /\ call[g].pc = "paging" => ctx[c].closing \/ ctx[c].parked
      BY PoolAssumption DEF PoolInv, AtInv
    <3> QED
      BY <3>1 DEF Paging
  <2>2. CASE d = c
    <3>1. ~Paging(c)'
      BY <2>1 DEF Paging, QuietCalls, Quiet
    <3> QED
      BY <1>1, <2>2, <3>1
  <2>3. CASE d # c
    <3>1. ctx'[d] = ctx[d]
      BY <1>1, <2>3
    <3>2. Paging(d)' <=> Paging(d)
      BY <1>5, <3>1 DEF Paging, QuietCalls, Quiet
    <3>3. ctx[d].slot <=> ~ctx[d].parked \/ Paging(d)
      BY <1>5, <3>1 DEF HoldsInv, Paging
    <3> QED
      BY <3>1, <3>2, <3>3
  <2> QED
    BY <2>2, <2>3
<1>6. HoldsInv'
  BY <1>5 DEF HoldsInv, Paging
<1>7. \A d \in Ctx : PageMove(d)
  BY <1>1 DEF PageMove
<1> QED
  BY <1>3, <1>4, <1>6, <1>7 DEF SlotStep, SlotMove

LEMMA OnePlain ==
  ASSUME PoolInv, NEW c \in Ctx, NEW f, ctx' = [ctx EXCEPT ![c] = f],
         f.slot = ctx[c].slot, f.closed = ctx[c].closed, f.parked = ctx[c].parked,
         ctx[c].closing => f.closing
  PROVE  \A d \in Ctx : PlainCtx(d)
BY DEF PlainCtx, PoolInv, TypeOK

LEMMA DiscardPlain ==
  ASSUME PoolInv, NEW c \in Ctx, NEW e \in Entry, Like(e, c), Discard(c, e)
  PROVE  (\A d \in Ctx : PlainCtx(d)) /\ ctx'[c].closing
<1>1. CASE e.closing
  <2>1. ctx' = [ctx EXCEPT ![c] = e]
    BY <1>1 DEF Discard
  <2>2. ctx'[c] = e
    BY <2>1 DEF PoolInv, TypeOK
  <2> QED
    BY <1>1, <2>1, <2>2, OnePlain DEF Like
<1>2. CASE ~e.closing
  <2> DEFINE f == [CancelTimers(e) EXCEPT !.closing = TRUE, !.discarded = TRUE]
  <2>1. ctx' = [ctx EXCEPT ![c] = f]
    BY <1>2 DEF Discard
  <2>2. f.slot = e.slot /\ f.closed = e.closed /\ f.parked = e.parked /\ f.closing
    BY DEF Entry, CancelTimers
  <2> HIDE DEF f
  <2>3. ctx'[c] = f
    BY <2>1 DEF PoolInv, TypeOK
  <2> QED
    BY <2>1, <2>2, <2>3, OnePlain DEF Like
<1> QED
  BY <1>1, <1>2

LEMMA ParkSlots ==
  ASSUME PoolInv, WaitersInv, HoldsInv, NEW c \in Ctx, NEW e \in Entry, NEW by, Like(e, c),
         ~e.closing, ~e.parked, Park(c, e, by), QuietCalls,
         Registered(c) \/ \E h \in Call : call[h].at = c /\ call'[h].pc = "none"
  PROVE  SlotStep
<1>1. CASE Live(e)
  <2> DEFINE f == [CancelTimers(e) EXCEPT !.parked = TRUE, !.slot = FALSE]
  <2>1. ctx' = [ctx EXCEPT ![c] = f] /\ ReleaseSlot
    BY <1>1 DEF Park
  <2>2. f.parked /\ ~f.slot
    BY ParkFields
  <2>3. ~ctx[c].closing /\ ~ctx[c].parked
    BY DEF Like
  <2> HIDE DEF f
  <2> QED
    BY <2>1, <2>2, <2>3, PutAside
<1>2. CASE ~Live(e)
  <2>1. Discard(c, e) /\ UNCHANGED slotVars
    BY <1>2 DEF Park
  <2> QED
    BY <2>1, DiscardPlain, PlainStep DEF PoolInv
<1> QED
  BY <1>1, <1>2

LEMMA EndsQuiet ==
  ASSUME PoolInv, NEW h \in Call, Ends(h), call[h].pc \notin {"opening", "waiting"},
         call[h].pc = "paging" => ctx'[call[h].at].closing
  PROVE  QuietCalls /\ call'[h].pc = "none"
<1>1. call'[h] = NoCall /\ \A g \in Call : g # h => call'[g] = call[g]
  BY DEF Ends, PoolInv, TypeOK
<1>2. NoCall.pc = "none"
  BY DEF NoCall
<1> QED
  BY <1>1, <1>2 DEF QuietCalls, Quiet

LEMMA AfterUseSlots ==
  ASSUME PoolInv, WaitersInv, HoldsInv, NEW h \in Call, call[h].at \in Ctx,
         call[h].pc \notin {"opening", "waiting"},
         NEW e \in Entry, Like(e, call[h].at), call[h].pc = "paging" => e.discarded,
         AfterUse(h, e)
  PROVE  SlotStep
<1> DEFINE c == call[h].at
           f == [e EXCEPT !.inUse = FALSE]
<1>1. f \in Entry /\ Like(f, c) /\ f.discarded = e.discarded /\ Ends(h)
  BY UseFields DEF AfterUse
<1>2. \/ f.closing /\ ctx' = [ctx EXCEPT ![c] = f] /\ UNCHANGED slotVars
      \/ Discard(c, f) /\ UNCHANGED slotVars
      \/ ~f.closing /\ ~f.discarded /\ ctx' = [ctx EXCEPT ![c] = ArmExpire(f)] /\ UNCHANGED slotVars
      \/ ~f.closing /\ ~f.discarded /\ ~f.parked /\ Park(c, f, None)
      \/ ~f.closing /\ ~f.discarded /\ ctx' = [ctx EXCEPT ![c] = [f EXCEPT !.idle = TRUE]] /\ UNCHANGED slotVars
  BY DEF AfterUse
<1>3. /\ ArmExpire(f).slot = f.slot /\ ArmExpire(f).closed = f.closed
      /\ ArmExpire(f).parked = f.parked /\ ArmExpire(f).closing = f.closing
      /\ [f EXCEPT !.idle = TRUE].slot = f.slot /\ [f EXCEPT !.idle = TRUE].closed = f.closed
      /\ [f EXCEPT !.idle = TRUE].parked = f.parked /\ [f EXCEPT !.idle = TRUE].closing = f.closing
  BY <1>1 DEF Entry, ArmExpire
<1> HIDE DEF f
<1>a. \A g : ctx' = [ctx EXCEPT ![c] = g] => ctx'[c] = g
  BY DEF PoolInv, TypeOK
<1>4. CASE f.closing /\ ctx' = [ctx EXCEPT ![c] = f] /\ UNCHANGED slotVars
  <2>1. \A d \in Ctx : PlainCtx(d)
    BY <1>1, <1>4, OnePlain DEF Like
  <2>2. QuietCalls
    BY <1>1, <1>4, <1>a, EndsQuiet
  <2> QED
    BY <1>4, <2>1, <2>2, PlainStep DEF PoolInv
<1>5. CASE Discard(c, f) /\ UNCHANGED slotVars
  <2>1. (\A d \in Ctx : PlainCtx(d)) /\ ctx'[c].closing
    BY <1>1, <1>5, DiscardPlain
  <2>2. QuietCalls
    BY <1>1, <2>1, EndsQuiet
  <2> QED
    BY <1>5, <2>1, <2>2, PlainStep DEF PoolInv
<1>6. CASE ~f.discarded /\ ctx' = [ctx EXCEPT ![c] = ArmExpire(f)] /\ UNCHANGED slotVars
  <2>1. \A d \in Ctx : PlainCtx(d)
    BY <1>1, <1>3, <1>6, OnePlain DEF Like
  <2>2. QuietCalls
    BY <1>1, <1>6, EndsQuiet
  <2> QED
    BY <1>6, <2>1, <2>2, PlainStep DEF PoolInv
<1>7. CASE ~f.closing /\ ~f.discarded /\ ~f.parked /\ Park(c, f, None)
  <2>1. QuietCalls /\ call'[h].pc = "none"
    BY <1>1, <1>7, EndsQuiet
  <2> QED
    BY <1>1, <1>7, <2>1, ParkSlots
<1>8. CASE ~f.discarded /\ ctx' = [ctx EXCEPT ![c] = [f EXCEPT !.idle = TRUE]] /\ UNCHANGED slotVars
  <2>1. \A d \in Ctx : PlainCtx(d)
    BY <1>1, <1>3, <1>8, OnePlain DEF Like
  <2>2. QuietCalls
    BY <1>1, <1>8, EndsQuiet
  <2> QED
    BY <1>8, <2>1, <2>2, PlainStep DEF PoolInv
<1> QED
  BY <1>2, <1>4, <1>5, <1>6, <1>7, <1>8

\* A slot for a parked context whose call comes to need one, or has been given one.
LEMMA PageComes ==
  ASSUME PoolInv, KeptInv, HoldsInv, NEW h \in Call, call[h].at \in Ctx,
         call[h].pc \in {"acquiring", "waiting"}, Goto(h, "paging"),
         ctx' = [ctx EXCEPT ![call[h].at].slot = TRUE]
  PROVE  /\ HoldsInv' /\ \A c \in Ctx : PageMove(c)
         /\ call[h].at \in Ctx \ Held /\ Held' = Held \cup {call[h].at}
<1> DEFINE c == call[h].at
           f == [ctx[c] EXCEPT !.slot = TRUE]
<1>0. c # None /\ ctx[c] \in Entry /\ call[h].what = "session"
  BY CallFacts, CtxFacts, PoolAssumption DEF ShapeOf, ForSlot
<1>1. /\ f.slot /\ f.parked = ctx[c].parked /\ f.closed = ctx[c].closed /\ f.closing = ctx[c].closing
      /\ ctx' = [ctx EXCEPT ![c] = f]
  BY <1>0 DEF Entry
<1> HIDE DEF f
<1>2. ctx'[c] = f /\ \A d \in Ctx : d # c => ctx'[d] = ctx[d]
  BY <1>1 DEF PoolInv, TypeOK
<1>3. ~ctx[c].closing /\ ~ctx[c].closed /\ ctx[c].parked
  <2>1. ~ctx[c].closing
    BY <1>0 DEF KeptInv
  <2> QED
    BY <1>0, <2>1 DEF PoolInv, AtInv, RegInv, ForSlot
<1>4. ~Paging(c)
  BY <1>0 DEF Paging, PoolInv, AtInv
<1>5. ~ctx[c].slot
  BY <1>3, <1>4 DEF HoldsInv, Paging
<1>6. /\ call'[h].pc = "paging" /\ call'[h].at = c
      /\ \A g \in Call : g # h => call'[g] = call[g]
  BY DEF Goto, PoolInv, TypeOK, CallState
<1>7. ASSUME NEW d \in Ctx, ~ctx'[d].closing
      PROVE  ctx'[d].slot <=> ~ctx'[d].parked \/ Paging(d)'
  <2>1. CASE d = c
    BY <1>1, <1>2, <1>6, <2>1 DEF Paging
  <2>2. CASE d # c
    <3>1. ctx'[d] = ctx[d]
      BY <1>2, <2>2
    <3>2. Paging(d)' <=> Paging(d)
      BY <1>6, <2>2 DEF Paging
    <3>3. ctx[d].slot <=> ~ctx[d].parked \/ Paging(d)
      BY <1>7, <3>1 DEF HoldsInv, Paging
    <3> QED
      BY <3>1, <3>2, <3>3
  <2> QED
    BY <2>1, <2>2
<1>8. HoldsInv'
  BY <1>7 DEF HoldsInv, Paging
<1>9. \A d \in Ctx : PageMove(d)
  BY <1>0, <1>2 DEF PageMove
<1>10. c \in Ctx \ Held /\ Held' = Held \cup {c}
  BY <1>1, <1>2, <1>3, <1>5 DEF Held
<1> QED
  BY <1>8, <1>9, <1>10

LEMMA TakeSlots ==
  ASSUME PoolInv, KeptInv, WaitersInv, HoldsInv, NEW h \in Call, TakeSlot(h) \/ Resume(h)
  PROVE  SlotStep
<1> DEFINE k == call[h]
<1>1. /\ k \in CallState /\ (k.at # None => k.at \in Ctx) /\ k.pc \in {"acquiring", "waiting"}
      /\ h \notin Queued /\ UNCHANGED waiters
  <2>1. \A g \in Queued : call[g].pc = "waiting"
    BY DEF Queued, WaitersInv
  <2> QED
    BY <2>1, CallFacts DEF TakeSlot, Resume, Resumed, CallState, slotVars
<1>2. \/ k.pc = "acquiring" /\ h \notin Coming /\ active' = active + 1
      \/ k.pc = "waiting" /\ h \in Coming /\ UNCHANGED active
  BY <1>1 DEF TakeSlot, Resume, Resumed, Coming, slotVars
<1>3. \E s \in {"opening", "paging"} : Goto(h, s)
  BY DEF TakeSlot, Resume
<1>4. call'[h].pc \in {"opening", "paging"} /\ \A g \in Call : g # h => call'[g] = call[g]
  BY <1>1, <1>3 DEF Goto, PoolInv, TypeOK, CallState
<1>5. WaitersInv'
  <2>1. \A i \in DOMAIN waiters : waiters[i] \in Call /\ waiters[i] # h
    BY <1>1, QueuedFacts DEF Queued, PoolInv
  <2> QED
    BY <1>1, <1>4, <2>1 DEF WaitersInv
<1>6. CASE k.at = None
  <2>1. UNCHANGED ctx /\ Goto(h, "opening")
    BY <1>6 DEF TakeSlot, Resume
  <2>2. call'[h].pc = "opening"
    BY <1>1, <2>1 DEF Goto, PoolInv, TypeOK, CallState
  <2>3. Coming' = Coming \cup {h}
    BY <1>1, <1>4, <2>2 DEF Coming, Resumed, Queued
  <2>4. \A c \in Ctx : PlainCtx(c)
    BY <2>1 DEF PlainCtx
  <2>5. HoldsInv' /\ Held' = Held /\ \A c \in Ctx : PageMove(c)
    BY <1>1, <1>4, <2>2, <2>4, PlainHolds
  <2>6. CASE h \notin Coming /\ active' = active + 1
    BY <1>5, <2>3, <2>5, <2>6 DEF SlotStep, SlotMove
  <2>7. CASE h \in Coming /\ UNCHANGED active
    <3>1. Coming' = Coming
      BY <2>3, <2>7
    <3> QED
      BY <1>5, <2>5, <2>7, <3>1 DEF SlotStep, SlotMove
  <2> QED
    BY <1>2, <2>6, <2>7
<1>7. CASE k.at # None
  <2>1. Goto(h, "paging") /\ ctx' = [ctx EXCEPT ![k.at].slot = TRUE]
    BY <1>7 DEF TakeSlot, Resume
  <2>2. call'[h].pc = "paging"
    BY <1>1, <2>1 DEF Goto, PoolInv, TypeOK, CallState
  <2>3. Coming' = Coming \ {h}
    BY <1>1, <1>4, <2>2 DEF Coming, Resumed, Queued
  <2>4. /\ HoldsInv' /\ \A c \in Ctx : PageMove(c)
        /\ k.at \in Ctx \ Held /\ Held' = Held \cup {k.at}
    BY <1>1, <1>7, <2>1, PageComes
  <2>5. CASE h \notin Coming /\ active' = active + 1
    <3>1. Coming' = Coming
      BY <2>3, <2>5
    <3> QED
      BY <1>5, <2>4, <2>5, <3>1 DEF SlotStep, SlotMove
  <2>6. CASE h \in Coming /\ UNCHANGED active
    BY <1>5, <2>3, <2>4, <2>6 DEF SlotStep, SlotMove
  <2> QED
    BY <1>2, <2>5, <2>6
<1> QED
  BY <1>6, <1>7

LEMMA WaitSlots ==
  ASSUME PoolInv, WaitersInv, HoldsInv, NEW h \in Call, Wait(h)
  PROVE  SlotStep
<1>1. /\ call[h].pc = "acquiring" /\ waiters' = Append(waiters, h) /\ Goto(h, "waiting")
      /\ UNCHANGED active /\ UNCHANGED ctx
  BY DEF Wait
<1>2. call'[h].pc = "waiting" /\ \A g \in Call : g # h => call'[g] = call[g]
  BY <1>1 DEF Goto, PoolInv, TypeOK, CallState
<1>3. \A g \in Queued : g \in Call /\ call[g].pc = "waiting"
  BY QueuedFacts DEF Queued, WaitersInv, PoolInv
<1>4. /\ Queued' = Queued \cup {h}
      /\ \A i, j \in DOMAIN waiters' : waiters'[i] = waiters'[j] => i = j
  BY <1>1, <1>3, AppendQueued DEF PoolInv
<1>5. Coming' = Coming
  BY <1>1, <1>2, <1>4 DEF Coming, Resumed
<1>6. WaitersInv'
  <2>1. \A i \in DOMAIN waiters' : waiters'[i] \in Queued'
    BY DEF Queued
  <2> QED
    BY <1>2, <1>3, <1>4, <2>1 DEF WaitersInv
<1>7. \A c \in Ctx : PlainCtx(c)
  BY <1>1 DEF PlainCtx
<1>8. HoldsInv' /\ Held' = Held /\ \A c \in Ctx : PageMove(c)
  BY <1>1, <1>2, <1>7, PlainHolds
<1> QED
  BY <1>1, <1>5, <1>6, <1>8 DEF SlotStep, SlotMove

LEMMA TimeoutSlots ==
  ASSUME PoolInv, WaitersInv, HoldsInv, NEW h \in Call, QueueTimeout(h)
  PROVE  SlotStep
<1> DEFINE c == call[h].at
<1>1. call[h].pc = "waiting" /\ h \in Queued /\ waiters' = Without(waiters, h) /\ UNCHANGED active
  BY DEF QueueTimeout
<1>2. call'[h].pc = "none" /\ \A g \in Call : g # h => call'[g] = call[g]
  BY DEF QueueTimeout, Ends, PoolInv, TypeOK, NoCall
<1>3. \A g \in Queued : g \in Call /\ call[g].pc = "waiting"
  BY QueuedFacts DEF Queued, WaitersInv, PoolInv
<1>4. /\ Queued' = Queued \ {h}
      /\ \A i, j \in DOMAIN waiters' : waiters'[i] = waiters'[j] => i = j
  BY <1>1, WithoutQueued DEF PoolInv
<1>5. Coming' = Coming
  BY <1>1, <1>2, <1>4 DEF Coming, Resumed
<1>6. WaitersInv'
  <2>1. \A i \in DOMAIN waiters' : waiters'[i] \in Queued'
    BY DEF Queued
  <2> QED
    BY <1>2, <1>3, <1>4, <2>1 DEF WaitersInv
<1>7. \A d \in Ctx : PlainCtx(d)
  <2>1. CASE c = None
    BY <2>1 DEF QueueTimeout, PlainCtx
  <2>2. CASE c # None
    <3> DEFINE f == [ctx[c] EXCEPT !.inUse = FALSE]
    <3>1. c \in Ctx /\ ctx[c] \in Entry
      BY <2>2, CallFacts, CtxFacts DEF CallState
    <3>2. Discard(c, f) \/ ctx' = [ctx EXCEPT ![c] = ArmExpire(f)]
      BY <2>2 DEF QueueTimeout
    <3>3. f \in Entry /\ Like(f, c)
      BY <3>1, UseFields DEF Like
    <3> HIDE DEF f, c
    <3>4. CASE Discard(c, f)
      BY <3>1, <3>3, <3>4, DiscardPlain
    <3>5. CASE ctx' = [ctx EXCEPT ![c] = ArmExpire(f)]
      BY <3>1, <3>3, <3>5, TimerFields, OnePlain DEF Like
    <3> QED
      BY <3>2, <3>4, <3>5
  <2> QED
    BY <2>1, <2>2
<1>8. HoldsInv' /\ Held' = Held /\ \A d \in Ctx : PageMove(d)
  BY <1>1, <1>2, <1>7, PlainHolds
<1> QED
  BY <1>1, <1>5, <1>6, <1>8 DEF SlotStep, SlotMove

\* A context that comes to exist, or gets its page back, with its slot.
LEMMA PageShown ==
  ASSUME PoolInv, HoldsInv, NEW h \in Call, NEW c \in Ctx, NEW f,
         ctx' = [ctx EXCEPT ![c] = f], f.slot, ~f.parked,
         call'[h].pc # "paging", call[h].pc = "paging" => call[h].at = c,
         \A g \in Call : g # h => call'[g] = call[g]
  PROVE  HoldsInv'
<1>1. ctx'[c] = f /\ \A d \in Ctx : d # c => ctx'[d] = ctx[d]
  BY DEF PoolInv, TypeOK
<1>2. ASSUME NEW d \in Ctx, ~ctx'[d].closing
      PROVE  ctx'[d].slot <=> ~ctx'[d].parked \/ Paging(d)'
  <2>1. CASE d = c
    BY <1>1, <2>1
  <2>2. CASE d # c
    <3>1. ctx'[d] = ctx[d]
      BY <1>1, <2>2
    <3>2. Paging(d)' <=> Paging(d)
      BY <2>2 DEF Paging
    <3>3. ctx[d].slot <=> ~ctx[d].parked \/ Paging(d)
      BY <1>2, <3>1 DEF HoldsInv, Paging
    <3> QED
      BY <3>1, <3>2, <3>3
  <2> QED
    BY <2>1, <2>2
<1> QED
  BY <1>2 DEF HoldsInv, Paging

LEMMA OpenSlots ==
  ASSUME PoolInv, WaitersInv, HoldsInv, NEW h \in Call, NEW c \in Ctx, Open(h, c)
  PROVE  SlotStep
<1> DEFINE f == Opened(call[h].whose)
<1>1. /\ call[h].pc = "opening" /\ ctx[c].closed /\ UNCHANGED slotVars
      /\ ctx' = [ctx EXCEPT ![c] = f]
  BY DEF Open, Unused
<1>2. f.slot /\ ~f.parked /\ ~f.closed
  BY DEF Opened, Closed
<1>3. /\ call'[h].pc \in {"checking", "probing", "using"}
      /\ \A g \in Call : g # h => call'[g] = call[g]
  BY DEF Open, PoolInv, TypeOK, CallState
<1>4. h \notin Queued
  BY <1>1 DEF Queued, WaitersInv
<1> HIDE DEF f
<1>5. ctx'[c] = f /\ \A d \in Ctx : d # c => ctx'[d] = ctx[d]
  BY <1>1 DEF PoolInv, TypeOK
<1>6. h \in Coming /\ Coming' = Coming \ {h}
  BY <1>1, <1>3 DEF Coming, Resumed, Queued, slotVars
<1>7. c \in Ctx \ Held /\ Held' = Held \cup {c}
  BY <1>1, <1>2, <1>5 DEF Held
<1>8. HoldsInv'
  BY <1>1, <1>2, <1>3, PageShown
<1>9. WaitersInv'
  <2>1. \A i \in DOMAIN waiters : waiters[i] \in Call /\ waiters[i] # h
    BY <1>4, QueuedFacts DEF Queued, PoolInv
  <2> QED
    BY <1>1, <1>3, <2>1 DEF WaitersInv, slotVars
<1>10. \A d \in Ctx : PageMove(d)
  BY <1>1, <1>5 DEF PageMove, PoolInv, RegInv
<1> QED
  BY <1>1, <1>6, <1>7, <1>8, <1>9, <1>10 DEF SlotStep, SlotMove, slotVars

LEMMA OpenFailsSlots ==
  ASSUME PoolInv, WaitersInv, HoldsInv, NEW h \in Call, OpenFails(h)
  PROVE  SlotStep
<1>1. call[h].pc = "opening" /\ ReleaseSlot /\ UNCHANGED ctx /\ Ends(h)
  BY DEF OpenFails
<1>2. call'[h].pc = "none" /\ \A g \in Call : g # h => call'[g] = call[g]
  BY <1>1 DEF Ends, PoolInv, TypeOK, NoCall
<1>3. h \notin Queued
  BY <1>1 DEF Queued, WaitersInv
<1>4. \A g \in Call : g \in Coming \ {h} <=>
           call'[g].pc = "opening" \/ (call'[g].pc = "waiting" /\ g \notin Queued)
  BY <1>2 DEF Coming, Resumed
<1>5. h \in Coming /\ Coming \ {h} \in SUBSET Call
  BY <1>1 DEF Coming
<1>6. \A g \in Queued : call'[g] = call[g]
  BY <1>2, <1>3, QueuedFacts DEF PoolInv
<1> HIDE DEF Coming
<1>7. Passed(Coming \ {h}) /\ WaitersInv'
  BY <1>1, <1>4, <1>5, <1>6, Released DEF PoolInv
<1>8. \A d \in Ctx : PlainCtx(d)
  BY <1>1 DEF PlainCtx
<1>9. HoldsInv' /\ Held' = Held /\ \A d \in Ctx : PageMove(d)
  BY <1>1, <1>2, <1>8, PlainHolds
<1> QED
  BY <1>5, <1>7, <1>9 DEF SlotStep, SlotMove

LEMMA UnparkSlots ==
  ASSUME PoolInv, WaitersInv, HoldsInv, NEW h \in Call, Unpark(h)
  PROVE  SlotStep
<1> DEFINE c == call[h].at
           f == [ctx[c] EXCEPT !.parked = FALSE]
<1>1. /\ call[h].pc = "paging" /\ ~ctx[c].closing /\ Goto(h, "checking") /\ UNCHANGED slotVars
      /\ ctx' = [ctx EXCEPT ![c].parked = FALSE]
  BY DEF Unpark
<1>2. c \in Ctx /\ c # None /\ ctx[c] \in Entry /\ call[h].what = "session"
  BY <1>1, CallFacts, CtxFacts, PoolAssumption DEF ShapeOf, Working
<1>3. call'[h].pc = "checking" /\ \A g \in Call : g # h => call'[g] = call[g]
  BY <1>1 DEF Goto, PoolInv, TypeOK, CallState
<1>4. /\ ctx' = [ctx EXCEPT ![c] = f] /\ f.slot = ctx[c].slot /\ ~f.parked
      /\ f.closed = ctx[c].closed /\ f.closing = ctx[c].closing
  BY <1>1, <1>2 DEF Entry
<1> HIDE DEF f
<1>5. ctx[c].slot
  BY <1>1, <1>2 DEF HoldsInv
<1>6. HoldsInv'
  BY <1>1, <1>2, <1>3, <1>4, <1>5, PageShown
<1>7. ctx'[c] = f /\ \A d \in Ctx : d # c => ctx'[d] = ctx[d]
  BY <1>2, <1>4 DEF PoolInv, TypeOK
<1>8. Held' = Held /\ \A d \in Ctx : PageMove(d)
  BY <1>2, <1>4, <1>7 DEF Held, PageMove
<1>9. Coming' = Coming /\ WaitersInv'
  BY <1>1, <1>3, SameComing DEF PoolInv, slotVars
<1> QED
  BY <1>1, <1>6, <1>8, <1>9 DEF SlotStep, SlotMove, slotVars

LEMMA StepQuiet ==
  ASSUME PoolInv, NEW h \in Call, call[h].pc \notin {"opening", "waiting", "paging"},
         NEW s, s \notin {"opening", "waiting", "paging"}, Goto(h, s) \/ \E c : Await(h, c, s)
  PROVE  QuietCalls
<1>0. call \in [Call -> CallState] /\ call[h] \in CallState
  BY DEF PoolInv, TypeOK
<1>1. call'[h].pc = s /\ \A g \in Call : g # h => call'[g] = call[g]
  <2>1. CASE Goto(h, s)
    <3>1. [call[h] EXCEPT !.pc = s].pc = s
      BY <1>0 DEF CallState
    <3>2. call' = [call EXCEPT ![h] = [call[h] EXCEPT !.pc = s]]
      BY <1>0, <2>1 DEF Goto
    <3> QED
      BY <1>0, <3>1, <3>2
  <2>2. ASSUME NEW c, Await(h, c, s)
        PROVE  call'[h].pc = s /\ \A g \in Call : g # h => call'[g] = call[g]
    <3>1. [call[h] EXCEPT !.pc = s, !.waitFor = c].pc = s
      BY <1>0 DEF CallState
    <3>2. call' = [call EXCEPT ![h] = [call[h] EXCEPT !.pc = s, !.waitFor = c]]
      BY <1>0, <2>2 DEF Await
    <3> QED
      BY <1>0, <3>1, <3>2
  <2> QED
    BY <2>1, <2>2
<1> QED
  BY <1>1 DEF QuietCalls, Quiet

LEMMA CallSlots ==
  ASSUME PoolInv, KeptInv, WaitersInv, HoldsInv, FreshInv, NEW h \in Call, CallStep(h)
  PROVE  SlotStep
<1> DEFINE k == call[h]
<1>0. /\ ShapeOf(k) /\ k \in CallState
      /\ (k.at # None => k.at \in Ctx /\ ctx[k.at] \in Entry)
      /\ (k.what \in {"session", "verify", "forget"} => k.whose \in Owner)
  BY CallFacts, CtxFacts
<1>a. UNCHANGED ctx /\ UNCHANGED slotVars /\ QuietCalls => SlotStep
  BY PlainStep DEF PlainCtx, PoolInv
<1>b. (\A d \in Ctx : PlainCtx(d)) /\ UNCHANGED slotVars /\ QuietCalls => SlotStep
  BY PlainStep DEF PoolInv
<1>c. \A k1 : Entering(h, k1) => k.whose \in Owner /\ k.pc = "locking"
  BY <1>0 DEF Entering, ShapeOf, CallState
<1>d. \A o \in Owner : entries[o] # None => entries[o] \in Ctx /\ ctx[entries[o]] \in Entry
  BY DEF PoolInv, TypeOK
<1>1. CASE EnterExisting(h)
  <2> DEFINE c == entries[k.whose]
             f == [CancelTimers(ctx[c]) EXCEPT !.inUse = TRUE]
  <2>1. c \in Ctx /\ ctx[c] \in Entry /\ k.pc = "locking"
    BY <1>1, <1>c, <1>d DEF EnterExisting
  <2>2. ctx' = [ctx EXCEPT ![c] = f] /\ UNCHANGED slotVars
    BY <1>1 DEF EnterExisting
  <2>3. f.slot = ctx[c].slot /\ f.closed = ctx[c].closed /\ f.parked = ctx[c].parked
        /\ f.closing = ctx[c].closing
    BY <2>1 DEF Entry, CancelTimers
  <2>4. /\ call'[h].pc \in {"acquiring", "checking"}
        /\ \A g \in Call : g # h => call'[g] = call[g]
    BY <1>1 DEF EnterExisting, PoolInv, TypeOK, CallState
  <2>5. QuietCalls
    BY <2>1, <2>4 DEF QuietCalls, Quiet
  <2> HIDE DEF f, c
  <2>6. \A d \in Ctx : PlainCtx(d)
    BY <2>1, <2>2, <2>3, OnePlain
  <2> QED
    BY <1>b, <2>2, <2>5, <2>6
<1>2. CASE EnterDead(h) \/ Forget(h) \/ Proven(h)
  <2> DEFINE c == entries[k.whose]
  <2>1. k.whose \in Owner /\ k.pc \in {"locking", "probing"}
    BY <1>0, <1>2, <1>c DEF EnterDead, Forget, Proven, ShapeOf
  <2>2. /\ c # None /\ Discard(c, ctx[c]) /\ UNCHANGED slotVars
        /\ \E s \in {"discarding", "ending", "replacing"} : Await(h, c, s)
    BY <1>2 DEF EnterDead, Forget, Proven
  <2>3. c \in Ctx /\ ctx[c] \in Entry /\ Like(ctx[c], c)
    BY <1>d, <2>1, <2>2, CtxFacts
  <2>4. QuietCalls
    BY <2>1, <2>2, StepQuiet
  <2> HIDE DEF c
  <2> QED
    BY <1>b, <2>2, <2>3, <2>4, DiscardPlain
<1>3. CASE EnterNew(h) \/ SessionAlive(h) \/ SessionOver(h) \/ (Awaited(h) /\ k.pc = "discarding")
  <2>1. /\ k.pc \in {"locking", "checking", "discarding"} /\ UNCHANGED ctx /\ UNCHANGED slotVars
        /\ \/ \E s \in {"acquiring", "using", "logging"} : Goto(h, s)
           \/ Await(h, None, "acquiring")
    BY <1>3, <1>c DEF EnterNew, SessionAlive, SessionOver, Awaited
  <2>2. QuietCalls
    BY <2>1, StepQuiet
  <2> QED
    BY <1>a, <2>1, <2>2
<1>4. CASE EnterNothing(h) \/ (Awaited(h) /\ k.pc = "ending")
  <2>1. k.pc \in {"locking", "ending"} /\ UNCHANGED ctx /\ UNCHANGED slotVars /\ Ends(h)
    BY <1>4, <1>c DEF EnterNothing, Awaited
  <2> QED
    BY <1>a, <2>1, EndsQuiet
<1>5. CASE TakeSlot(h) \/ Resume(h)
  BY <1>5, TakeSlots
<1>6. ASSUME NEW c \in Ctx, MakeRoom(h, c)  PROVE SlotStep
  <2>1. /\ Park(c, ctx[c], h) /\ k.pc = "acquiring" /\ \E s \in {"making room"} : Goto(h, s)
        /\ Registered(c) /\ ~ctx[c].parked /\ ~ctx[c].closing
    BY <1>6 DEF MakeRoom, Idle, Registered
  <2>2. QuietCalls
    BY <2>1, StepQuiet
  <2> QED
    BY <2>1, <2>2, CtxFacts, ParkSlots
<1>7. CASE Wait(h)
  BY <1>7, WaitSlots
<1>8. CASE QueueTimeout(h)
  BY <1>8, TimeoutSlots
<1>9. ASSUME NEW c \in Ctx, Open(h, c)  PROVE SlotStep
  BY <1>9, OpenSlots
<1>10. CASE OpenFails(h)
  BY <1>10, OpenFailsSlots
<1>11. CASE Unpark(h)
  BY <1>11, UnparkSlots
<1>12. CASE UnparkFails(h) \/ CheckFails(h) \/ Used(h) \/ (Awaited(h) /\ k.pc = "failing")
  <2>1. k.at \in Ctx /\ k.pc \notin {"opening", "waiting"}
    BY <1>0, <1>12 DEF UnparkFails, CheckFails, Used, ShapeOf, Working
  <2>2. ctx[k.at] \in Entry
    BY <2>1, CtxFacts
  <2>3. /\ LET e == [ctx[k.at] EXCEPT !.discarded = TRUE] IN e \in Entry /\ Like(e, k.at) /\ e.discarded
        /\ LET e == [ctx[k.at] EXCEPT !.stale = TRUE] IN e \in Entry /\ Like(e, k.at)
        /\ Like(ctx[k.at], k.at)
    BY <2>2 DEF Entry, Like
  <2>4. \E e \in Entry : AfterUse(h, e) /\ Like(e, k.at) /\ (k.pc = "paging" => e.discarded)
    BY <1>12, <2>2, <2>3 DEF UnparkFails, CheckFails, Used, Awaited
  <2> QED
    BY <2>1, <2>4, AfterUseSlots
<1>13. CASE LoginFails(h)
  <2>1. /\ k.at \in Ctx /\ Discard(k.at, ctx[k.at]) /\ UNCHANGED slotVars /\ k.pc = "logging"
        /\ \E c, s : Await(h, c, s) /\ s \in {"failing"}
    BY <1>0, <1>13 DEF LoginFails, ShapeOf, Working
  <2>2. QuietCalls
    BY <2>1, StepQuiet
  <2> QED
    BY <1>b, <2>1, <2>2, CtxFacts, DiscardPlain
<1>14. CASE Adopt(h)
  <2> DEFINE c == k.at
             f == Handed(k.whose, ctx[c])
             g == Rested(k.whose, ctx[c])
  <2>1. c \in Ctx /\ ctx[c] \in Entry /\ k.whose \in Owner /\ k.pc \in {"probing", "replacing"} /\ Ends(h)
    BY <1>0, <1>14, CtxFacts DEF Adopt, ShapeOf, Working
  <2>2. ctx[c].slot /\ ~ctx[c].parked /\ ~ctx[c].closing /\ ~ctx[c].closed
    BY <2>1, PoolAssumption DEF FreshInv, Own, PoolInv, AtInv, RegInv
  <2>3. QuietCalls /\ call'[h].pc = "none"
    BY <2>1, EndsQuiet
  <2>4. CASE waiters # <<>>
    <3>1. ctx' = [ctx EXCEPT ![c] = f] /\ ReleaseSlot
      BY <1>14, <2>4 DEF Adopt, Handed
    <3>2. f.parked /\ ~f.slot
      BY <2>1, AdoptedFields
    <3> HIDE DEF f, g
    <3> QED
      BY <2>1, <2>2, <2>3, <3>1, <3>2, PutAside
  <2>5. CASE waiters = <<>>
    <3>1. ctx' = [ctx EXCEPT ![c] = g] /\ UNCHANGED slotVars
      BY <1>14, <2>5 DEF Adopt, Rested
    <3>2. g.slot = ctx[c].slot /\ ~g.closed /\ ~g.parked
      BY <2>1, AdoptedFields
    <3> HIDE DEF f, g, c
    <3>3. \A d \in Ctx : PlainCtx(d)
      <4>1. g.closed = ctx[c].closed /\ g.parked = ctx[c].parked /\ (ctx[c].closing => g.closing)
        BY <2>1, <2>2, <3>2, AdoptedFields DEF Entry, g
      <4> QED
        BY <2>1, <3>1, <3>2, <4>1, OnePlain
    <3> QED
      BY <1>b, <2>3, <3>1, <3>3
  <2> QED
    BY <2>4, <2>5
<1>15. ASSUME NEW kind, NEW o, Arrive(h, kind, o)  PROVE SlotStep
  <2>1. k.pc = "none" /\ UNCHANGED ctx /\ UNCHANGED slotVars
    BY <1>15 DEF Arrive
  <2>2. /\ call'[h].pc \in {"acquiring", "locking"}
        /\ \A g \in Call : g # h => call'[g] = call[g]
    BY <1>15 DEF Arrive, PoolInv, TypeOK, NoCall
  <2>3. QuietCalls
    BY <2>1, <2>2 DEF QuietCalls, Quiet
  <2> QED
    BY <1>a, <2>1, <2>3
<1>16. CASE CloseContext(h)
  <2> DEFINE c == k.at
             f == [ctx[c] EXCEPT !.closing = TRUE]
  <2>1. c \in Ctx /\ k.pc \in {"using", "probing"}
    BY <1>0, <1>16 DEF CloseContext, ShapeOf, Working
  <2>2. /\ ctx' = [ctx EXCEPT ![c] = f] /\ UNCHANGED slotVars
        /\ \E s \in {"ending"} : Await(h, c, s)
    BY <1>16 DEF CloseContext
  <2>3. ctx[c] \in Entry
    BY <2>1, CtxFacts
  <2>4. f.slot = ctx[c].slot /\ f.closed = ctx[c].closed /\ f.parked = ctx[c].parked /\ f.closing
    BY <2>3 DEF Entry
  <2>5. QuietCalls
    BY <2>1, <2>2, StepQuiet
  <2> HIDE DEF f, c
  <2>6. \A d \in Ctx : PlainCtx(d)
    BY <2>1, <2>2, <2>4, OnePlain
  <2> QED
    BY <1>b, <2>2, <2>5, <2>6
<1>17. CASE Login(h)
  <2> DEFINE c == k.at
             f == [ctx[c] EXCEPT !.left = TTL, !.stale = FALSE]
  <2>1. c \in Ctx /\ k.pc = "logging"
    BY <1>0, <1>17 DEF Login, ShapeOf, Working
  <2>2. ctx[c] \in Entry
    BY <2>1, CtxFacts
  <2>3. ctx' = [ctx EXCEPT ![c] = f] /\ UNCHANGED slotVars /\ Goto(h, "using")
    BY <1>17, <2>1 DEF Login, PoolInv, TypeOK
  <2>4. f.slot = ctx[c].slot /\ f.closed = ctx[c].closed /\ f.parked = ctx[c].parked
        /\ f.closing = ctx[c].closing
    BY <2>2 DEF Entry
  <2>5. QuietCalls
    BY <2>1, <2>3, StepQuiet
  <2> HIDE DEF f, c
  <2>6. \A d \in Ctx : PlainCtx(d)
    BY <2>1, <2>3, <2>4, OnePlain
  <2> QED
    BY <1>b, <2>3, <2>5, <2>6
<1>18. Awaited(h) => k.pc \in {"discarding", "failing", "ending"}
  BY DEF Awaited
<1> QED
  BY <1>1, <1>2, <1>3, <1>4, <1>5, <1>6, <1>7, <1>8, <1>9, <1>10, <1>11, <1>12, <1>13,
     <1>14, <1>15, <1>16, <1>17, <1>18 DEF CallStep

LEMMA TrimSlots ==
  ASSUME PoolInv, WaitersInv, HoldsInv, NEW p \in parks, NEW entry, Armed(p, entry),
         NEW V \in SUBSET Ctx, TrimNext(p, entry, V), UNCHANGED slotVars
  PROVE  SlotStep
<1>1. \A d \in Ctx : /\ entry[d] \in Entry /\ entry[d].closing = ctx[d].closing
                     /\ entry[d].closed = ctx[d].closed
                     /\ entry[d].parked = ctx[d].parked /\ entry[d].slot = ctx[d].slot
  BY ArmedSame
<1>2. CASE ParkReturns(p) /\ ctx' = entry
  <2>1. \A d \in Ctx : PlainCtx(d)
    BY <1>1, <1>2 DEF PlainCtx
  <2>2. QuietCalls
    <3>1. CASE p.by \in Call
      <4>1. call[p.by].pc = "making room" /\ call' = [call EXCEPT ![p.by].pc = "acquiring"]
        BY <1>2, <3>1 DEF ParkReturns, PoolInv, ParksInv
      <4>2. call'[p.by].pc = "acquiring" /\ \A g \in Call : g # p.by => call'[g] = call[g]
        BY <3>1, <4>1 DEF PoolInv, TypeOK, CallState
      <4> QED
        BY <4>1, <4>2 DEF QuietCalls, Quiet
    <3>2. CASE p.by \notin Call
      BY <1>2, <3>2 DEF ParkReturns, QuietCalls
    <3> QED
      BY <3>1, <3>2
  <2> QED
    BY <2>1, <2>2, PlainStep DEF PoolInv
<1>3. ASSUME NEW v \in V, UNCHANGED call,
             ctx' = [entry EXCEPT ![v] = [CancelTimers(entry[v]) EXCEPT !.closing = TRUE, !.discarded = TRUE]]
      PROVE SlotStep
  <2> DEFINE f == [CancelTimers(entry[v]) EXCEPT !.closing = TRUE, !.discarded = TRUE]
  <2>1. /\ f.slot = entry[v].slot /\ f.closed = entry[v].closed
        /\ f.parked = entry[v].parked /\ f.closing
    BY <1>1, ClosedFields
  <2>2. ctx'[v] = f /\ \A d \in Ctx : d # v => ctx'[d] = entry[d]
    BY <1>3 DEF Armed
  <2> HIDE DEF f
  <2>3. \A d \in Ctx : PlainCtx(d)
    BY <1>1, <2>1, <2>2 DEF PlainCtx
  <2>4. QuietCalls
    BY <1>3 DEF QuietCalls
  <2> QED
    BY <2>3, <2>4, PlainStep DEF PoolInv
<1>4. \/ ParkReturns(p) /\ ctx' = entry
      \/ \E v \in V :
           /\ UNCHANGED call
           /\ ctx' = [entry EXCEPT ![v] = [CancelTimers(entry[v]) EXCEPT !.closing = TRUE, !.discarded = TRUE]]
  BY DEF TrimNext
<1> QED
  BY <1>2, <1>3, <1>4

LEMMA CloseSlots ==
  ASSUME PoolInv, WaitersInv, HoldsInv, NEW c \in Ctx, ContextClosed(c)
  PROVE  SlotStep
<1>1. /\ ctx[c].closing /\ ~ctx[c].closed /\ ctx' = [ctx EXCEPT ![c] = Closed] /\ UNCHANGED call
  BY DEF ContextClosed
<1>2. Closed.closing /\ Closed.closed
  BY DEF Closed
<1>3. ctx'[c] = Closed /\ \A d \in Ctx : d # c => ctx'[d] = ctx[d]
  BY <1>1 DEF PoolInv, TypeOK
<1>4. Held' = Held \ {c}
  BY <1>2, <1>3 DEF Held
<1>5. HoldsInv'
  <2>1. ASSUME NEW d \in Ctx, ~ctx'[d].closing  PROVE ctx'[d] = ctx[d]
    BY <1>2, <1>3, <2>1
  <2>2. \A d \in Ctx : Paging(d)' <=> Paging(d)
    BY <1>1 DEF Paging
  <2> QED
    BY <2>1, <2>2 DEF HoldsInv, Paging
<1>6. \A d \in Ctx : PageMove(d)
  BY <1>1, <1>3 DEF PageMove
<1>7. CASE ctx[c].slot
  <2>1. ReleaseSlot /\ c \in Held
    BY <1>1, <1>7 DEF ContextClosed, Held
  <2>2. \A g \in Call : g \in Coming <=>
           call'[g].pc = "opening" \/ (call'[g].pc = "waiting" /\ g \notin Queued)
    BY <1>1 DEF Coming, Resumed
  <2>3. Coming \in SUBSET Call /\ \A g \in Queued : call'[g] = call[g]
    BY <1>1 DEF Coming
  <2> HIDE DEF Coming
  <2>4. Passed(Coming) /\ WaitersInv'
    BY <2>1, <2>2, <2>3, Released DEF PoolInv
  <2> QED
    BY <1>4, <1>5, <1>6, <2>1, <2>4 DEF SlotStep, SlotMove
<1>8. CASE ~ctx[c].slot
  <2>1. UNCHANGED slotVars
    BY <1>8 DEF ContextClosed
  <2>2. Coming' = Coming /\ WaitersInv'
    BY <1>1, <2>1, SameComing DEF PoolInv, slotVars
  <2>3. Held' = Held
    BY <1>4, <1>8 DEF Held
  <2> QED
    BY <1>5, <1>6, <2>1, <2>2, <2>3 DEF SlotStep, SlotMove, slotVars
<1> QED
  BY <1>7, <1>8

LEMMA PoolSlots ==
  ASSUME PoolInv, WaitersInv, HoldsInv, PoolStep
  PROVE  SlotStep
<1>a. UNCHANGED call => QuietCalls
  BY DEF QuietCalls
<1>b. (\A d \in Ctx : PlainCtx(d)) /\ UNCHANGED slotVars /\ UNCHANGED call => SlotStep
  BY <1>a, PlainStep DEF PoolInv
<1>c. UNCHANGED ctx => \A d \in Ctx : PlainCtx(d)
  BY DEF PlainCtx
<1>1. ASSUME NEW o \in Owner, NEW c \in Ctx, IdleRuns(o, c)  PROVE SlotStep
  <2>1. CASE /\ Park(c, ctx[c], o) /\ UNCHANGED call
             /\ entries[o] = c /\ ~ctx[c].parked /\ ~ctx[c].closing
    BY <1>a, <2>1, CtxFacts, ParkSlots DEF Registered
  <2>2. CASE UNCHANGED ctx /\ UNCHANGED slotVars /\ UNCHANGED call
    BY <1>b, <1>c, <2>2
  <2> QED
    BY <1>1, <2>1, <2>2 DEF IdleRuns
<1>2. ASSUME NEW o \in Owner, NEW c \in Ctx, ExpireRuns(o, c)  PROVE SlotStep
  <2>1. /\ Discard(c, ctx[c]) \/ UNCHANGED ctx
        /\ UNCHANGED slotVars /\ UNCHANGED call
    BY <1>2 DEF ExpireRuns
  <2> QED
    BY <1>b, <1>c, <2>1, CtxFacts, DiscardPlain
<1>3. ASSUME NEW c \in Ctx, ContextClosed(c)  PROVE SlotStep
  BY <1>3, CloseSlots
<1>4. ASSUME NEW c \in Ctx, IdleFires(c) \/ ExpireFires(c)  PROVE SlotStep
  <2>1. UNCHANGED call /\ UNCHANGED slotVars /\ ctx[c] \in Entry
    BY <1>4, CtxFacts DEF IdleFires, ExpireFires
  <2>2. \/ ctx' = [ctx EXCEPT ![c] = [ctx[c] EXCEPT !.idle = FALSE]]
        \/ ctx' = [ctx EXCEPT ![c] = [ctx[c] EXCEPT !.expire = Off]]
    BY <1>4 DEF IdleFires, ExpireFires
  <2>3. /\ LET f == [ctx[c] EXCEPT !.idle = FALSE] IN
             /\ f.slot = ctx[c].slot /\ f.closed = ctx[c].closed
             /\ f.parked = ctx[c].parked /\ f.closing = ctx[c].closing
        /\ LET f == [ctx[c] EXCEPT !.expire = Off] IN
             /\ f.slot = ctx[c].slot /\ f.closed = ctx[c].closed
             /\ f.parked = ctx[c].parked /\ f.closing = ctx[c].closing
    BY <2>1 DEF Entry
  <2>4. \E f : /\ ctx' = [ctx EXCEPT ![c] = f]
               /\ f.slot = ctx[c].slot /\ f.closed = ctx[c].closed
               /\ f.parked = ctx[c].parked /\ f.closing = ctx[c].closing
    BY <2>2, <2>3
  <2>5. \A d \in Ctx : PlainCtx(d)
    BY <2>4, OnePlain
  <2> QED
    BY <1>b, <2>1, <2>5
<1>5. ASSUME NEW p \in parks, PageClosed(p)  PROVE SlotStep
  <2> DEFINE entry == IF ctx[p.of].closing THEN ctx ELSE [ctx EXCEPT ![p.of] = ArmExpire(ctx[p.of])]
  <2>1. UNCHANGED slotVars /\ \E V \in Surplus(entry) : TrimNext(p, entry, V)
    BY <1>5 DEF PageClosed
  <2>2. Armed(p, entry)
    BY PageEntry
  <2> HIDE DEF entry
  <2>3. PICK V \in Surplus(entry) : TrimNext(p, entry, V)
    BY <2>1
  <2>4. V \in SUBSET Ctx
    BY SurplusIdle
  <2> QED
    BY <2>1, <2>2, <2>3, <2>4, TrimSlots
<1>6. ASSUME NEW p \in parks, Trimmed(p)  PROVE SlotStep
  <2>1. /\ TrimNext(p, ctx, p.victims) /\ p.victims \in SUBSET Ctx /\ Armed(p, ctx)
        /\ UNCHANGED slotVars
    BY <1>6, PageEntry DEF Trimmed, PoolInv, TypeOK, ParkRun
  <2> QED
    BY <2>1, TrimSlots
<1>7. CASE BrowserGone
  <2>1. ASSUME NEW d \in Ctx  PROVE PlainCtx(d)
    <3>1. ctx[d] \in Entry
      BY CtxFacts
    <3>2. /\ LET f == [CancelTimers(ctx[d]) EXCEPT !.closing = TRUE, !.discarded = TRUE] IN
               /\ f.slot = ctx[d].slot /\ f.closed = ctx[d].closed
               /\ f.parked = ctx[d].parked /\ f.closing
          /\ LET f == [ctx[d] EXCEPT !.discarded = TRUE] IN
               /\ f.slot = ctx[d].slot /\ f.closed = ctx[d].closed
               /\ f.parked = ctx[d].parked /\ f.closing = ctx[d].closing
      BY <3>1, ClosedFields DEF Entry
    <3>3. \/ ctx'[d] = [CancelTimers(ctx[d]) EXCEPT !.closing = TRUE, !.discarded = TRUE]
          \/ ctx'[d] = [ctx[d] EXCEPT !.discarded = TRUE]
          \/ ctx'[d] = ctx[d]
      BY <1>7 DEF BrowserGone
    <3> QED
      BY <3>2, <3>3 DEF PlainCtx
  <2> QED
    BY <1>7, <1>b, <2>1 DEF BrowserGone
<1>8. CASE Tick
  <2>1. \A d \in Ctx : PlainCtx(d)
    BY <1>8, CtxFacts DEF Tick, Entry, PlainCtx
  <2> QED
    BY <1>8, <1>b, <2>1 DEF Tick
<1> QED
  BY <1>1, <1>2, <1>3, <1>4, <1>5, <1>6, <1>7, <1>8 DEF PoolStep

LEMMA FreshKept ==
  ASSUME PoolInv, Moves, TypeOK', FreshInv, \A c \in Ctx : PageMove(c)
  PROVE  FreshInv'
<1> SUFFICES ASSUME NEW g \in Call, Own(call'[g])
             PROVE  ctx'[call'[g].at].slot /\ ~ctx'[call'[g].at].parked
  BY DEF FreshInv, Own
<1> DEFINE c == call'[g].at
<1>1. c # None /\ call'[g].pc # "none" /\ call'[g].what \in {"verify", "scratch"}
  BY ShapeKept, PoolAssumption DEF CallShape, ShapeOf, Own, Working
<1>2. /\ c \in Ctx /\ HasLock(g) /\ call'[g].what = call[g].what
      /\ \/ call'[g] = call[g]
         \/ Act(g) /\ (c = call[g].at \/ Enters(g) \/ Opens(g))
  BY <1>1, AtMoves
<1>3. CASE Opens(g)
  BY <1>3 DEF Opens
<1>4. CASE ~Opens(g)
  <2>1. Own(call[g])
    BY <1>2, <1>4 DEF Act
  <2>2. c = call[g].at
    BY <1>1, <1>2, <1>4 DEF Enters
  <2>3. ctx[c].slot /\ ~ctx[c].parked /\ ~ctx[c].closing /\ ~Registered(c)
    BY <1>1, <1>2, <2>1, <2>2 DEF FreshInv, PoolInv, AtInv
  <2>4. \A h \in Call : call[h].at = c => h = g
    BY <1>1, <2>2, CallFacts
  <2> QED
    BY <1>1, <1>2, <2>3, <2>4 DEF PageMove
<1> QED
  BY <1>3, <1>4

LEMMA SlotsKept ==
  ASSUME PoolInv, SlotInv, Next, ~TrimsUnderACall
  PROVE  SlotInv'
<1>1. Moves /\ TypeOK'
  BY NextMoves
<1>2. SlotStep
  BY CallSlots, PoolSlots, NextSteps DEF SlotInv
<1>3. KeptInv'
  BY KeptStays DEF SlotInv
<1>4. FreshInv'
  BY <1>1, <1>2, FreshKept DEF SlotStep, SlotInv
<1>5. Counted
  BY DEF SlotInv
<1>6. Counted'
  BY <1>2, <1>5, CountKept DEF SlotStep
<1> QED
  BY <1>2, <1>3, <1>4, <1>6 DEF SlotInv, SlotStep

\* Unless #trimParked closes a context that a call has taken since it was chosen,
\* the count of slots is right: as many as there are open contexts that hold one,
\* contexts being opened, and waiters that have just been handed one, whoever
\* parks, resumes, times out, discards or closes what in between.
THEOREM EverySlotIsAccountedFor == Spec /\ [][~TrimsUnderACall]_vars => []SlotsAccounted
<1>1. Init => SlotInv
  <2> SUFFICES ASSUME Init  PROVE SlotInv
    OBVIOUS
  <2>1. \A h \in Call : call[h].pc = "none" /\ call[h].at = None
    BY DEF Init, NoCall
  <2>2. KeptInv /\ WaitersInv /\ FreshInv
    BY <2>1 DEF Init, KeptInv, WaitersInv, FreshInv, Own
  <2>3. \A c \in Ctx : ctx[c].closing /\ ctx[c].closed
    BY DEF Init, Closed
  <2>4. HoldsInv
    BY <2>3 DEF HoldsInv
  <2>5. Held = {} /\ Coming = {}
    BY <2>1, <2>3 DEF Held, Coming, Resumed
  <2>6. active = 0 /\ Cardinality(Held) = 0 /\ Cardinality(Coming) = 0
    BY <2>5, FS_EmptySet DEF Init
  <2>7. Counted
    BY <2>5, <2>6, FS_EmptySet DEF Counted
  <2> QED
    BY <2>2, <2>4, <2>7 DEF SlotInv
<1>2. PoolInv /\ SlotInv /\ [Next]_vars /\ [~TrimsUnderACall]_vars => SlotInv'
  <2>1. UNCHANGED vars /\ SlotInv => SlotInv'
    BY DEF vars, SlotInv, KeptInv, WaitersInv, HoldsInv, FreshInv, Own, Counted, Held, Coming,
           Resumed, Queued
  <2> QED
    BY <2>1, SlotsKept
<1>3. PoolInv /\ SlotInv => SlotsAccounted
  BY PoolAssumption DEF PoolInv, TypeOK, SlotInv, Counted, Held, Coming, SlotsAccounted
<1> QED
  BY <1>1, <1>2, <1>3, PoolIsConsistent, PTL DEF Spec
=============================================================================
