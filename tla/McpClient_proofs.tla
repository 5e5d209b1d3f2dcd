--------------------------- MODULE McpClient_proofs ---------------------------
(***************************************************************************)
(* Proofs about the client of a plugin's process: one process at a time    *)
(* and none after Close, an executed write sent once, and a list of tools  *)
(* that is the session's, for any number of calls, processes, losses and   *)
(* restarts.                                                               *)
(*                                                                         *)
(* What makes them inductive: a process that runs is the session's or the  *)
(* one the holder of the mutex starts, and then there is no session        *)
(* (OnlyTheSession, MutexHeld); and how often a request has arrived is     *)
(* bounded by the step its call has reached (ArrivedSoFar).                *)
(***************************************************************************)
EXTENDS McpClient, TLAPS

\* The mutex is kept while a process starts, by a call that needs one.
MutexHeld ==
  mutex # 0 =>
    /\ session = 0
    /\ spawned[mutex] \in Process
    /\ call[mutex] \in {"current", "lost"}

OnlyTheSession ==
  \A p \in Process : Runs(p) => p = session \/ (mutex # 0 /\ p = spawned[mutex])

ClosedForGood == closed => session = 0 /\ mutex = 0

\* The steps before a request arrives, and those before it can arrive again.
Before == {"idle", "current", "send"}
Once == {"waiting", "lost", "resend"}

ArrivedSoFar ==
  \A c \in Caller :
    /\ call[c] \in Before => arrived[c] = 0
    /\ call[c] \in Once \/ c \in Executing => arrived[c] <= 1
    /\ arrived[c] <= 2
    /\ c \in Executing => call[c] \notin {"lost", "resend", "waiting again"}

SessionInv == ClientTypeOK /\ MutexHeld /\ OnlyTheSession /\ ClosedForGood

ClientInv == SessionInv /\ ArrivedSoFar /\ ListOfThisSession

-----------------------------------------------------------------------------
(* The processes. *)

LEMMA ProcessNumbers == Process \subseteq Nat \ {0}
BY ClientAssumption DEF Process

\* Ending the session's process leaves every process a known state.
LEMMA KilledType ==
  ASSUME ClientTypeOK, NEW p \in {0} \cup Process
  PROVE  /\ Killed(p) \in [Process -> {"unborn", "live", "broken", "dead"}]
         /\ p # 0 => Killed(p)[p] = "dead"
         /\ \A q \in Process : q # p => Killed(p)[q] = state[q]
BY ProcessNumbers DEF Killed, ClientTypeOK

LEMMA InitSession == ClientInit => SessionInv
<1>1. 1 \in Process
  BY ClientAssumption DEF Process
<1>2. ASSUME ClientInit  PROVE ClientTypeOK
  <2>1. 0 \in 0 .. MaxLists
    BY ClientAssumption, SMT
  <2>2. toolList \in List
    BY <1>1, <1>2, <2>1 DEF ClientInit, List
  <2>3. call \in [Caller -> Steps] /\ arrived \in [Caller -> Nat]
    BY <1>2 DEF ClientInit, Steps
  <2>4. /\ state \in [Process -> {"unborn", "live", "broken", "dead"}]
        /\ lists \in [Process -> 0 .. MaxLists]
    BY <1>2, <2>1 DEF ClientInit
  <2>5. /\ spawned \in [Caller -> {0} \cup Process]
        /\ using \in [Caller -> {0} \cup Process]
    BY <1>2 DEF ClientInit
  <2>6. /\ ended = {} /\ session = 1 /\ closed = FALSE /\ mutex = 0 /\ refreshes = {}
    BY <1>2 DEF ClientInit
  <2> QED
    BY <1>1, <2>2, <2>3, <2>4, <2>5, <2>6 DEF ClientTypeOK
<1>3. ClientInit => MutexHeld /\ OnlyTheSession /\ ClosedForGood
  BY DEF ClientInit, MutexHeld, OnlyTheSession, ClosedForGood, Runs
<1> QED
  BY <1>2, <1>3 DEF SessionInv

\* A call that starts a process keeps the invariant if what it leaves running
\* is at most the session it replaces, which is then ended.
LEMMA SpawnKeeps ==
  ASSUME SessionInv, NEW c \in Caller, Spawn(c, Killed(session)),
         mutex = 0, ~ closed, call[c] \in {"current", "lost"}
  PROVE  SessionInv'
<1> USE DEF SessionInv
<1>1. PICK p \in Process :
        /\ state[p] = "unborn"
        /\ state' = [Killed(session) EXCEPT ![p] = "live"]
        /\ spawned' = [spawned EXCEPT ![c] = p]
  BY DEF Spawn
<1>2. /\ mutex' = c
      /\ session' = 0
      /\ UNCHANGED <<ended, closed, call, using, arrived, lists, toolList, refreshes>>
  BY DEF Spawn, callVars, listVars
<1>3. session \in {0} \cup Process
  BY DEF ClientTypeOK
<1>4. /\ Killed(session) \in [Process -> {"unborn", "live", "broken", "dead"}]
      /\ session # 0 => Killed(session)[session] = "dead"
      /\ \A q \in Process : q # session => Killed(session)[q] = state[q]
  BY <1>3, KilledType
<1>5. spawned'[c] = p
  BY <1>1 DEF ClientTypeOK
<1>6. ClientTypeOK'
  <2>1. state' \in [Process -> {"unborn", "live", "broken", "dead"}]
    BY <1>1, <1>4
  <2>2. spawned' \in [Caller -> {0} \cup Process]
    BY <1>1 DEF ClientTypeOK
  <2> QED
    BY <1>2, <2>1, <2>2 DEF ClientTypeOK
<1>7. MutexHeld'
  BY <1>2, <1>5 DEF MutexHeld
<1>8. OnlyTheSession'
  <2> SUFFICES ASSUME NEW q \in Process, Runs(q)', q # p
               PROVE  FALSE
    BY <1>2, <1>5, ClientAssumption DEF OnlyTheSession
  <2>1. state'[q] = Killed(session)[q]
    BY <1>1, <1>4
  <2>2. q # session /\ Runs(q)
    BY <1>4, <2>1, ProcessNumbers DEF Runs
  <2> QED
    BY <2>2 DEF OnlyTheSession
<1>9. ClosedForGood'
  BY <1>2 DEF ClosedForGood
<1> QED
  BY <1>6, <1>7, <1>8, <1>9

\* A call that only moves on, with the session there is or none.
LEMMA MoveKeeps ==
  ASSUME SessionInv, NEW c \in Caller, NEW step \in Steps, Go(c, step),
         mutex # c,
         UNCHANGED <<state, ended, session, closed, mutex, spawned, lists, toolList, refreshes>>,
         using' \in [Caller -> {0} \cup Process],
         arrived' \in [Caller -> Nat]
  PROVE  SessionInv'
<1>1. call' \in [Caller -> Steps] /\ (mutex # 0 => call'[mutex] = call[mutex])
  BY DEF Go, SessionInv, ClientTypeOK
<1>2. ClientTypeOK'
  BY <1>1 DEF SessionInv, ClientTypeOK
<1>3. MutexHeld' /\ OnlyTheSession' /\ ClosedForGood'
  BY <1>1 DEF SessionInv, MutexHeld, OnlyTheSession, ClosedForGood, Runs
<1> QED
  BY <1>2, <1>3 DEF SessionInv

LEMMA HolderIsWaiting ==
  ASSUME SessionInv, NEW c \in Caller, call[c] \notin {"current", "lost"}
  PROVE  mutex # c
BY ClientAssumption DEF SessionInv, MutexHeld

LEMMA NobodyHolds ==
  ASSUME NEW c \in Caller, mutex = 0
  PROVE  mutex # c
BY ClientAssumption

LEMMA CallKeepsSession ==
  ASSUME SessionInv, NEW c \in Caller, CallStep(c)
  PROVE  SessionInv'
<1> USE DEF SessionInv
<1>0. /\ session \in {0} \cup Process
      /\ using \in [Caller -> {0} \cup Process]
      /\ arrived \in [Caller -> Nat]
  BY DEF ClientTypeOK
<1>1. CASE Begin(c)
  BY <1>0, <1>1, MoveKeeps, HolderIsWaiting DEF Begin, callVars, listVars, Steps
<1>2. ASSUME closed, mutex = 0, Closed(c)  PROVE SessionInv'
  BY <1>0, <1>2, MoveKeeps, NobodyHolds DEF Closed, listVars, Steps
<1>3. ASSUME NEW step \in {"send", "resend"}, mutex = 0, Reuse(c, step)  PROVE SessionInv'
  <2>1. using' \in [Caller -> {0} \cup Process]
    BY <1>0, <1>3 DEF Reuse
  <2> QED
    BY <1>0, <1>3, <2>1, MoveKeeps, NobodyHolds DEF Reuse, listVars, Steps
<1>4. CASE Current(c)
  <2>1. CASE closed /\ Closed(c)
    BY <1>2, <1>4, <2>1 DEF Current
  <2>2. CASE Reuse(c, "send")
    BY <1>3, <1>4, <2>2 DEF Current
  <2>3. CASE ~ closed /\ Spawn(c, Killed(session))
    BY <1>4, <2>3, SpawnKeeps DEF Current
  <2> QED
    BY <1>4, <2>1, <2>2, <2>3 DEF Current, Closed
<1>5. CASE Restart(c)
  <2>1. CASE closed /\ Closed(c)
    BY <1>2, <1>5, <2>1 DEF Restart
  <2>2. CASE Reuse(c, "resend")
    BY <1>3, <1>5, <2>2 DEF Restart
  <2>3. CASE ~ closed /\ Spawn(c, Killed(session))
    BY <1>5, <2>3, SpawnKeeps DEF Restart
  <2> QED
    BY <1>5, <2>1, <2>2, <2>3 DEF Restart, Closed
<1>6. CASE Connected(c)
  <2>1. c # 0 /\ spawned[c] \in Process /\ call[c] \in {"current", "lost"}
    BY <1>6, ClientAssumption DEF Connected, MutexHeld
  <2>2. lists[spawned[c]] \in 0 .. MaxLists
    BY <2>1 DEF ClientTypeOK
  <2>3. ClientTypeOK'
    <3>1. call' \in [Caller -> Steps]
      BY <1>6 DEF Connected, Go, ClientTypeOK, Steps
    <3>2. toolList' \in List
      BY <1>6, <2>1, <2>2 DEF Connected, List
    <3>3. /\ using' \in [Caller -> {0} \cup Process]
          /\ spawned' \in [Caller -> {0} \cup Process]
      BY <1>6, <2>1 DEF Connected, ClientTypeOK
    <3> QED
      BY <1>6, <2>1, <3>1, <3>2, <3>3 DEF Connected, ClientTypeOK
  <2>4. MutexHeld' /\ ClosedForGood'
    BY <1>6, <2>1 DEF Connected, MutexHeld, ClosedForGood
  <2>5. OnlyTheSession'
    <3>1. mutex = c /\ state' = state /\ session' = spawned[c]
      BY <1>6 DEF Connected
    <3>2. session = 0
      BY <2>1, <3>1 DEF MutexHeld
    <3> QED
      BY <2>1, <3>1, <3>2, ProcessNumbers, SMT DEF OnlyTheSession, Runs
  <2> QED
    BY <2>3, <2>4, <2>5
<1>7. CASE ConnectFails(c)
  <2>1. c # 0 /\ spawned[c] \in Process /\ session = 0
    BY <1>7, ClientAssumption DEF ConnectFails, MutexHeld
  <2>2. /\ Killed(spawned[c]) \in [Process -> {"unborn", "live", "broken", "dead"}]
        /\ spawned[c] # 0 => Killed(spawned[c])[spawned[c]] = "dead"
        /\ \A q \in Process : q # spawned[c] => Killed(spawned[c])[q] = state[q]
    BY <2>1, KilledType
  <2>3. ClientTypeOK'
    <3>1. call' \in [Caller -> Steps]
      BY <1>7 DEF ConnectFails, Go, ClientTypeOK, Steps
    <3>2. spawned' \in [Caller -> {0} \cup Process]
      BY <1>7 DEF ConnectFails, ClientTypeOK
    <3> QED
      BY <1>7, <2>2, <3>1, <3>2 DEF ConnectFails, ClientTypeOK, listVars
  <2>4. MutexHeld' /\ ClosedForGood'
    BY <1>7, <2>1 DEF ConnectFails, MutexHeld, ClosedForGood
  <2>5. OnlyTheSession'
    <3> SUFFICES ASSUME NEW q \in Process, Runs(q)'
                 PROVE  FALSE
      BY DEF OnlyTheSession
    <3>1. q # spawned[c] /\ Runs(q)
      BY <1>7, <2>1, <2>2, ProcessNumbers DEF ConnectFails, Runs
    <3> QED
      BY <1>7, <2>1, <3>1, ProcessNumbers DEF ConnectFails, OnlyTheSession
  <2> QED
    BY <2>3, <2>4, <2>5
<1>8. CASE Send(c)
  <2>1. arrived' \in [Caller -> Nat]
    <3>1. arrived' = [arrived EXCEPT ![c] = @ + 1]
      BY <1>8 DEF Send
    <3> QED
      BY <1>0, <3>1, SMT
  <2> QED
    BY <1>0, <1>8, <2>1, MoveKeeps, HolderIsWaiting DEF Send, listVars, Steps
<1>9. CASE Answer(c) \/ Lose(c) \/ Fail(c)
  BY <1>0, <1>9, MoveKeeps, HolderIsWaiting DEF Answer, Lose, Fail, Moved, listVars, Steps
<1> QED
  BY <1>1, <1>4, <1>5, <1>6, <1>7, <1>8, <1>9 DEF CallStep

\* Processes break, die and change their lists as they like.
LEMMA ProcessKeepsSession ==
  ASSUME SessionInv, NEW p \in Process,
         Breaks(p) \/ Dies(p) \/ SessionEnds(p) \/ ToolListChanged(p) \/ ReadList(p)
  PROVE  SessionInv'
<1> USE DEF SessionInv
<1>1. CASE Breaks(p) \/ Dies(p)
  <2>1. state' \in [Process -> {"unborn", "live", "broken", "dead"}]
    BY <1>1 DEF Breaks, Dies, ClientTypeOK
  <2>2. ClientTypeOK'
    BY <1>1, <2>1 DEF Breaks, Dies, ClientTypeOK, callVars, listVars
  <2>3. \A q \in Process : Runs(q)' => Runs(q)
    BY <1>1 DEF Breaks, Dies, ClientTypeOK, Runs
  <2>4. MutexHeld' /\ OnlyTheSession' /\ ClosedForGood'
    BY <1>1, <2>3 DEF Breaks, Dies, callVars, MutexHeld, OnlyTheSession, ClosedForGood
  <2> QED
    BY <2>2, <2>4
<1>2. CASE SessionEnds(p) \/ ToolListChanged(p) \/ ReadList(p)
  <2>1. ClientTypeOK'
    <3>1. ended' \subseteq Process
      BY <1>2 DEF SessionEnds, ToolListChanged, ReadList, ClientTypeOK
    <3>2. lists' \in [Process -> 0 .. MaxLists]
      BY <1>2, ClientAssumption
         DEF SessionEnds, ToolListChanged, ReadList, ClientTypeOK, listVars
    <3>3. refreshes' \subseteq List
      <4>1. [from |-> p, version |-> lists[p]] \in List
        BY DEF ClientTypeOK, List
      <4> QED
        BY <1>2, <4>1 DEF SessionEnds, ToolListChanged, ReadList, ClientTypeOK, listVars
    <3> QED
      BY <1>2, <3>1, <3>2, <3>3
         DEF SessionEnds, ToolListChanged, ReadList, ClientTypeOK, callVars, listVars
  <2>2. MutexHeld' /\ OnlyTheSession' /\ ClosedForGood'
    BY <1>2 DEF SessionEnds, ToolListChanged, ReadList, callVars, listVars, Runs,
                     MutexHeld, OnlyTheSession, ClosedForGood
  <2> QED
    BY <2>1, <2>2
<1> QED
  BY <1>1, <1>2

LEMMA StoreKeepsSession ==
  ASSUME SessionInv, NEW r \in refreshes, StoreList(r)
  PROVE  SessionInv'
<1> USE DEF SessionInv
<1>1. r \in List
  BY DEF ClientTypeOK
<1>2. ClientTypeOK'
  BY <1>1 DEF StoreList, ClientTypeOK, callVars
<1>3. MutexHeld' /\ OnlyTheSession' /\ ClosedForGood'
  BY DEF StoreList, callVars, Runs, MutexHeld, OnlyTheSession, ClosedForGood
<1> QED
  BY <1>2, <1>3

LEMMA CloseKeepsSession ==
  ASSUME SessionInv, Close
  PROVE  SessionInv'
<1> USE DEF SessionInv
<1>0. session \in {0} \cup Process
  BY DEF ClientTypeOK
<1>1. /\ Killed(session) \in [Process -> {"unborn", "live", "broken", "dead"}]
      /\ session # 0 => Killed(session)[session] = "dead"
      /\ \A q \in Process : q # session => Killed(session)[q] = state[q]
  BY <1>0, KilledType
<1>2. ClientTypeOK'
  BY <1>1 DEF Close, ClientTypeOK, callVars, listVars
<1>3. OnlyTheSession'
  BY <1>1, ProcessNumbers DEF Close, OnlyTheSession, Runs
<1>4. MutexHeld' /\ ClosedForGood'
  BY DEF Close, MutexHeld, ClosedForGood
<1> QED
  BY <1>2, <1>3, <1>4

LEMMA SessionStep == SessionInv /\ [ClientNext]_clientVars => SessionInv'
<1> SUFFICES ASSUME SessionInv, [ClientNext]_clientVars  PROVE SessionInv'
  OBVIOUS
<1>1. ASSUME NEW c \in Caller, CallStep(c)  PROVE SessionInv'
  BY <1>1, CallKeepsSession
<1>2. ASSUME NEW p \in Process,
             Breaks(p) \/ Dies(p) \/ SessionEnds(p) \/ ToolListChanged(p) \/ ReadList(p)
      PROVE  SessionInv'
  BY <1>2, ProcessKeepsSession
<1>3. ASSUME NEW r \in refreshes, StoreList(r)  PROVE SessionInv'
  BY <1>3, StoreKeepsSession
<1>4. CASE Close
  BY <1>4, CloseKeepsSession
<1>5. CASE UNCHANGED clientVars
  BY <1>5 DEF clientVars, SessionInv, ClientTypeOK, MutexHeld, OnlyTheSession, ClosedForGood, Runs
<1> QED
  BY <1>1, <1>2, <1>3, <1>4, <1>5 DEF ClientNext

-----------------------------------------------------------------------------
(* The requests. *)

\* A call that goes to a step, with as many requests arrived as that step allows.
LEMMA StepKeepsArrived ==
  ASSUME SessionInv, ArrivedSoFar, NEW c \in Caller, NEW step \in Steps, Go(c, step),
         \A d \in Caller : d # c => arrived'[d] = arrived[d],
         step \in Before => arrived'[c] = 0,
         step \in Once \/ c \in Executing => arrived'[c] <= 1,
         arrived'[c] <= 2,
         c \in Executing => step \notin {"lost", "resend", "waiting again"}
  PROVE  ArrivedSoFar'
<1>1. call'[c] = step /\ \A d \in Caller : d # c => call'[d] = call[d]
  BY DEF Go, SessionInv, ClientTypeOK
<1> SUFFICES ASSUME NEW d \in Caller
             PROVE  /\ call'[d] \in Before => arrived'[d] = 0
                    /\ call'[d] \in Once \/ d \in Executing => arrived'[d] <= 1
                    /\ arrived'[d] <= 2
                    /\ d \in Executing => call'[d] \notin {"lost", "resend", "waiting again"}
  BY DEF ArrivedSoFar
<1>2. CASE d = c
  BY <1>1, <1>2
<1>3. CASE d # c
  BY <1>1, <1>3 DEF ArrivedSoFar
<1> QED
  BY <1>2, <1>3

LEMMA ZeroIsLess == \A n \in Nat : n = 0 => n <= 1
BY SMT

\* A call that goes on, and does not go back.
LEMMA MoveKeepsArrived ==
  ASSUME SessionInv, ArrivedSoFar, NEW c \in Caller, NEW step \in Steps, Go(c, step),
         UNCHANGED arrived,
         step \in Before => call[c] \in Before,
         step \in Once => call[c] \in Before \cup Once,
         c \in Executing => step \notin {"lost", "resend", "waiting again"}
  PROVE  ArrivedSoFar'
<1>1. /\ step \in Before => arrived[c] = 0
      /\ step \in Once \/ c \in Executing => arrived[c] <= 1
      /\ arrived[c] <= 2
  <2>1. /\ call[c] \in Before => arrived[c] = 0
        /\ call[c] \in Once \/ c \in Executing => arrived[c] <= 1
        /\ arrived[c] <= 2
    BY DEF ArrivedSoFar
  <2>2. arrived[c] \in Nat
    BY DEF SessionInv, ClientTypeOK
  <2> QED
    BY <2>1, <2>2, ZeroIsLess
<1> QED
  BY <1>1, StepKeepsArrived

LEMMA CallKeepsArrived ==
  ASSUME SessionInv, ArrivedSoFar, NEW c \in Caller, CallStep(c)
  PROVE  ArrivedSoFar'
<1> USE DEF Steps, Before, Once
<1>0. c \in Executing => call[c] \notin {"lost", "resend", "waiting again"}
  BY DEF ArrivedSoFar
<1>1. CASE Begin(c)
  BY <1>1, MoveKeepsArrived DEF Begin
<1>2. CASE Current(c)
  <2>1. CASE Closed(c)
    BY <1>2, <2>1, MoveKeepsArrived DEF Current, Closed
  <2>2. CASE Reuse(c, "send")
    BY <1>2, <2>2, MoveKeepsArrived DEF Current, Reuse
  <2>3. CASE Spawn(c, Killed(session))
    BY <2>3 DEF Spawn, callVars, ArrivedSoFar
  <2> QED
    BY <1>2, <2>1, <2>2, <2>3 DEF Current
<1>3. CASE Restart(c)
  <2>1. CASE Closed(c)
    BY <1>3, <2>1, MoveKeepsArrived DEF Restart, Closed
  <2>2. CASE Reuse(c, "resend")
    BY <1>0, <1>3, <2>2, MoveKeepsArrived DEF Restart, Reuse
  <2>3. CASE Spawn(c, Killed(session))
    BY <2>3 DEF Spawn, callVars, ArrivedSoFar
  <2> QED
    BY <1>3, <2>1, <2>2, <2>3 DEF Restart
<1>4. CASE Connected(c)
  <2>1. call[c] \in {"current", "lost"}
    BY <1>4, ClientAssumption DEF Connected, SessionInv, MutexHeld
  <2>2. CASE call[c] = "lost"
    <3>1. Go(c, "resend") /\ UNCHANGED arrived
      BY <1>4, <2>2 DEF Connected
    <3> QED
      BY <1>0, <2>2, <3>1, MoveKeepsArrived
  <2>3. CASE call[c] = "current"
    <3>1. Go(c, "send") /\ UNCHANGED arrived
      BY <1>4, <2>3 DEF Connected
    <3> QED
      BY <2>3, <3>1, MoveKeepsArrived
  <2> QED
    BY <2>1, <2>2, <2>3
<1>5. CASE ConnectFails(c)
  BY <1>5, MoveKeepsArrived DEF ConnectFails
<1>6. CASE Send(c)
  <2>1. arrived' = [arrived EXCEPT ![c] = @ + 1] /\ arrived \in [Caller -> Nat]
    BY <1>6 DEF Send, SessionInv, ClientTypeOK
  <2>2. /\ arrived'[c] = arrived[c] + 1
        /\ arrived[c] \in Nat
        /\ \A d \in Caller : d # c => arrived'[d] = arrived[d]
    BY <2>1
  <2>3. CASE call[c] = "send"
    <3>1. arrived[c] = 0
      BY <2>3 DEF ArrivedSoFar
    <3>2. arrived'[c] <= 1 /\ arrived'[c] <= 2
      BY <2>2, <3>1, SMT
    <3>3. Go(c, "waiting")
      BY <1>6, <2>3 DEF Send
    <3> QED
      BY <2>2, <3>2, <3>3, StepKeepsArrived
  <2>4. CASE call[c] = "resend"
    <3>1. arrived[c] <= 1
      BY <2>4 DEF ArrivedSoFar
    <3>2. arrived'[c] <= 2
      BY <2>2, <3>1, SMT
    <3>3. Go(c, "waiting again")
      BY <1>6, <2>4 DEF Send
    <3> QED
      BY <1>0, <2>2, <2>4, <3>2, <3>3, StepKeepsArrived
  <2> QED
    BY <1>6, <2>3, <2>4 DEF Send
<1>7. CASE Answer(c) \/ Fail(c)
  BY <1>7, MoveKeepsArrived DEF Answer, Fail, Moved
<1>8. CASE Lose(c)
  BY <1>8, MoveKeepsArrived DEF Lose, Moved
<1> QED
  BY <1>1, <1>2, <1>3, <1>4, <1>5, <1>6, <1>7, <1>8 DEF CallStep

LEMMA ArrivedStep ==
  SessionInv /\ ArrivedSoFar /\ [ClientNext]_clientVars => ArrivedSoFar'
<1> SUFFICES ASSUME SessionInv, ArrivedSoFar, [ClientNext]_clientVars  PROVE ArrivedSoFar'
  OBVIOUS
<1>1. ASSUME NEW c \in Caller, CallStep(c)  PROVE ArrivedSoFar'
  BY <1>1, CallKeepsArrived
<1>2. CASE UNCHANGED <<call, arrived>>
  BY <1>2 DEF ArrivedSoFar
<1>3. CASE \E p \in Process :
             Breaks(p) \/ Dies(p) \/ SessionEnds(p) \/ ToolListChanged(p) \/ ReadList(p)
  BY <1>2, <1>3 DEF Breaks, Dies, SessionEnds, ToolListChanged, ReadList, callVars
<1>4. CASE \E r \in refreshes : StoreList(r)
  BY <1>2, <1>4 DEF StoreList, callVars
<1>5. CASE Close
  BY <1>2, <1>5 DEF Close, callVars
<1>6. CASE UNCHANGED clientVars
  BY <1>2, <1>6 DEF clientVars
<1> QED
  BY <1>1, <1>3, <1>4, <1>5, <1>6 DEF ClientNext

-----------------------------------------------------------------------------
(* The list of tools. *)

LEMMA ListStep == ListOfThisSession /\ [ClientNext]_clientVars => ListOfThisSession'
<1> SUFFICES ASSUME ListOfThisSession, [ClientNext]_clientVars  PROVE ListOfThisSession'
  OBVIOUS
<1> USE DEF ListOfThisSession
<1>1. CASE UNCHANGED <<session, toolList>>
  BY <1>1
<1>2. ASSUME NEW c \in Caller, CallStep(c)  PROVE ListOfThisSession'
  <2>1. CASE Begin(c) \/ Closed(c) \/ Reuse(c, "send") \/ Reuse(c, "resend") \/ ConnectFails(c)
             \/ Send(c) \/ Answer(c) \/ Lose(c) \/ Fail(c)
    BY <1>1, <2>1 DEF Begin, Closed, Reuse, ConnectFails, Send, Answer, Lose, Fail, Moved, listVars
  <2>2. CASE Spawn(c, Killed(session))
    BY <2>2 DEF Spawn
  <2>3. CASE Connected(c)
    BY <2>3 DEF Connected
  <2> QED
    BY <1>2, <2>1, <2>2, <2>3 DEF CallStep, Current, Restart
<1>3. CASE \E p \in Process :
             Breaks(p) \/ Dies(p) \/ SessionEnds(p) \/ ToolListChanged(p) \/ ReadList(p)
  BY <1>1, <1>3 DEF Breaks, Dies, SessionEnds, ToolListChanged, ReadList, listVars
<1>4. CASE \E r \in refreshes : StoreList(r)
  BY <1>4 DEF StoreList
<1>5. CASE Close
  BY <1>5 DEF Close
<1>6. CASE UNCHANGED clientVars
  BY <1>1, <1>6 DEF clientVars
<1> QED
  BY <1>2, <1>3, <1>4, <1>5, <1>6 DEF ClientNext

-----------------------------------------------------------------------------
(* The theorems. *)

LEMMA ClientIsConsistent == ClientSpec => []ClientInv
<1>1. ClientInit => ClientInv
  <2>1. ClientInit => ArrivedSoFar /\ ListOfThisSession
    BY DEF ClientInit, ArrivedSoFar, ListOfThisSession, Before, Once
  <2> QED
    BY <2>1, InitSession DEF ClientInv
<1>2. ClientInv /\ [ClientNext]_clientVars => ClientInv'
  BY SessionStep, ArrivedStep, ListStep DEF ClientInv
<1> QED
  BY <1>1, <1>2, PTL DEF ClientSpec

\* Every variable keeps its type.
THEOREM ClientTypeCorrect == ClientSpec => []ClientTypeOK
<1>1. ClientInv => ClientTypeOK
  BY DEF ClientInv, SessionInv
<1> QED
  BY <1>1, ClientIsConsistent, PTL

\* At most one process of a plugin runs, whichever calls lose it and restart it
\* (current, restart), and none once Close has returned.
THEOREM OneProcessAtATime == ClientSpec => []OneProcess
<1>1. ClientInv => OneProcess
  <2> SUFFICES ASSUME ClientInv  PROVE OneProcess
    OBVIOUS
  <2>1. \A p, q \in Process : Runs(p) /\ Runs(q) => p = q
    BY ProcessNumbers DEF ClientInv, SessionInv, OnlyTheSession, MutexHeld
  <2>2. closed /\ mutex = 0 => \A p \in Process : ~ Runs(p)
    BY ProcessNumbers DEF ClientInv, SessionInv, OnlyTheSession, ClosedForGood
  <2> QED
    BY <2>1, <2>2 DEF OneProcess
<1> QED
  BY <1>1, ClientIsConsistent, PTL

\* CallTool sends a write in mode execute once, and any other call at most twice.
THEOREM WritesAreSentOnce == ClientSpec => []SentAtMost
<1>1. ClientInv => SentAtMost
  BY DEF ClientInv, SessionInv, ClientTypeOK, ArrivedSoFar, SentAtMost
<1> QED
  BY <1>1, ClientIsConsistent, PTL

\* The list of tools is the session's: refreshTools stores none that was read
\* from a process the client has replaced.
THEOREM TheListIsTheSessions == ClientSpec => []ListOfThisSession
<1>1. ClientInv => ListOfThisSession
  BY DEF ClientInv
<1> QED
  BY <1>1, ClientIsConsistent, PTL

=============================================================================
