------------------------ MODULE PluginActions_proofs ------------------------
(***************************************************************************)
(* Proofs about the approval core, for any number of actions, people and   *)
(* concurrent callers and for all timeouts that satisfy                    *)
(* ConstantsAssumption.                                                    *)
(*                                                                         *)
(* The safety invariants are not inductive by themselves.  IInv adds what  *)
(* makes them so: the deadline of a claimed call always falls before the   *)
(* row turns stale (Deadlines), a handler's local view of "something was   *)
(* changed" agrees with the other system (Effects), and nobody is about to *)
(* remove attachments somebody still needs (Attachments).                  *)
(***************************************************************************)
EXTENDS PluginActions, TLAPS

\* The steps of a handler that works on a definite action.
Working(h) == pc[h] \notin {"idle", "dropping"}

\* The steps in which a new ID is held but its row does not exist yet.
Creating(h) == pc[h] \in {"previewing", "storing", "holding"}

WorkingOnAction ==
  \A h \in Handler : Working(h) => on[h] \in Action

Deadlines ==
  \A h \in Handler : Claimed(h) => age[on[h]] + due[h] < StaleAfter

Effects ==
  /\ \A a \in Action : performed[a] <= 1
  /\ \A a \in lost : performed[a] = 0
  /\ \A a \in Action : status[a] = "done" => performed[a] = 1
  /\ \A h \in Handler : Claimed(h) /\ pc[h] # "finishing" =>
       /\ performed[on[h]] = IF did[h] THEN 1 ELSE 0
       /\ on[h] \notin lost
  /\ \A h \in Handler : did[h] => pc[h] \in {"calling", "finishing"}
  /\ \A h \in Handler : pc[h] = "finishing" /\ out[h] = "done" => performed[on[h]] = 1

Attachments ==
  /\ \A h \in Handler : Creating(h) =>
       /\ status[on[h]] = "none"
       /\ HasFiles(on[h]) => on[h] \in inbox
       /\ \A g \in Handler \ {h} : Creating(g) => on[g] # on[h]
  /\ \A h \in Handler : \A a \in drop[h] :
       /\ status[a] # "pending"
       /\ \A g \in Handler : Claimed(g) \/ Creating(g) => on[g] # a
  /\ \A a \in batch : status[a] \in Ended

\* A step's operation, where later steps depend on it.
Operations ==
  \A h \in Handler :
    /\ pc[h] \in {"reopening", "deleting"} => op[h] = "approve"
    /\ pc[h] = "claiming" /\ op[h] = "login" => KindOf[on[h]] = "login_kick"
    /\ pc[h] = "finishing" => ~Unclaimed(h)
    /\ pc[h] \in {"claiming", "opening", "calling"} => op[h] \in {"approve", "login"}

TypeInv == TypeOK /\ WorkingOnAction
ClaimsInv == Operations /\ ClaimIsExclusive /\ Deadlines
EffectsInv == Effects /\ NothingDoneUnlessClaimed
FilesInv == Attachments /\ AttachmentsKept

IInv == TypeInv /\ ClaimsInv /\ EffectsInv /\ FilesInv

-----------------------------------------------------------------------------
(* Type correctness *)

\* Every step keeps the type of every variable, and a handler that is at work
\* keeps an action to work on.
LEMMA TypeStep ==
  ASSUME TypeInv, [Next]_vars
  PROVE  TypeInv'
<1> USE ConstantsAssumption, SMTT(30) DEF TypeInv, TypeOK, WorkingOnAction, Working, Status, Ended,
      Step, Op, Kind, Fault, NoFault,
      Ready, Goto, Return, Discard, TransitionPluginAction, NoTransition,
      CreatePluginAction, MarkInvalid, GiveUp, FinishWith, Deadline, SetStatus, BulkUpdate,
      StaleRows, OverdueRows, rowVars, storeVars, handlerVars, janitorVars,
      worldVars, boundVars, procVars
<1>1. ASSUME NEW h \in Handler, PreviewSucceeds(h) PROVE TypeInv'
  BY <1>1 DEF PreviewSucceeds
<1>2. ASSUME NEW h \in Handler, CallAnswered(h) PROVE TypeInv'
  BY <1>2 DEF CallAnswered
<1>3. ASSUME NEW h \in Handler, Stored(h) PROVE TypeInv'
  BY <1>3 DEF Stored
<1>4. ASSUME NEW h \in Handler, StoreFails(h) PROVE TypeInv'
  BY <1>4 DEF StoreFails
<1>5. ASSUME NEW h \in Handler, HoldStored(h) PROVE TypeInv'
  BY <1>5 DEF HoldStored
<1>6. ASSUME NEW h \in Handler, HoldStoreFails(h) PROVE TypeInv'
  BY <1>6 DEF HoldStoreFails
<1>7. ASSUME NEW h \in Handler, Prompted(h) PROVE TypeInv'
  BY <1>7 DEF Prompted
<1>8. ASSUME NEW h \in Handler, Drop(h) PROVE TypeInv'
  <2>1. CASE on[h] = NoAction
    <3>1. /\ Return(h)
          /\ inbox' = inbox \ drop[h]
          /\ UNCHANGED <<rowVars, account, procVars, janitorVars, worldVars, boundVars>>
      BY <1>8, <2>1 DEF Drop
    <3>2. inbox' \subseteq Action
      BY <3>1
    <3>3. QED
      BY <3>1, <3>2
  <2>2. CASE on[h] # NoAction
    BY <1>8, <2>2 DEF Drop
  <2>3. QED
    BY <1>8, <2>1, <2>2 DEF Drop
<1>9. ASSUME NEW h \in Handler, ExpireOverdue(h) PROVE TypeInv'
  BY <1>9 DEF ExpireOverdue
<1>10. ASSUME NEW h \in Handler, ExpireOverdueLost(h) PROVE TypeInv'
  BY <1>10 DEF ExpireOverdueLost
<1>11. ASSUME NEW h \in Handler, Claim(h) PROVE TypeInv'
  BY <1>11 DEF Claim
<1>12. ASSUME NEW h \in Handler, ClaimLost(h) PROVE TypeInv'
  BY <1>12 DEF ClaimLost
<1>13. ASSUME NEW h \in Handler, Open(h) PROVE TypeInv'
  BY <1>13 DEF Open
<1>14. ASSUME NEW h \in Handler, OpenFails(h) PROVE TypeInv'
  <2>1. CASE Unclaimed(h) /\ Return(h)
    BY <1>14, <2>1 DEF OpenFails
  <2>2. CASE ~Unclaimed(h)
    BY <1>14, <2>2 DEF OpenFails
  <2>3. QED
    BY <1>14, <2>1, <2>2 DEF OpenFails
<1>15. ASSUME NEW h \in Handler, Perform(h) PROVE TypeInv'
  BY <1>15 DEF Perform
<1>16. ASSUME NEW h \in Handler, CallSucceeds(h) PROVE TypeInv'
  <2>1. CASE Unclaimed(h) /\ Return(h)
    BY <1>16, <2>1 DEF CallSucceeds
  <2>2. CASE ~Unclaimed(h)
    BY <1>16, <2>2 DEF CallSucceeds
  <2>3. QED
    BY <1>16, <2>1, <2>2 DEF CallSucceeds
<1>17. ASSUME NEW h \in Handler, CallRefused(h) PROVE TypeInv'
  <2>1. CASE Unclaimed(h) /\ Return(h)
    BY <1>17, <2>1 DEF CallRefused
  <2>2. CASE ~Unclaimed(h)
    BY <1>17, <2>2 DEF CallRefused
  <2>3. QED
    BY <1>17, <2>1, <2>2 DEF CallRefused
<1>18. ASSUME NEW h \in Handler, CallFails(h) PROVE TypeInv'
  <2>1. CASE Unclaimed(h) /\ Return(h)
    BY <1>18, <2>1 DEF CallFails
  <2>2. CASE ~Unclaimed(h)
    BY <1>18, <2>2 DEF CallFails
  <2>3. QED
    BY <1>18, <2>1, <2>2 DEF CallFails
<1>19. ASSUME NEW h \in Handler, DeleteAccount(h) PROVE TypeInv'
  BY <1>19 DEF DeleteAccount
<1>20. ASSUME NEW h \in Handler, DeleteAccountFails(h) PROVE TypeInv'
  BY <1>20 DEF DeleteAccountFails
<1>21. ASSUME NEW h \in Handler, Reopen(h) PROVE TypeInv'
  BY <1>21 DEF Reopen
<1>22. ASSUME NEW h \in Handler, Finish(h) PROVE TypeInv'
  BY <1>22 DEF Finish
<1>23. ASSUME NEW h \in Handler, NEW a \in Action, Dispatch(h, a) PROVE TypeInv'
  BY <1>23 DEF Dispatch, Fresh
<1>24. ASSUME NEW h \in Handler, NEW a \in Action, HoldForKick(h, a) PROVE TypeInv'
  BY <1>24 DEF HoldForKick, Fresh
<1>25. ASSUME NEW h \in Handler, NEW a \in Action, AskDisconnect(h, a) PROVE TypeInv'
  BY <1>25 DEF AskDisconnect, Fresh
<1>26. ASSUME NEW h \in Handler, NEW a \in Action, Approve(h, a) PROVE TypeInv'
  BY <1>26 DEF Approve, Fresh
<1>27. ASSUME NEW h \in Handler, NEW a \in Action, LoginAndResume(h, a) PROVE TypeInv'
  BY <1>27 DEF LoginAndResume, Fresh
<1>28. ASSUME NEW h \in Handler, NEW a \in Action, Cancel(h, a) PROVE TypeInv'
  BY <1>28 DEF Cancel, Fresh
<1>29. ASSUME NEW u \in User, Connect(u) PROVE TypeInv'
  BY <1>29 DEF Connect
<1>30. ASSUME NEW a \in Action, LostCallEnds(a) PROVE TypeInv'
  BY <1>30 DEF LostCallEnds
<1>31. CASE RecoverStale
  BY <1>31 DEF RecoverStale
<1>32. CASE SweepStale
  BY <1>32 DEF SweepStale
<1>33. CASE Expire
  BY <1>33 DEF Expire
<1>34. CASE SweepExpired
  BY <1>34 DEF SweepExpired
<1>35. CASE Tick
  BY <1>35 DEF Tick
<1>36. CASE StartPlugin
  BY <1>36 DEF StartPlugin
<1>37. CASE Crash
  <2>1. CutOff \subseteq Action
    BY DEF CutOff
  <2>2. lost' \subseteq Action
    BY <1>37, <2>1 DEF Crash
  <2>3. crashesLeft' \in 0..MaxCrashes
    BY <1>37 DEF Crash
  <2>4. /\ pc' \in [Handler -> Step] /\ op' \in [Handler -> Op]
        /\ on' \in [Handler -> Action \cup {NoAction}]
        /\ did' \in [Handler -> BOOLEAN] /\ out' \in [Handler -> {"done", "failed"}]
    BY <1>37 DEF Crash
  <2>5. due' \in [Handler -> Nat] /\ drop' \in [Handler -> SUBSET Action]
    BY <1>37 DEF Crash
  <2>6. WorkingOnAction'
    BY <1>37 DEF Crash
  <2>9. UNCHANGED <<status, left, age, account, inbox, performed, faultsLeft>>
    BY <1>37 DEF Crash
  <2>12. up' \in BOOLEAN
    <3>1. up' = FALSE
      BY <1>37, Zenon DEF Crash
    <3>2. QED
      BY <3>1, Zenon
  <2>10. /\ plug' \in {"starting", "ready", "absent"}
         /\ jpc' \in {"idle", "sweepStale", "expire", "sweepExpired"} /\ batch' \subseteq Action
    BY <1>37 DEF Crash
  <2>11. /\ status' \in [Action -> Status] /\ left' \in [Action -> 0..TTL]
         /\ age' \in [Action -> 0..StaleAfter]
         /\ account' \in [User -> {"none", "ok", "invalid"}] /\ inbox' \subseteq Action
         /\ performed' \in [Action -> Nat] /\ faultsLeft' \in 0..MaxFaults
    BY <2>9
  <2>7. TypeOK'
    <3> HIDE DEF TypeInv, WorkingOnAction, Step, Op, Status
    <3>1. QED
      BY <2>2, <2>3, <2>4, <2>5, <2>10, <2>11, <2>12 DEF TypeOK
  <2>8. QED
    BY <2>6, <2>7
<1>38. CASE Restart
  BY <1>38 DEF Restart
<1>39. CASE UNCHANGED vars
  BY <1>39 DEF vars
<1>40. QED
  BY <1>1, <1>2, <1>3, <1>4, <1>5, <1>6, <1>7, <1>8, <1>9, <1>10, <1>11, <1>12, <1>13,
     <1>14, <1>15, <1>16, <1>17, <1>18, <1>19, <1>20, <1>21, <1>22, <1>23, <1>24,
     <1>25, <1>26, <1>27, <1>28, <1>29, <1>30, <1>31, <1>32, <1>33, <1>34, <1>35,
     <1>36, <1>37, <1>38, <1>39
     DEF Next, HandlerStep, Request, JanitorStep

\* Every variable keeps its type, whatever the interleaving, and a handler
\* that is at work has an action to work on.
LEMMA TypeInvariance == Spec => []TypeInv
<1>1. Init => TypeInv
  BY ConstantsAssumption DEF Init, TypeInv, TypeOK, WorkingOnAction, Working, Status, Step, Op
<1>2. TypeInv /\ [Next]_vars => TypeInv'
  BY TypeStep
<1>3. QED
  BY <1>1, <1>2, PTL DEF Spec

\* The type invariant of the registry and its table (registry.go, plugins.go).
THEOREM TypeCorrect == Spec => []TypeOK
<1>1. TypeInv => TypeOK
  BY DEF TypeInv
<1>2. QED
  BY <1>1, TypeInvariance, PTL

-----------------------------------------------------------------------------
(* The inductive invariant: one lemma per group of its conjuncts *)

\* No step lets an action be claimed twice or leave running while its handler is
\* at work (claim's conditional UPDATE), because the handler's deadline passes
\* before the row is old enough for RecoverStale.
LEMMA ClaimsStep ==
  ASSUME IInv, TypeInv', [Next]_vars
  PROVE  ClaimsInv'
<1> USE ConstantsAssumption, SMTT(30) DEF IInv, TypeInv, ClaimsInv, EffectsInv, FilesInv, Fault,
      NoFault, Ready, Goto, Return, Discard,
      TransitionPluginAction, NoTransition,
      CreatePluginAction, MarkInvalid, GiveUp, FinishWith, Deadline, SetStatus, BulkUpdate, StaleRows,
      OverdueRows, rowVars, storeVars, handlerVars, janitorVars, worldVars, boundVars,
      procVars, TypeOK, WorkingOnAction, Working, Claimed, Unclaimed, Fresh, Creating,
      Operations, ClaimIsExclusive, Deadlines
<1>1. ASSUME NEW h \in Handler, PreviewSucceeds(h) PROVE ClaimsInv'
  BY <1>1 DEF PreviewSucceeds
<1>2. ASSUME NEW h \in Handler, CallAnswered(h) PROVE ClaimsInv'
  BY <1>2 DEF CallAnswered
<1>3. ASSUME NEW h \in Handler, Stored(h) PROVE ClaimsInv'
  BY <1>3 DEF Stored
<1>4. ASSUME NEW h \in Handler, StoreFails(h) PROVE ClaimsInv'
  BY <1>4 DEF StoreFails
<1>5. ASSUME NEW h \in Handler, HoldStored(h) PROVE ClaimsInv'
  BY <1>5 DEF HoldStored
<1>6. ASSUME NEW h \in Handler, HoldStoreFails(h) PROVE ClaimsInv'
  BY <1>6 DEF HoldStoreFails
<1>7. ASSUME NEW h \in Handler, Prompted(h) PROVE ClaimsInv'
  BY <1>7 DEF Prompted
<1>8. ASSUME NEW h \in Handler, Drop(h) PROVE ClaimsInv'
  BY <1>8 DEF Drop
<1>9. ASSUME NEW h \in Handler, ExpireOverdue(h) PROVE ClaimsInv'
  BY <1>9 DEF ExpireOverdue
<1>10. ASSUME NEW h \in Handler, ExpireOverdueLost(h) PROVE ClaimsInv'
  BY <1>10 DEF ExpireOverdueLost
<1>11. ASSUME NEW h \in Handler, Claim(h) PROVE ClaimsInv'
  <2>1. /\ status[on[h]] = "pending" /\ ~Claimed(h)
        /\ status' = [status EXCEPT ![on[h]] = "running"]
        /\ age' = [age EXCEPT ![on[h]] = 0]
        /\ due' = [due EXCEPT ![h] = Deadline(h)]
        /\ pc' = [pc EXCEPT ![h] = IF KindOf[on[h]] = "disconnect" THEN "deleting" ELSE "opening"]
        /\ UNCHANGED <<op, on, out>>
        /\ on[h] \in Action
    BY <1>11 DEF Claim
  <2>2. \A g \in Handler \ {h} : Claimed(g)' => Claimed(g) /\ on[g] # on[h]
    BY <2>1
  <2>3. Deadline(h) \in Nat /\ Deadline(h) < StaleAfter
    OBVIOUS
  <2>4. Operations'
    BY <1>11, <2>1 DEF Claim
  <2>5. ClaimIsExclusive'
    <3>1. \A g \in Handler : Claimed(g)' => status'[on'[g]] = "running"
      BY <2>1, <2>2
    <3>2. \A f, g \in Handler : Claimed(f)' /\ Claimed(g)' /\ f # g => on'[f] # on'[g]
      BY <2>1, <2>2
    <3>3. QED
      BY <3>1, <3>2 DEF ClaimIsExclusive
  <2>6. Deadlines'
    BY <2>1, <2>2, <2>3
  <2>7. QED
    BY <2>4, <2>5, <2>6
<1>12. ASSUME NEW h \in Handler, ClaimLost(h) PROVE ClaimsInv'
  BY <1>12 DEF ClaimLost
<1>13. ASSUME NEW h \in Handler, Open(h) PROVE ClaimsInv'
  BY <1>13 DEF Open
<1>14. ASSUME NEW h \in Handler, OpenFails(h) PROVE ClaimsInv'
  <2>1. CASE Unclaimed(h) /\ Return(h)
    BY <1>14, <2>1 DEF OpenFails
  <2>2. CASE ~Unclaimed(h)
    BY <1>14, <2>2 DEF OpenFails
  <2>3. QED
    BY <1>14, <2>1, <2>2 DEF OpenFails
<1>15. ASSUME NEW h \in Handler, Perform(h) PROVE ClaimsInv'
  BY <1>15 DEF Perform
<1>16. ASSUME NEW h \in Handler, CallSucceeds(h) PROVE ClaimsInv'
  <2>1. CASE Unclaimed(h) /\ Return(h)
    BY <1>16, <2>1 DEF CallSucceeds
  <2>2. CASE ~Unclaimed(h)
    BY <1>16, <2>2 DEF CallSucceeds
  <2>3. QED
    BY <1>16, <2>1, <2>2 DEF CallSucceeds
<1>17. ASSUME NEW h \in Handler, CallRefused(h) PROVE ClaimsInv'
  <2>1. CASE Unclaimed(h) /\ Return(h)
    BY <1>17, <2>1 DEF CallRefused
  <2>2. CASE ~Unclaimed(h)
    BY <1>17, <2>2 DEF CallRefused
  <2>3. QED
    BY <1>17, <2>1, <2>2 DEF CallRefused
<1>18. ASSUME NEW h \in Handler, CallFails(h) PROVE ClaimsInv'
  <2>1. CASE Unclaimed(h) /\ Return(h)
    BY <1>18, <2>1 DEF CallFails
  <2>2. CASE ~Unclaimed(h)
    BY <1>18, <2>2 DEF CallFails
  <2>3. QED
    BY <1>18, <2>1, <2>2 DEF CallFails
<1>19. ASSUME NEW h \in Handler, DeleteAccount(h) PROVE ClaimsInv'
  BY <1>19 DEF DeleteAccount
<1>20. ASSUME NEW h \in Handler, DeleteAccountFails(h) PROVE ClaimsInv'
  BY <1>20 DEF DeleteAccountFails
<1>21. ASSUME NEW h \in Handler, Reopen(h) PROVE ClaimsInv'
  BY <1>21 DEF Reopen
<1>22. ASSUME NEW h \in Handler, Finish(h) PROVE ClaimsInv'
  <2>1. Claimed(h) /\ on[h] \in Action /\ out[h] \in Ended
    BY <1>22 DEF Finish, Ended
  <2>2. \A g \in Handler : Claimed(g)' =>
          g # h /\ Claimed(g) /\ on'[g] = on[g] /\ due'[g] = due[g]
    BY <1>22 DEF Finish
  <2>3. \A g \in Handler : Claimed(g)' => on[g] # on[h] /\ on[g] \in Action
    BY <2>1, <2>2
  <2>4. \A a \in Action \ {on[h]} : status'[a] = status[a] /\ age'[a] = age[a]
    BY <1>22 DEF Finish
  <2>5. ClaimIsExclusive' /\ Deadlines'
    BY <2>2, <2>3, <2>4
  <2>6. Operations'
    BY <1>22 DEF Finish
  <2>7. QED
    BY <2>5, <2>6
<1>23. ASSUME NEW h \in Handler, NEW a \in Action, Dispatch(h, a) PROVE ClaimsInv'
  BY <1>23 DEF Dispatch
<1>24. ASSUME NEW h \in Handler, NEW a \in Action, HoldForKick(h, a) PROVE ClaimsInv'
  BY <1>24 DEF HoldForKick
<1>25. ASSUME NEW h \in Handler, NEW a \in Action, AskDisconnect(h, a) PROVE ClaimsInv'
  BY <1>25 DEF AskDisconnect
<1>26. ASSUME NEW h \in Handler, NEW a \in Action, Approve(h, a) PROVE ClaimsInv'
  BY <1>26 DEF Approve
<1>27. ASSUME NEW h \in Handler, NEW a \in Action, LoginAndResume(h, a) PROVE ClaimsInv'
  BY <1>27 DEF LoginAndResume
<1>28. ASSUME NEW h \in Handler, NEW a \in Action, Cancel(h, a) PROVE ClaimsInv'
  BY <1>28 DEF Cancel
<1>29. ASSUME NEW u \in User, Connect(u) PROVE ClaimsInv'
  BY <1>29 DEF Connect
<1>30. ASSUME NEW a \in Action, LostCallEnds(a) PROVE ClaimsInv'
  BY <1>30 DEF LostCallEnds
<1>31. CASE RecoverStale
  BY <1>31 DEF RecoverStale
<1>32. CASE SweepStale
  BY <1>32 DEF SweepStale
<1>33. CASE Expire
  BY <1>33 DEF Expire
<1>34. CASE SweepExpired
  BY <1>34 DEF SweepExpired
<1>35. CASE Tick
  BY <1>35 DEF Tick
<1>36. CASE StartPlugin
  BY <1>36 DEF StartPlugin
<1>37. CASE Crash
  BY <1>37 DEF Crash
<1>38. CASE Restart
  BY <1>38 DEF Restart
<1>39. CASE UNCHANGED vars
  BY <1>39 DEF vars
<1>40. QED
  BY <1>1, <1>2, <1>3, <1>4, <1>5, <1>6, <1>7, <1>8, <1>9, <1>10, <1>11, <1>12, <1>13,
     <1>14, <1>15, <1>16, <1>17, <1>18, <1>19, <1>20, <1>21, <1>22, <1>23, <1>24,
     <1>25, <1>26, <1>27, <1>28, <1>29, <1>30, <1>31, <1>32, <1>33, <1>34, <1>35,
     <1>36, <1>37, <1>38, <1>39
     DEF Next, HandlerStep, Request, JanitorStep

\* No step changes the other system twice for one action, or for an action that
\* says nothing was done: Perform and DeleteAccount need a claim, and a call that
\* nobody waits for any more belongs to a row that failed.
LEMMA EffectsStep ==
  ASSUME IInv, TypeInv', [Next]_vars
  PROVE  EffectsInv'
<1> USE ConstantsAssumption, SMTT(30) DEF IInv, TypeInv, ClaimsInv, EffectsInv, FilesInv, Fault,
      NoFault, Ready, Goto, Return, Discard,
      TransitionPluginAction, NoTransition,
      CreatePluginAction, MarkInvalid, GiveUp, FinishWith, Deadline, SetStatus, BulkUpdate, StaleRows,
      OverdueRows, rowVars, storeVars, handlerVars, janitorVars, worldVars, boundVars,
      procVars, TypeOK, WorkingOnAction, Working, Claimed, Unclaimed, Fresh, Creating,
      Operations, ClaimIsExclusive, Effects, NothingDoneUnlessClaimed
<1>1. ASSUME NEW h \in Handler, PreviewSucceeds(h) PROVE EffectsInv'
  BY <1>1 DEF PreviewSucceeds
<1>2. ASSUME NEW h \in Handler, CallAnswered(h) PROVE EffectsInv'
  BY <1>2 DEF CallAnswered
<1>3. ASSUME NEW h \in Handler, Stored(h) PROVE EffectsInv'
  BY <1>3 DEF Stored
<1>4. ASSUME NEW h \in Handler, StoreFails(h) PROVE EffectsInv'
  BY <1>4 DEF StoreFails
<1>5. ASSUME NEW h \in Handler, HoldStored(h) PROVE EffectsInv'
  BY <1>5 DEF HoldStored
<1>6. ASSUME NEW h \in Handler, HoldStoreFails(h) PROVE EffectsInv'
  BY <1>6 DEF HoldStoreFails
<1>7. ASSUME NEW h \in Handler, Prompted(h) PROVE EffectsInv'
  BY <1>7 DEF Prompted
<1>8. ASSUME NEW h \in Handler, Drop(h) PROVE EffectsInv'
  <2>1. /\ pc[h] = "dropping" /\ pc' = [pc EXCEPT ![h] = pc'[h]]
        /\ pc'[h] \in {"idle", "prompting"}
        /\ did' = did
        /\ \A g \in Handler \ {h} : op'[g] = op[g] /\ on'[g] = on[g] /\ out'[g] = out[g]
        /\ UNCHANGED <<status, performed, lost>>
    <3>1. CASE on[h] = NoAction
      BY <1>8, <3>1 DEF Drop
    <3>2. CASE on[h] # NoAction
      BY <1>8, <3>2 DEF Drop
    <3>3. QED
      BY <3>1, <3>2
  <2>2. ~did[h]
    BY <2>1
  <2>3. \A g \in Handler : Claimed(g)' \/ pc'[g] = "finishing" =>
          g # h /\ pc'[g] = pc[g] /\ (Claimed(g)' <=> Claimed(g))
    BY <2>1
  <2>4. NothingDoneUnlessClaimed'
    BY <2>1
  <2>5. \A g \in Handler : did'[g] => pc'[g] \in {"calling", "finishing"}
    BY <2>1, <2>2
  <2>6. QED
    BY <2>1, <2>3, <2>4, <2>5
<1>9. ASSUME NEW h \in Handler, ExpireOverdue(h) PROVE EffectsInv'
  BY <1>9 DEF ExpireOverdue
<1>10. ASSUME NEW h \in Handler, ExpireOverdueLost(h) PROVE EffectsInv'
  BY <1>10 DEF ExpireOverdueLost
<1>11. ASSUME NEW h \in Handler, Claim(h) PROVE EffectsInv'
  BY <1>11 DEF Claim
<1>12. ASSUME NEW h \in Handler, ClaimLost(h) PROVE EffectsInv'
  BY <1>12 DEF ClaimLost
<1>13. ASSUME NEW h \in Handler, Open(h) PROVE EffectsInv'
  BY <1>13 DEF Open
<1>14. ASSUME NEW h \in Handler, OpenFails(h) PROVE EffectsInv'
  <2>1. CASE Unclaimed(h) /\ Return(h)
    BY <1>14, <2>1 DEF OpenFails
  <2>2. CASE ~Unclaimed(h)
    BY <1>14, <2>2 DEF OpenFails
  <2>3. QED
    BY <1>14, <2>1, <2>2 DEF OpenFails
<1>15. ASSUME NEW h \in Handler, Perform(h) PROVE EffectsInv'
  BY <1>15 DEF Perform
<1>16. ASSUME NEW h \in Handler, CallSucceeds(h) PROVE EffectsInv'
  <2>1. CASE Unclaimed(h) /\ Return(h)
    BY <1>16, <2>1 DEF CallSucceeds
  <2>2. CASE ~Unclaimed(h)
    BY <1>16, <2>2 DEF CallSucceeds
  <2>3. QED
    BY <1>16, <2>1, <2>2 DEF CallSucceeds
<1>17. ASSUME NEW h \in Handler, CallRefused(h) PROVE EffectsInv'
  <2>1. CASE Unclaimed(h) /\ Return(h)
    BY <1>17, <2>1 DEF CallRefused
  <2>2. CASE ~Unclaimed(h)
    BY <1>17, <2>2 DEF CallRefused
  <2>3. QED
    BY <1>17, <2>1, <2>2 DEF CallRefused
<1>18. ASSUME NEW h \in Handler, CallFails(h) PROVE EffectsInv'
  <2>1. CASE Unclaimed(h) /\ Return(h)
    BY <1>18, <2>1 DEF CallFails
  <2>2. CASE ~Unclaimed(h)
    BY <1>18, <2>2 DEF CallFails
  <2>3. QED
    BY <1>18, <2>1, <2>2 DEF CallFails
<1>19. ASSUME NEW h \in Handler, DeleteAccount(h) PROVE EffectsInv'
  BY <1>19 DEF DeleteAccount
<1>20. ASSUME NEW h \in Handler, DeleteAccountFails(h) PROVE EffectsInv'
  BY <1>20 DEF DeleteAccountFails
<1>21. ASSUME NEW h \in Handler, Reopen(h) PROVE EffectsInv'
  BY <1>21 DEF Reopen
<1>22. ASSUME NEW h \in Handler, Finish(h) PROVE EffectsInv'
  BY <1>22 DEF Finish
<1>23. ASSUME NEW h \in Handler, NEW a \in Action, Dispatch(h, a) PROVE EffectsInv'
  BY <1>23 DEF Dispatch
<1>24. ASSUME NEW h \in Handler, NEW a \in Action, HoldForKick(h, a) PROVE EffectsInv'
  BY <1>24 DEF HoldForKick
<1>25. ASSUME NEW h \in Handler, NEW a \in Action, AskDisconnect(h, a) PROVE EffectsInv'
  BY <1>25 DEF AskDisconnect
<1>26. ASSUME NEW h \in Handler, NEW a \in Action, Approve(h, a) PROVE EffectsInv'
  BY <1>26 DEF Approve
<1>27. ASSUME NEW h \in Handler, NEW a \in Action, LoginAndResume(h, a) PROVE EffectsInv'
  BY <1>27 DEF LoginAndResume
<1>28. ASSUME NEW h \in Handler, NEW a \in Action, Cancel(h, a) PROVE EffectsInv'
  BY <1>28 DEF Cancel
<1>29. ASSUME NEW u \in User, Connect(u) PROVE EffectsInv'
  BY <1>29 DEF Connect
<1>30. ASSUME NEW a \in Action, LostCallEnds(a) PROVE EffectsInv'
  <2>1. /\ a \in lost /\ lost' = lost \ {a}
        /\ performed[a] = 0
        /\ status[a] \notin {"none", "pending", "cancelled", "expired", "done"}
        /\ UNCHANGED <<status, pc, op, on, did, out>>
    BY <1>30 DEF LostCallEnds
  <2>2. \A b \in Action \ {a} : performed'[b] = performed[b]
    BY <1>30 DEF LostCallEnds
  <2>3. performed'[a] \in {0, 1}
    BY <1>30, <2>1 DEF LostCallEnds
  <2>4. NothingDoneUnlessClaimed'
    BY <2>1, <2>2
  <2>5. \A g \in Handler : Claimed(g) /\ pc[g] # "finishing" => on[g] \in Action \ {a}
    BY <2>1
  <2>6. \A g \in Handler : pc[g] = "finishing" /\ out[g] = "done" => on[g] \in Action \ {a}
    BY <2>1
  <2>7. Effects'
    BY <2>1, <2>2, <2>3, <2>5, <2>6
  <2>8. QED
    BY <2>4, <2>7
<1>31. CASE RecoverStale
  BY <1>31 DEF RecoverStale
<1>32. CASE SweepStale
  BY <1>32 DEF SweepStale
<1>33. CASE Expire
  BY <1>33 DEF Expire
<1>34. CASE SweepExpired
  BY <1>34 DEF SweepExpired
<1>35. CASE Tick
  BY <1>35 DEF Tick
<1>36. CASE StartPlugin
  BY <1>36 DEF StartPlugin
<1>37. CASE Crash
  <2>1. \A a \in CutOff : performed[a] = 0 /\ status[a] = "running"
    BY DEF CutOff
  <2>2. /\ lost' = lost \cup CutOff
        /\ pc' = [g \in Handler |-> "idle"] /\ did' = [g \in Handler |-> FALSE]
        /\ UNCHANGED <<status, performed>>
    BY <1>37 DEF Crash
  <2>3. NothingDoneUnlessClaimed'
    BY <2>1, <2>2
  <2>4. Effects'
    BY <2>1, <2>2
  <2>5. QED
    BY <2>3, <2>4
<1>38. CASE Restart
  BY <1>38 DEF Restart
<1>39. CASE UNCHANGED vars
  BY <1>39 DEF vars
<1>40. QED
  BY <1>1, <1>2, <1>3, <1>4, <1>5, <1>6, <1>7, <1>8, <1>9, <1>10, <1>11, <1>12, <1>13,
     <1>14, <1>15, <1>16, <1>17, <1>18, <1>19, <1>20, <1>21, <1>22, <1>23, <1>24,
     <1>25, <1>26, <1>27, <1>28, <1>29, <1>30, <1>31, <1>32, <1>33, <1>34, <1>35,
     <1>36, <1>37, <1>38, <1>39
     DEF Next, HandlerStep, Request, JanitorStep

\* No step leaves a pending or claimed call without its attachments: what is
\* removed belongs to rows that ended or never were, and a new ID is nobody's.
LEMMA AttachmentsStep ==
  ASSUME IInv, TypeInv', [Next]_vars
  PROVE  FilesInv'
<1> USE ConstantsAssumption, SMTT(30) DEF IInv, TypeInv, ClaimsInv, EffectsInv, FilesInv, Fault,
      NoFault, Ready, Goto, Return, Discard,
      TransitionPluginAction, NoTransition,
      CreatePluginAction, MarkInvalid, GiveUp, FinishWith, Deadline, SetStatus, BulkUpdate, StaleRows,
      OverdueRows, rowVars, storeVars, handlerVars, janitorVars, worldVars, boundVars,
      procVars, TypeOK, WorkingOnAction, Working, Claimed, Unclaimed, Fresh, Creating,
      Operations, ClaimIsExclusive, Attachments, AttachmentsKept,
      HasFiles, Ended, Status
<1>1. ASSUME NEW h \in Handler, PreviewSucceeds(h) PROVE FilesInv'
  BY <1>1 DEF PreviewSucceeds
<1>2. ASSUME NEW h \in Handler, CallAnswered(h) PROVE FilesInv'
  BY <1>2 DEF CallAnswered
<1>3. ASSUME NEW h \in Handler, Stored(h) PROVE FilesInv'
  BY <1>3 DEF Stored
<1>4. ASSUME NEW h \in Handler, StoreFails(h) PROVE FilesInv'
  BY <1>4 DEF StoreFails
<1>5. ASSUME NEW h \in Handler, HoldStored(h) PROVE FilesInv'
  BY <1>5 DEF HoldStored
<1>6. ASSUME NEW h \in Handler, HoldStoreFails(h) PROVE FilesInv'
  BY <1>6 DEF HoldStoreFails
<1>7. ASSUME NEW h \in Handler, Prompted(h) PROVE FilesInv'
  BY <1>7 DEF Prompted
<1>8. ASSUME NEW h \in Handler, Drop(h) PROVE FilesInv'
  <2>1. \A g \in Handler : /\ Claimed(g)' => Claimed(g) /\ on'[g] = on[g] /\ on[g] \notin drop[h]
                           /\ Creating(g)' => Creating(g) /\ on'[g] = on[g] /\ on[g] \notin drop[h]
    BY <1>8 DEF Drop
  <2>2. \A g \in Handler : drop'[g] \subseteq drop[g]
    BY <1>8 DEF Drop
  <2>3. /\ \A a \in drop[h] : status[a] # "pending"
        /\ inbox' = inbox \ drop[h]
        /\ UNCHANGED <<status, batch>>
    BY <1>8 DEF Drop
  <2>4. AttachmentsKept'
    BY <2>1, <2>3
  <2>5. Attachments'
    BY <2>1, <2>2, <2>3
  <2>6. QED
    BY <2>4, <2>5
<1>9. ASSUME NEW h \in Handler, ExpireOverdue(h) PROVE FilesInv'
  BY <1>9 DEF ExpireOverdue
<1>10. ASSUME NEW h \in Handler, ExpireOverdueLost(h) PROVE FilesInv'
  BY <1>10 DEF ExpireOverdueLost
<1>11. ASSUME NEW h \in Handler, Claim(h) PROVE FilesInv'
  BY <1>11 DEF Claim
<1>12. ASSUME NEW h \in Handler, ClaimLost(h) PROVE FilesInv'
  BY <1>12 DEF ClaimLost
<1>13. ASSUME NEW h \in Handler, Open(h) PROVE FilesInv'
  BY <1>13 DEF Open
<1>14. ASSUME NEW h \in Handler, OpenFails(h) PROVE FilesInv'
  <2>1. CASE Unclaimed(h) /\ Return(h)
    BY <1>14, <2>1 DEF OpenFails
  <2>2. CASE ~Unclaimed(h)
    BY <1>14, <2>2 DEF OpenFails
  <2>3. QED
    BY <1>14, <2>1, <2>2 DEF OpenFails
<1>15. ASSUME NEW h \in Handler, Perform(h) PROVE FilesInv'
  BY <1>15 DEF Perform
<1>16. ASSUME NEW h \in Handler, CallSucceeds(h) PROVE FilesInv'
  <2>1. CASE Unclaimed(h) /\ Return(h)
    BY <1>16, <2>1 DEF CallSucceeds
  <2>2. CASE ~Unclaimed(h)
    BY <1>16, <2>2 DEF CallSucceeds
  <2>3. QED
    BY <1>16, <2>1, <2>2 DEF CallSucceeds
<1>17. ASSUME NEW h \in Handler, CallRefused(h) PROVE FilesInv'
  <2>1. CASE Unclaimed(h) /\ Return(h)
    BY <1>17, <2>1 DEF CallRefused
  <2>2. CASE ~Unclaimed(h)
    BY <1>17, <2>2 DEF CallRefused
  <2>3. QED
    BY <1>17, <2>1, <2>2 DEF CallRefused
<1>18. ASSUME NEW h \in Handler, CallFails(h) PROVE FilesInv'
  <2>1. CASE Unclaimed(h) /\ Return(h)
    BY <1>18, <2>1 DEF CallFails
  <2>2. CASE ~Unclaimed(h)
    BY <1>18, <2>2 DEF CallFails
  <2>3. QED
    BY <1>18, <2>1, <2>2 DEF CallFails
<1>19. ASSUME NEW h \in Handler, DeleteAccount(h) PROVE FilesInv'
  BY <1>19 DEF DeleteAccount
<1>20. ASSUME NEW h \in Handler, DeleteAccountFails(h) PROVE FilesInv'
  BY <1>20 DEF DeleteAccountFails
<1>21. ASSUME NEW h \in Handler, Reopen(h) PROVE FilesInv'
  <2>1. Claimed(h) /\ on[h] \in Action
    BY <1>21 DEF Reopen
  <2>2. \A g \in Handler : /\ Claimed(g)' => Claimed(g) /\ g # h
                           /\ Creating(g)' => Creating(g) /\ g # h
    BY <1>21 DEF Reopen
  <2>3. /\ \A g \in Handler \ {h} : drop'[g] = drop[g] /\ on'[g] = on[g]
        /\ drop'[h] = {}
        /\ UNCHANGED <<inbox, batch>>
    BY <1>21 DEF Reopen
  <2>4. \A a \in Action : status'[a] # status[a] => a = on[h] /\ status[a] = "running"
    BY <1>21 DEF Reopen
  <2>5. AttachmentsKept'
    BY <2>1, <2>2, <2>3, <2>4
  <2>6. \A g \in Handler : on[h] \notin drop[g]
    BY <2>1
  <2>7. Attachments'
    <3>1. \A g \in Handler : Creating(g)' => Creating(g) /\ on'[g] = on[g] /\ on[g] \in Action
      BY <2>2, <2>3
    <3>6. \A g \in Handler : Creating(g)' => status'[on'[g]] = "none"
      BY <3>1, <2>1, <2>4
    <3>7. \A f, g \in Handler : Creating(f)' /\ Creating(g)' /\ f # g => on'[f] # on'[g]
      BY <3>1
    <3>8. \A g \in Handler : Creating(g)' /\ HasFiles(on'[g]) => on'[g] \in inbox'
      BY <3>1, <2>3
    <3>2. \A g \in Handler : \A a \in drop'[g] : status'[a] # "pending"
      BY <2>1, <2>3, <2>4, <2>6, <1>21 DEF Reopen
    <3>3. \A g \in Handler : \A a \in drop'[g] :
            \A f \in Handler : Claimed(f)' \/ Creating(f)' => on'[f] # a
      <4> SUFFICES ASSUME NEW g \in Handler, NEW a \in drop'[g], NEW f \in Handler,
                          Claimed(f)' \/ Creating(f)'
                   PROVE  on'[f] # a
        OBVIOUS
      <4>1. f # h /\ (Claimed(f) \/ Creating(f)) /\ on'[f] = on[f]
        BY <2>2, <2>3
      <4>2. g # h /\ a \in drop[g]
        BY <2>3
      <4>3. QED
        BY <4>1, <4>2
    <3>4. \A a \in batch' : status'[a] \in Ended
      BY <2>3, <2>4
    <3>5. QED
      BY <3>2, <3>3, <3>4, <3>6, <3>7, <3>8 DEF Attachments
  <2>8. QED
    BY <2>5, <2>7
<1>22. ASSUME NEW h \in Handler, Finish(h) PROVE FilesInv'
  <2>1. \A g \in Handler : /\ Claimed(g)' => Claimed(g) /\ g # h /\ on'[g] = on[g]
                           /\ Creating(g)' => Creating(g) /\ g # h /\ on'[g] = on[g]
    BY <1>22 DEF Finish
  <2>2. \A a \in Action : status'[a] # status[a] =>
          a = on[h] /\ status[a] = "running" /\ status'[a] \in Ended
    BY <1>22 DEF Finish
  <2>3. /\ drop' = [drop EXCEPT ![h] = {on[h]}]
        /\ UNCHANGED <<inbox, batch>>
    BY <1>22 DEF Finish
  <2>4. AttachmentsKept'
    BY <2>1, <2>2, <2>3
  <2>5. Claimed(h) /\ on[h] \in Action /\ status[on[h]] = "running"
    BY <1>22 DEF Finish
  <2>6. \A f \in Handler : Claimed(f)' \/ Creating(f)' => on'[f] # on[h]
    BY <2>1, <2>5
  <2>8. \A a \in batch' : status'[a] \in Ended
    BY <2>2, <2>3
  <2>13. \A f \in Handler : Creating(f) =>
           /\ on[f] \in Action /\ status[on[f]] = "none"
           /\ HasFiles(on[f]) => on[f] \in inbox
    OBVIOUS
  <2>14. \A f, g \in Handler : Creating(f) /\ Creating(g) /\ f # g => on[f] # on[g]
    OBVIOUS
  <2>15. \A g \in Handler : \A a \in drop[g] :
           /\ a \in Action /\ status[a] # "pending"
           /\ \A f \in Handler : Claimed(f) \/ Creating(f) => on[f] # a
    OBVIOUS
  <2>16. drop \in [Handler -> SUBSET Action]
    OBVIOUS
  <2> HIDE DEF IInv, TypeInv, ClaimsInv, EffectsInv, FilesInv, Claimed, Creating, TypeOK, HasFiles
  <2>7. \A g \in Handler : \A a \in drop'[g] :
          /\ status'[a] # "pending"
          /\ \A f \in Handler : Claimed(f)' \/ Creating(f)' => on'[f] # a
    <3> SUFFICES ASSUME NEW g \in Handler, NEW a \in drop'[g]
                 PROVE  /\ status'[a] # "pending"
                        /\ \A f \in Handler : Claimed(f)' \/ Creating(f)' => on'[f] # a
      OBVIOUS
    <3>1. CASE g = h
      BY <2>2, <2>3, <2>5, <2>6, <2>16, <3>1
    <3>2. CASE g # h
      <4>1. a \in drop[g] /\ a \in Action
        BY <2>3, <2>15, <2>16, <3>2
      <4>2. QED
        BY <2>1, <2>2, <2>15, <4>1
    <3>3. QED
      BY <3>1, <3>2
  <2>10. \A g \in Handler : Creating(g)' => status'[on'[g]] = "none"
    BY <2>1, <2>2, <2>13
  <2>11. \A g \in Handler : Creating(g)' /\ HasFiles(on'[g]) => on'[g] \in inbox'
    BY <2>1, <2>3, <2>13
  <2>12. \A f, g \in Handler : Creating(f)' /\ Creating(g)' /\ f # g => on'[f] # on'[g]
    BY <2>1, <2>14
  <2>9. QED
    BY <2>4, <2>7, <2>8, <2>10, <2>11, <2>12 DEF FilesInv
<1>23. ASSUME NEW h \in Handler, NEW a \in Action, Dispatch(h, a) PROVE FilesInv'
  BY <1>23 DEF Dispatch
<1>24. ASSUME NEW h \in Handler, NEW a \in Action, HoldForKick(h, a) PROVE FilesInv'
  BY <1>24 DEF HoldForKick
<1>25. ASSUME NEW h \in Handler, NEW a \in Action, AskDisconnect(h, a) PROVE FilesInv'
  BY <1>25 DEF AskDisconnect
<1>26. ASSUME NEW h \in Handler, NEW a \in Action, Approve(h, a) PROVE FilesInv'
  BY <1>26 DEF Approve
<1>27. ASSUME NEW h \in Handler, NEW a \in Action, LoginAndResume(h, a) PROVE FilesInv'
  BY <1>27 DEF LoginAndResume
<1>28. ASSUME NEW h \in Handler, NEW a \in Action, Cancel(h, a) PROVE FilesInv'
  BY <1>28 DEF Cancel
<1>29. ASSUME NEW u \in User, Connect(u) PROVE FilesInv'
  BY <1>29 DEF Connect
<1>30. ASSUME NEW a \in Action, LostCallEnds(a) PROVE FilesInv'
  BY <1>30 DEF LostCallEnds
<1>31. CASE RecoverStale
  BY <1>31 DEF RecoverStale
<1>32. CASE SweepStale
  BY <1>32 DEF SweepStale
<1>33. CASE Expire
  BY <1>33 DEF Expire
<1>34. CASE SweepExpired
  BY <1>34 DEF SweepExpired
<1>35. CASE Tick
  BY <1>35 DEF Tick
<1>36. CASE StartPlugin
  BY <1>36 DEF StartPlugin
<1>37. CASE Crash
  BY <1>37 DEF Crash
<1>38. CASE Restart
  BY <1>38 DEF Restart
<1>39. CASE UNCHANGED vars
  BY <1>39 DEF vars
<1>40. QED
  BY <1>1, <1>2, <1>3, <1>4, <1>5, <1>6, <1>7, <1>8, <1>9, <1>10, <1>11, <1>12, <1>13,
     <1>14, <1>15, <1>16, <1>17, <1>18, <1>19, <1>20, <1>21, <1>22, <1>23, <1>24,
     <1>25, <1>26, <1>27, <1>28, <1>29, <1>30, <1>31, <1>32, <1>33, <1>34, <1>35,
     <1>36, <1>37, <1>38, <1>39
     DEF Next, HandlerStep, Request, JanitorStep

\* The inductive invariant holds initially: there are no rows, no attachments
\* and nobody at work.
LEMMA InvInit == Init => IInv
<1> SUFFICES ASSUME Init PROVE IInv
  OBVIOUS
<1>1. TypeInv
  BY ConstantsAssumption DEF Init, TypeInv, TypeOK, WorkingOnAction, Working, Status, Step, Op
<1>2. ClaimsInv
  BY DEF Init, ClaimsInv, Operations, ClaimIsExclusive, Deadlines, Claimed
<1>3. EffectsInv
  BY DEF Init, EffectsInv, Effects, NothingDoneUnlessClaimed, Claimed
<1>4. FilesInv
  BY DEF Init, FilesInv, Attachments, AttachmentsKept, Claimed, Creating
<1>5. QED
  BY <1>1, <1>2, <1>3, <1>4 DEF IInv

\* Every step preserves the inductive invariant.
LEMMA InvStep == IInv /\ [Next]_vars => IInv'
<1> SUFFICES ASSUME IInv, [Next]_vars PROVE IInv'
  OBVIOUS
<1>1. TypeInv'
  BY TypeStep DEF IInv
<1>2. QED
  BY <1>1, ClaimsStep, EffectsStep, AttachmentsStep DEF IInv

\* The inductive invariant holds in every reachable state.
THEOREM Invariance == Spec => []IInv
BY InvInit, InvStep, PTL DEF Spec

-----------------------------------------------------------------------------
(* What follows from it *)

\* A claimed action stays running and its handler's alone until that handler gives
\* it back: neither the janitor nor another click interferes with a call under way.
THEOREM OneClaim == Spec => []ClaimIsExclusive
<1>1. IInv => ClaimIsExclusive
  BY DEF IInv, ClaimsInv
<1>2. QED
  BY <1>1, Invariance, PTL

\* The other system is changed at most once on behalf of one action, whatever
\* clicks, timeouts, crashes and failed writes come together.
THEOREM AtMostOnce == Spec => []PerformedAtMostOnce
<1>1. IInv => PerformedAtMostOnce
  BY DEF IInv, EffectsInv, PerformedAtMostOnce, Effects
<1>2. QED
  BY <1>1, Invariance, PTL

\* An action that is pending again, cancelled or expired was not performed and
\* never will be unless it is approved: "nothing was submitted" is true.
THEOREM NothingDone == Spec => []NothingDoneUnlessClaimed
<1>1. IInv => NothingDoneUnlessClaimed
  BY DEF IInv, EffectsInv
<1>2. QED
  BY <1>1, Invariance, PTL

\* The attachments of an action that can still be approved, or whose approved call
\* has not returned, are on disk.
THEOREM FilesKept == Spec => []AttachmentsKept
<1>1. IInv => AttachmentsKept
  BY DEF IInv, FilesInv
<1>2. QED
  BY <1>1, Invariance, PTL

-----------------------------------------------------------------------------
(* Refinement *)

\* Every step of the registry, its janitor and the world around it is a step of
\* the abstract lifecycle, or changes neither statuses nor the other system.
LEMMA RefinementStep ==
  ASSUME IInv, TypeInv', Next
  PROVE  Lifecycle!LifecycleNext
<1> USE ConstantsAssumption, SMTT(30) DEF IInv, TypeInv, ClaimsInv, EffectsInv, FilesInv, Fault,
      NoFault, Ready, Goto, Return, Discard,
      TransitionPluginAction, NoTransition,
      CreatePluginAction, MarkInvalid, GiveUp, FinishWith, Deadline, SetStatus, BulkUpdate, StaleRows,
      OverdueRows, rowVars, storeVars, handlerVars, janitorVars, worldVars, boundVars,
      procVars, TypeOK, WorkingOnAction, Working, Claimed, Unclaimed, Fresh, Creating,
      Operations, ClaimIsExclusive, Effects,
      NothingDoneUnlessClaimed, Status, Ended,
      Lifecycle!LifecycleNext, Lifecycle!Moves, Lifecycle!Performs
<1>1. ASSUME NEW h \in Handler, PreviewSucceeds(h) PROVE Lifecycle!LifecycleNext
  BY <1>1 DEF PreviewSucceeds
<1>2. ASSUME NEW h \in Handler, CallAnswered(h) PROVE Lifecycle!LifecycleNext
  BY <1>2 DEF CallAnswered
<1>3. ASSUME NEW h \in Handler, Stored(h) PROVE Lifecycle!LifecycleNext
  BY <1>3 DEF Stored
<1>4. ASSUME NEW h \in Handler, StoreFails(h) PROVE Lifecycle!LifecycleNext
  BY <1>4 DEF StoreFails
<1>5. ASSUME NEW h \in Handler, HoldStored(h) PROVE Lifecycle!LifecycleNext
  BY <1>5 DEF HoldStored
<1>6. ASSUME NEW h \in Handler, HoldStoreFails(h) PROVE Lifecycle!LifecycleNext
  BY <1>6 DEF HoldStoreFails
<1>7. ASSUME NEW h \in Handler, Prompted(h) PROVE Lifecycle!LifecycleNext
  BY <1>7 DEF Prompted
<1>8. ASSUME NEW h \in Handler, Drop(h) PROVE Lifecycle!LifecycleNext
  BY <1>8 DEF Drop
<1>9. ASSUME NEW h \in Handler, ExpireOverdue(h) PROVE Lifecycle!LifecycleNext
  BY <1>9 DEF ExpireOverdue
<1>10. ASSUME NEW h \in Handler, ExpireOverdueLost(h) PROVE Lifecycle!LifecycleNext
  BY <1>10 DEF ExpireOverdueLost
<1>11. ASSUME NEW h \in Handler, Claim(h) PROVE Lifecycle!LifecycleNext
  BY <1>11 DEF Claim
<1>12. ASSUME NEW h \in Handler, ClaimLost(h) PROVE Lifecycle!LifecycleNext
  BY <1>12 DEF ClaimLost
<1>13. ASSUME NEW h \in Handler, Open(h) PROVE Lifecycle!LifecycleNext
  BY <1>13 DEF Open
<1>14. ASSUME NEW h \in Handler, OpenFails(h) PROVE Lifecycle!LifecycleNext
  <2>1. CASE Unclaimed(h) /\ Return(h)
    BY <1>14, <2>1 DEF OpenFails
  <2>2. CASE ~Unclaimed(h)
    BY <1>14, <2>2 DEF OpenFails
  <2>3. QED
    BY <1>14, <2>1, <2>2 DEF OpenFails
<1>15. ASSUME NEW h \in Handler, Perform(h) PROVE Lifecycle!LifecycleNext
  BY <1>15 DEF Perform
<1>16. ASSUME NEW h \in Handler, CallSucceeds(h) PROVE Lifecycle!LifecycleNext
  <2>1. CASE Unclaimed(h) /\ Return(h)
    BY <1>16, <2>1 DEF CallSucceeds
  <2>2. CASE ~Unclaimed(h)
    BY <1>16, <2>2 DEF CallSucceeds
  <2>3. QED
    BY <1>16, <2>1, <2>2 DEF CallSucceeds
<1>17. ASSUME NEW h \in Handler, CallRefused(h) PROVE Lifecycle!LifecycleNext
  <2>1. CASE Unclaimed(h) /\ Return(h)
    BY <1>17, <2>1 DEF CallRefused
  <2>2. CASE ~Unclaimed(h)
    BY <1>17, <2>2 DEF CallRefused
  <2>3. QED
    BY <1>17, <2>1, <2>2 DEF CallRefused
<1>18. ASSUME NEW h \in Handler, CallFails(h) PROVE Lifecycle!LifecycleNext
  <2>1. CASE Unclaimed(h) /\ Return(h)
    BY <1>18, <2>1 DEF CallFails
  <2>2. CASE ~Unclaimed(h)
    BY <1>18, <2>2 DEF CallFails
  <2>3. QED
    BY <1>18, <2>1, <2>2 DEF CallFails
<1>19. ASSUME NEW h \in Handler, DeleteAccount(h) PROVE Lifecycle!LifecycleNext
  BY <1>19 DEF DeleteAccount
<1>20. ASSUME NEW h \in Handler, DeleteAccountFails(h) PROVE Lifecycle!LifecycleNext
  BY <1>20 DEF DeleteAccountFails
<1>21. ASSUME NEW h \in Handler, Reopen(h) PROVE Lifecycle!LifecycleNext
  BY <1>21 DEF Reopen
<1>22. ASSUME NEW h \in Handler, Finish(h) PROVE Lifecycle!LifecycleNext
  BY <1>22 DEF Finish
<1>23. ASSUME NEW h \in Handler, NEW a \in Action, Dispatch(h, a) PROVE Lifecycle!LifecycleNext
  BY <1>23 DEF Dispatch
<1>24. ASSUME NEW h \in Handler, NEW a \in Action, HoldForKick(h, a) PROVE Lifecycle!LifecycleNext
  BY <1>24 DEF HoldForKick
<1>25. ASSUME NEW h \in Handler, NEW a \in Action, AskDisconnect(h, a) PROVE Lifecycle!LifecycleNext
  BY <1>25 DEF AskDisconnect
<1>26. ASSUME NEW h \in Handler, NEW a \in Action, Approve(h, a) PROVE Lifecycle!LifecycleNext
  BY <1>26 DEF Approve
<1>27. ASSUME NEW h \in Handler, NEW a \in Action, LoginAndResume(h, a)
      PROVE  Lifecycle!LifecycleNext
  BY <1>27 DEF LoginAndResume
<1>28. ASSUME NEW h \in Handler, NEW a \in Action, Cancel(h, a) PROVE Lifecycle!LifecycleNext
  BY <1>28 DEF Cancel
<1>29. ASSUME NEW u \in User, Connect(u) PROVE Lifecycle!LifecycleNext
  BY <1>29 DEF Connect
<1>30. ASSUME NEW a \in Action, LostCallEnds(a) PROVE Lifecycle!LifecycleNext
  BY <1>30 DEF LostCallEnds
<1>31. CASE RecoverStale
  BY <1>31 DEF RecoverStale
<1>32. CASE SweepStale
  BY <1>32 DEF SweepStale
<1>33. CASE Expire
  BY <1>33 DEF Expire
<1>34. CASE SweepExpired
  BY <1>34 DEF SweepExpired
<1>35. CASE Tick
  BY <1>35 DEF Tick
<1>36. CASE StartPlugin
  BY <1>36 DEF StartPlugin
<1>37. CASE Crash
  BY <1>37 DEF Crash
<1>38. CASE Restart
  BY <1>38 DEF Restart
<1>39. QED
  BY <1>1, <1>2, <1>3, <1>4, <1>5, <1>6, <1>7, <1>8, <1>9, <1>10, <1>11, <1>12, <1>13,
     <1>14, <1>15, <1>16, <1>17, <1>18, <1>19, <1>20, <1>21, <1>22, <1>23, <1>24,
     <1>25, <1>26, <1>27, <1>28, <1>29, <1>30, <1>31, <1>32, <1>33, <1>34, <1>35,
     <1>36, <1>37, <1>38
     DEF Next, HandlerStep, Request, JanitorStep

\* The registry implements the abstract lifecycle: an action moves only along
\* the arrows of ActionLifecycle, is offered again only while nothing was done,
\* is done only when it was, and is performed once at most.
THEOREM Implements == Spec => ImplementsLifecycle
<1>1. Init => Lifecycle!LifecycleInit
  BY DEF Init, Lifecycle!LifecycleInit
<1>2. IInv /\ [Next]_vars => [Lifecycle!LifecycleNext]_(Lifecycle!lifecycleVars)
  <2> SUFFICES ASSUME IInv, [Next]_vars
               PROVE  [Lifecycle!LifecycleNext]_(Lifecycle!lifecycleVars)
    OBVIOUS
  <2>1. CASE Next
    <3>1. TypeInv'
      BY TypeStep DEF IInv
    <3>2. QED
      BY <2>1, <3>1, RefinementStep
  <2>2. CASE UNCHANGED vars
    BY <2>2 DEF vars, Lifecycle!lifecycleVars
  <2>3. QED
    BY <2>1, <2>2
<1>3. QED
  BY <1>1, <1>2, Invariance, PTL DEF Spec, ImplementsLifecycle, Lifecycle!LifecycleSpec
=============================================================================
