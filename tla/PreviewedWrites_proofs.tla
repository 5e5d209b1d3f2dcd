------------------------- MODULE PreviewedWrites_proofs -------------------------
(***************************************************************************)
(* Proofs that no handler, whatever it tries and whatever dies around it,  *)
(* writes what no preview had planned, uses a preview twice, or writes for *)
(* an action that is then offered again: for all sets of actions, keys,    *)
(* plans and tools.                                                        *)
(*                                                                         *)
(* What makes the three inductive: a preview's digest is stored once and   *)
(* never changes (PreviewsFresh), a stored digest is one nobody has used   *)
(* (StoredUnused), and the digest a run has matched is used by that run's  *)
(* action alone (SourcesUsed).                                             *)
(***************************************************************************)
EXTENDS PreviewedWrites, TLAPS

\* The status of an action whose call may run in the given mode.
RunsOnlyWhenAsked ==
  \A a \in Action :
    /\ status[a] = "new" => tries[a] = 0
    /\ run[a].mode = "preview" => status[a] \in {"previewing", "failed"}
    /\ run[a].mode = "execute" => status[a] \in {"running", "failed"}

PreviewsFresh ==
  /\ \A a \in Action : \A n \in 1..2 : planned[<<a, n>>] # None => n <= tries[a]
  /\ \A a \in Action : Working(a) /\ run[a].mode = "preview" =>
       tries[a] \in 1..2 /\ planned[<<a, tries[a]>>] = None
  /\ \A p \in Preview : usedBy[p] # None => planned[p] # None

StoredUnused ==
  \A k \in Key : stored[k] # None =>
    /\ KeyOf[stored[k][1]] = k
    /\ planned[stored[k]] # None
    /\ usedBy[stored[k]] = None

SourcesUsed ==
  \A a \in Action : run[a].from # None =>
    /\ usedBy[run[a].from] = a
    /\ planned[run[a].from] = run[a].built
    /\ KeyOf[run[a].from[1]] = KeyOf[a]

WritesUsed ==
  \A a \in Action : written[a] # None =>
    /\ KeyOf[a] \in Compared => written[a].from # None
    /\ written[a].from # None =>
         /\ usedBy[written[a].from] = a
         /\ planned[written[a].from] = written[a].plan
         /\ KeyOf[written[a].from[1]] = KeyOf[a]

Unwritten ==
  \A a \in Action :
    /\ status[a] \in {"new", "previewing", "pending"} => written[a] = None
    /\ status[a] = "running" /\ ~run[a].wrote => written[a] = None
    /\ run[a].stage = "refused" => ~run[a].wrote

RunInv == RunsOnlyWhenAsked
DigestInv == PreviewsFresh /\ StoredUnused
UseInv == SourcesUsed /\ WritesUsed

IInv == TypeOK /\ RunInv /\ DigestInv /\ UseInv /\ Unwritten

-----------------------------------------------------------------------------
\* Every update of a call's record keeps its type.
LEMMA RunTypes ==
  /\ NoRun \in Run
  /\ \A mode \in {"preview", "execute"} : Started(mode) \in Run
  /\ \A r \in Run : \A s \in Stage : [r EXCEPT !.stage = s] \in Run
  /\ \A r \in Run : \A p \in Plan : [r EXCEPT !.built = p] \in Run
  /\ \A r \in Run : \A p \in Preview : [r EXCEPT !.from = p] \in Run
  /\ \A r \in Run : [r EXCEPT !.wrote = TRUE] \in Run
<1> USE DEF Run, Stage
<1>1. NoRun \in Run
  BY DEF NoRun
<1>2. \A mode \in {"preview", "execute"} : Started(mode) \in Run
  BY DEF Started
<1>3. \A r \in Run : \A s \in Stage : [r EXCEPT !.stage = s] \in Run
  OBVIOUS
<1>4. \A r \in Run : \A p \in Plan : [r EXCEPT !.built = p] \in Run
  OBVIOUS
<1>5. \A r \in Run : \A p \in Preview : [r EXCEPT !.from = p] \in Run
  OBVIOUS
<1>6. \A r \in Run : [r EXCEPT !.wrote = TRUE] \in Run
  OBVIOUS
<1>7. QED
  BY <1>1, <1>2, <1>3, <1>4, <1>5, <1>6

\* Type correctness: every step keeps each variable in its type.
LEMMA TypeInvariance ==
  ASSUME TypeOK, RunInv, DigestInv, [Next]_vars
  PROVE  TypeOK'
<1> USE PreviewAssumption DEF TypeOK, Status, Plan, Write, RunInv, RunsOnlyWhenAsked, Working
<1>1. ASSUME NEW a \in Action, Dispatch(a) PROVE TypeOK'
  <2>1. run' \in [Action -> Run]
    BY <1>1, RunTypes DEF Dispatch, SendPreview
  <2>2. QED
    BY <1>1, <2>1 DEF Dispatch, SendPreview, digestVars, boundVars
<1>2. ASSUME NEW a \in Action, Retry(a) PROVE TypeOK'
  <2>1. run' \in [Action -> Run]
    BY <1>2, RunTypes DEF Retry, SendPreview
  <2>2. QED
    BY <1>2, <2>1 DEF Retry, SendPreview, digestVars, boundVars
<1>3. ASSUME NEW a \in Action, PreviewAnswered(a) PROVE TypeOK'
  <2>1. run' \in [Action -> Run]
    BY <1>3, RunTypes DEF PreviewAnswered
  <2>2. QED
    BY <1>3, <2>1 DEF PreviewAnswered, Answers, Fault, digestVars, boundVars, Run
<1>4. ASSUME NEW a \in Action, Approve(a) PROVE TypeOK'
  <2>1. run' \in [Action -> Run]
    BY <1>4, RunTypes DEF Approve
  <2>2. QED
    BY <1>4, <2>1 DEF Approve, digestVars, boundVars
<1>5. ASSUME NEW a \in Action, Withdraw(a) PROVE TypeOK'
  BY <1>5 DEF Withdraw, digestVars, boundVars
<1>6. ASSUME NEW a \in Action, ExecuteAnswered(a) PROVE TypeOK'
  <2>1. run' \in [Action -> Run]
    BY <1>6, RunTypes DEF ExecuteAnswered
  <2>2. QED
    BY <1>6, <2>1 DEF ExecuteAnswered, Answers, digestVars, boundVars
<1>7. ASSUME NEW a \in Action, GiveUp(a) PROVE TypeOK'
  BY <1>7 DEF GiveUp, Fault, digestVars, boundVars
<1>8. ASSUME NEW a \in Action, Build(a) PROVE TypeOK'
  <2>1. run' \in [Action -> Run]
    BY <1>8, RunTypes DEF Build
  <2>2. QED
    BY <1>8, <2>1 DEF Build, digestVars, registryVars, boundVars
<1>9. ASSUME NEW a \in Action, PreviewReturns(a) PROVE TypeOK'
  <2>1. run' \in [Action -> Run]
    BY <1>9, RunTypes DEF PreviewReturns, Stage
  <2>2. <<a, tries[a]>> \in Preview /\ run[a].built \in Plan
    BY <1>9 DEF PreviewReturns, DigestInv, PreviewsFresh, Preview, Run
  <2>3. stored' \in [Key -> Preview \cup {None}] /\ planned' \in [Preview -> Plan \cup {None}]
    <3>1. CASE KeyOf[a] \in Compared
      <4>1. stored' = [stored EXCEPT ![KeyOf[a]] = <<a, tries[a]>>]
        BY <1>9, <3>1 DEF PreviewReturns
      <4>2. planned' = [planned EXCEPT ![<<a, tries[a]>>] = run[a].built]
        BY <1>9, <3>1 DEF PreviewReturns
      <4> HIDE DEF Plan, Write, RunInv, Status
      <4>3. QED
        BY <4>1, <4>2, <2>2
    <3>2. CASE KeyOf[a] \notin Compared
      BY <1>9, <3>2 DEF PreviewReturns
    <3>3. QED
      BY <3>1, <3>2
  <2>4. QED
    BY <1>9, <2>1, <2>3 DEF PreviewReturns, registryVars, boundVars
<1>10. ASSUME NEW a \in Action, AssertPreviewed(a) PROVE TypeOK'
  <2>1. run' \in [Action -> Run]
    BY <1>10, RunTypes DEF AssertPreviewed, Consume, Matches
  <2>2. QED
    BY <1>10, <2>1 DEF AssertPreviewed, Executing, Consume, Matches, registryVars, boundVars
<1>11. ASSUME NEW a \in Action, NEW answer \in {"refused", "error"}, HandlerFails(a, answer) PROVE TypeOK'
  <2>1. run' \in [Action -> Run]
    BY <1>11, RunTypes DEF HandlerFails, AfterWrite, Stage
  <2>2. QED
    BY <1>11, <2>1 DEF HandlerFails, digestVars, registryVars, boundVars
<1>12. ASSUME NEW a \in Action, DoWrite(a) PROVE TypeOK'
  <2>1. run' \in [Action -> Run]
    BY <1>12, RunTypes DEF DoWrite
  <2>2. QED
    BY <1>12, <2>1 DEF DoWrite, MayWrite, digestVars, registryVars, boundVars, Run
<1>13. ASSUME NEW a \in Action, WriteRefused(a) PROVE TypeOK'
  <2>1. run' \in [Action -> Run]
    BY <1>13, RunTypes DEF WriteRefused, Stage
  <2>2. QED
    BY <1>13, <2>1 DEF WriteRefused, digestVars, registryVars, boundVars
<1>14. ASSUME NEW a \in Action, ExecuteReturns(a) PROVE TypeOK'
  <2>1. run' \in [Action -> Run]
    BY <1>14, RunTypes DEF ExecuteReturns, Stage
  <2>2. QED
    BY <1>14, <2>1 DEF ExecuteReturns, Executing, digestVars, registryVars, boundVars
<1>15. ASSUME NEW w \in World, Change(w) PROVE TypeOK'
  BY <1>15 DEF Change, digestVars, registryVars
<1>16. ASSUME NEW k \in Key, DigestExpires(k) PROVE TypeOK'
  BY <1>16 DEF DigestExpires, Fault, registryVars
<1>17. CASE PluginExits
  <2>1. run' \in [Action -> Run]
    BY <1>17, RunTypes DEF PluginExits, Stage
  <2>2. QED
    BY <1>17, <2>1 DEF PluginExits, Fault, digestVars, registryVars
<1>18. CASE Restart
  <2>1. run' \in [Action -> Run]
    BY <1>18, RunTypes DEF Restart
  <2>2. QED
    BY <1>18, <2>1 DEF Restart, Fault, digestVars
<1>19. CASE UNCHANGED vars
  BY <1>19 DEF vars
<1> HIDE PreviewAssumption DEF TypeOK, Status, Plan, Write, RunInv, RunsOnlyWhenAsked, Working
<1>20. QED
  BY <1>1, <1>2, <1>3, <1>4, <1>5, <1>6, <1>7, <1>8, <1>9, <1>10, <1>11, <1>12, <1>13, <1>14, <1>15, <1>16, <1>17, <1>18, <1>19 DEF Next, RegistryStep, PluginStep

\* A call runs in the plugin only while the registry has it, or has given it up.
LEMMA RunsPreserved ==
  ASSUME TypeOK, RunInv, [Next]_vars
  PROVE  RunInv'
<1> USE PreviewAssumption DEF TypeOK, Status, Run, Stage, Answers, Plan, Write, RunInv, RunsOnlyWhenAsked, Working
<1>1. ASSUME NEW a \in Action, Dispatch(a) PROVE RunInv'
  BY <1>1 DEF Dispatch, SendPreview, Started, NoRun, digestVars, boundVars
<1>2. ASSUME NEW a \in Action, Retry(a) PROVE RunInv'
  BY <1>2 DEF Retry, SendPreview, Started, NoRun, digestVars, boundVars
<1>3. ASSUME NEW a \in Action, PreviewAnswered(a) PROVE RunInv'
  BY <1>3 DEF PreviewAnswered, NoRun, Fault, digestVars, boundVars
<1>4. ASSUME NEW a \in Action, Approve(a) PROVE RunInv'
  BY <1>4 DEF Approve, Started, NoRun, digestVars, boundVars
<1>5. ASSUME NEW a \in Action, Withdraw(a) PROVE RunInv'
  BY <1>5 DEF Withdraw, digestVars, boundVars
<1>6. ASSUME NEW a \in Action, ExecuteAnswered(a) PROVE RunInv'
  BY <1>6 DEF ExecuteAnswered, NoRun, digestVars, boundVars
<1>7. ASSUME NEW a \in Action, GiveUp(a) PROVE RunInv'
  BY <1>7 DEF GiveUp, Fault, digestVars, boundVars
<1>8. ASSUME NEW a \in Action, Build(a) PROVE RunInv'
  BY <1>8 DEF Build, digestVars, registryVars, boundVars
<1>9. ASSUME NEW a \in Action, PreviewReturns(a) PROVE RunInv'
  BY <1>9 DEF PreviewReturns, registryVars, boundVars
<1>10. ASSUME NEW a \in Action, AssertPreviewed(a) PROVE RunInv'
  BY <1>10 DEF AssertPreviewed, Executing, Consume, Matches, registryVars, boundVars
<1>11. ASSUME NEW a \in Action, NEW answer \in {"refused", "error"}, HandlerFails(a, answer) PROVE RunInv'
  BY <1>11 DEF HandlerFails, AfterWrite, digestVars, registryVars, boundVars
<1>12. ASSUME NEW a \in Action, DoWrite(a) PROVE RunInv'
  BY <1>12 DEF DoWrite, MayWrite, digestVars, registryVars, boundVars
<1>13. ASSUME NEW a \in Action, WriteRefused(a) PROVE RunInv'
  BY <1>13 DEF WriteRefused, digestVars, registryVars, boundVars
<1>14. ASSUME NEW a \in Action, ExecuteReturns(a) PROVE RunInv'
  BY <1>14 DEF ExecuteReturns, Executing, digestVars, registryVars, boundVars
<1>15. ASSUME NEW w \in World, Change(w) PROVE RunInv'
  BY <1>15 DEF Change, digestVars, registryVars
<1>16. ASSUME NEW k \in Key, DigestExpires(k) PROVE RunInv'
  BY <1>16 DEF DigestExpires, Fault, registryVars
<1>17. CASE PluginExits
  BY <1>17 DEF PluginExits, Fault, digestVars, registryVars
<1>18. CASE Restart
  BY <1>18 DEF Restart, NoRun, Fault, digestVars
<1>19. CASE UNCHANGED vars
  BY <1>19 DEF vars
<1> HIDE PreviewAssumption DEF TypeOK, Status, Run, Stage, Answers, Plan, Write, RunInv, RunsOnlyWhenAsked, Working
<1>20. QED
  BY <1>1, <1>2, <1>3, <1>4, <1>5, <1>6, <1>7, <1>8, <1>9, <1>10, <1>11, <1>12, <1>13, <1>14, <1>15, <1>16, <1>17, <1>18, <1>19 DEF Next, RegistryStep, PluginStep

\* A preview that is sent gets a digest of its own, which is not stored yet.
LEMMA PreviewSent ==
  ASSUME TypeOK, DigestInv, NEW a \in Action,
         tries[a] < 2, SendPreview(a), UNCHANGED digestVars
  PROVE  DigestInv'
<1> USE PreviewAssumption DEF TypeOK, Status, Run, Stage, Answers, Plan, Write, RunInv, RunsOnlyWhenAsked, Working,
        DigestInv, PreviewsFresh, StoredUnused, Preview
<1>1. /\ UNCHANGED <<stored, planned, usedBy>>
      /\ tries' = [tries EXCEPT ![a] = @ + 1] /\ tries[a] < 2
      /\ run' = [run EXCEPT ![a] = Started("preview")]
  BY DEF SendPreview, digestVars
<1>2. StoredUnused'
  BY <1>1
<1>3. /\ PreviewsFresh
      /\ tries \in [Action -> 0..2] /\ run \in [Action -> Run]
  OBVIOUS
<1> HIDE PreviewAssumption DEF TypeOK, Status, Run, Stage, Answers, Plan, Write, RunInv, RunsOnlyWhenAsked,
                               DigestInv, PreviewsFresh, StoredUnused, Preview
<1>4. tries[a] \in 0..1 /\ tries'[a] = tries[a] + 1
  BY <1>1, <1>3
<1>5. \A b \in Action : b # a => tries'[b] = tries[b] /\ run'[b] = run[b]
  BY <1>1, <1>3
<1>6. planned[<<a, tries[a] + 1>>] = None
  <2>1. tries[a] + 1 \in 1..2 /\ ~(tries[a] + 1 <= tries[a])
    BY <1>4
  <2>2. \A n \in 1..2 : planned[<<a, n>>] # None => n <= tries[a]
    BY <1>3 DEF PreviewsFresh
  <2>3. QED
    BY <2>1, <2>2
<1>7. PreviewsFresh'
  <2>1. (\A b \in Action : \A n \in 1..2 : planned[<<b, n>>] # None => n <= tries[b])'
    <3> SUFFICES ASSUME NEW b \in Action, NEW n \in 1..2, planned'[<<b, n>>] # None
                 PROVE  n <= tries'[b]
      OBVIOUS
    <3>1. n <= tries[b] /\ tries[b] \in 0..2
      BY <1>1, <1>3 DEF PreviewsFresh
    <3>2. CASE b = a
      BY <3>1, <3>2, <1>4
    <3>3. CASE b # a
      BY <3>1, <3>3, <1>5
    <3>4. QED
      BY <3>2, <3>3
  <2>2. (\A b \in Action : Working(b) /\ run[b].mode = "preview" =>
           tries[b] \in 1..2 /\ planned[<<b, tries[b]>>] = None)'
    <3> SUFFICES ASSUME NEW b \in Action, Working(b)', run'[b].mode = "preview"
                 PROVE  tries'[b] \in 1..2 /\ planned'[<<b, tries'[b]>>] = None
      OBVIOUS
    <3>1. CASE b = a
      BY <3>1, <1>1, <1>4, <1>6
    <3>2. CASE b # a
      BY <3>2, <1>1, <1>3, <1>5 DEF PreviewsFresh, Working
    <3>3. QED
      BY <3>1, <3>2
  <2>3. (\A q \in Preview : usedBy[q] # None => planned[q] # None)'
    BY <1>1, <1>3 DEF PreviewsFresh
  <2>4. QED
    BY <2>1, <2>2, <2>3 DEF PreviewsFresh
<1>8. QED
  BY <1>2, <1>7 DEF DigestInv

\* A digest is stored once, under the key of its action, and used once.
LEMMA DigestsPreserved ==
  ASSUME TypeOK, RunInv, DigestInv, [Next]_vars
  PROVE  DigestInv'
<1> USE PreviewAssumption DEF TypeOK, Status, Run, Stage, Answers, Plan, Write, RunInv, RunsOnlyWhenAsked, Working, DigestInv, PreviewsFresh, StoredUnused, Preview
<1>1. ASSUME NEW a \in Action, Dispatch(a) PROVE DigestInv'
  BY <1>1, PreviewSent DEF Dispatch
<1>2. ASSUME NEW a \in Action, Retry(a) PROVE DigestInv'
  BY <1>2, PreviewSent DEF Retry
<1>3. ASSUME NEW a \in Action, PreviewAnswered(a) PROVE DigestInv'
  BY <1>3 DEF PreviewAnswered, NoRun, Fault, digestVars, boundVars
<1>4. ASSUME NEW a \in Action, Approve(a) PROVE DigestInv'
  BY <1>4 DEF Approve, Started, NoRun, digestVars, boundVars
<1>5. ASSUME NEW a \in Action, Withdraw(a) PROVE DigestInv'
  BY <1>5 DEF Withdraw, digestVars, boundVars
<1>6. ASSUME NEW a \in Action, ExecuteAnswered(a) PROVE DigestInv'
  BY <1>6 DEF ExecuteAnswered, NoRun, digestVars, boundVars
<1>7. ASSUME NEW a \in Action, GiveUp(a) PROVE DigestInv'
  BY <1>7 DEF GiveUp, Fault, digestVars, boundVars
<1>8. ASSUME NEW a \in Action, Build(a) PROVE DigestInv'
  BY <1>8 DEF Build, digestVars, registryVars, boundVars
<1>9. ASSUME NEW a \in Action, PreviewReturns(a) PROVE DigestInv'
  <2> DEFINE p == <<a, tries[a]>>
  <2>1. p \in Preview /\ planned[p] = None /\ usedBy[p] = None
    BY <1>9 DEF PreviewReturns
  <2>2. CASE KeyOf[a] \in Compared
    <3>1. /\ stored' = [stored EXCEPT ![KeyOf[a]] = p]
          /\ planned' = [planned EXCEPT ![p] = run[a].built]
          /\ run[a].built # None
      BY <1>9, <2>2 DEF PreviewReturns
    <3>2. /\ tries' = tries /\ usedBy' = usedBy
          /\ run' = [run EXCEPT ![a].stage = "ok"]
      BY <1>9 DEF PreviewReturns, registryVars
    <3>3. KeyOf[a] \in Key /\ p[1] = a
      OBVIOUS
    <3> HIDE DEF p
    <3>4. StoredUnused'
      BY <3>1, <3>2, <3>3, <2>1
    <3>5. (\A b \in Action : \A n \in 1..2 : planned[<<b, n>>] # None => n <= tries[b])'
      <4> SUFFICES ASSUME NEW b \in Action, NEW n \in 1..2, planned'[<<b, n>>] # None
                   PROVE  n <= tries[b]
        BY <3>2
      <4>1. CASE <<b, n>> = p
        BY <4>1, <2>1 DEF p
      <4>2. CASE <<b, n>> # p
        <5>1. <<b, n>> \in Preview /\ planned'[<<b, n>>] = planned[<<b, n>>]
          BY <4>2, <3>1
        <5>2. QED
          BY <5>1
      <4>3. QED
        BY <4>1, <4>2
    <3>6. (\A b \in Action : Working(b) /\ run[b].mode = "preview" =>
             tries[b] \in 1..2 /\ planned[<<b, tries[b]>>] = None)'
      <4> SUFFICES ASSUME NEW b \in Action, Working(b)', run'[b].mode = "preview"
                   PROVE  tries'[b] \in 1..2 /\ planned'[<<b, tries'[b]>>] = None
        OBVIOUS
      <4>1. b # a /\ run'[b] = run[b]
        BY <3>2
      <4>2. tries[b] \in 1..2 /\ planned[<<b, tries[b]>>] = None
        BY <4>1
      <4>3. <<b, tries[b]>> # p /\ <<b, tries[b]>> \in Preview
        BY <4>1, <4>2 DEF p
      <4>4. QED
        BY <3>1, <3>2, <4>2, <4>3
    <3>7. (\A q \in Preview : usedBy[q] # None => planned[q] # None)'
      BY <3>1, <3>2, <2>1
    <3>8. QED
      BY <3>4, <3>5, <3>6, <3>7
  <2>3. CASE KeyOf[a] \notin Compared
    BY <1>9, <2>3 DEF PreviewReturns, registryVars, boundVars
  <2>4. QED
    BY <2>2, <2>3
<1>10. ASSUME NEW a \in Action, AssertPreviewed(a) PROVE DigestInv'
  BY <1>10 DEF AssertPreviewed, Executing, Consume, Matches, registryVars, boundVars
<1>11. ASSUME NEW a \in Action, NEW answer \in {"refused", "error"}, HandlerFails(a, answer) PROVE DigestInv'
  BY <1>11 DEF HandlerFails, AfterWrite, digestVars, registryVars, boundVars
<1>12. ASSUME NEW a \in Action, DoWrite(a) PROVE DigestInv'
  BY <1>12 DEF DoWrite, MayWrite, digestVars, registryVars, boundVars
<1>13. ASSUME NEW a \in Action, WriteRefused(a) PROVE DigestInv'
  BY <1>13 DEF WriteRefused, digestVars, registryVars, boundVars
<1>14. ASSUME NEW a \in Action, ExecuteReturns(a) PROVE DigestInv'
  BY <1>14 DEF ExecuteReturns, Executing, digestVars, registryVars, boundVars
<1>15. ASSUME NEW w \in World, Change(w) PROVE DigestInv'
  BY <1>15 DEF Change, digestVars, registryVars
<1>16. ASSUME NEW k \in Key, DigestExpires(k) PROVE DigestInv'
  BY <1>16 DEF DigestExpires, Fault, registryVars
<1>17. CASE PluginExits
  BY <1>17 DEF PluginExits, Fault, digestVars, registryVars
<1>18. CASE Restart
  BY <1>18 DEF Restart, NoRun, Fault, digestVars
<1>19. CASE UNCHANGED vars
  BY <1>19 DEF vars
<1> HIDE PreviewAssumption DEF TypeOK, Status, Run, Stage, Answers, Plan, Write, RunInv, RunsOnlyWhenAsked, Working, DigestInv, PreviewsFresh, StoredUnused, Preview
<1>20. QED
  BY <1>1, <1>2, <1>3, <1>4, <1>5, <1>6, <1>7, <1>8, <1>9, <1>10, <1>11, <1>12, <1>13, <1>14, <1>15, <1>16, <1>17, <1>18, <1>19 DEF Next, RegistryStep, PluginStep

\* The digest a run matched, and the one its write rests on, is its own.
LEMMA UsesPreserved ==
  ASSUME TypeOK, DigestInv, UseInv, [Next]_vars
  PROVE  UseInv'
<1> USE PreviewAssumption DEF TypeOK, Status, Run, Stage, Answers, Plan, Write, DigestInv, PreviewsFresh, StoredUnused, UseInv, SourcesUsed, WritesUsed, Working, Preview
<1>1. ASSUME NEW a \in Action, Dispatch(a) PROVE UseInv'
  BY <1>1 DEF Dispatch, SendPreview, Started, NoRun, digestVars, boundVars
<1>2. ASSUME NEW a \in Action, Retry(a) PROVE UseInv'
  BY <1>2 DEF Retry, SendPreview, Started, NoRun, digestVars, boundVars
<1>3. ASSUME NEW a \in Action, PreviewAnswered(a) PROVE UseInv'
  BY <1>3 DEF PreviewAnswered, NoRun, Fault, digestVars, boundVars
<1>4. ASSUME NEW a \in Action, Approve(a) PROVE UseInv'
  BY <1>4 DEF Approve, Started, NoRun, digestVars, boundVars
<1>5. ASSUME NEW a \in Action, Withdraw(a) PROVE UseInv'
  BY <1>5 DEF Withdraw, digestVars, boundVars
<1>6. ASSUME NEW a \in Action, ExecuteAnswered(a) PROVE UseInv'
  BY <1>6 DEF ExecuteAnswered, NoRun, digestVars, boundVars
<1>7. ASSUME NEW a \in Action, GiveUp(a) PROVE UseInv'
  BY <1>7 DEF GiveUp, Fault, digestVars, boundVars
<1>8. ASSUME NEW a \in Action, Build(a) PROVE UseInv'
  BY <1>8 DEF Build, digestVars, registryVars, boundVars
<1>9. ASSUME NEW a \in Action, PreviewReturns(a) PROVE UseInv'
  BY <1>9 DEF PreviewReturns, registryVars, boundVars
<1>10. ASSUME NEW a \in Action, AssertPreviewed(a) PROVE UseInv'
  BY <1>10 DEF AssertPreviewed, Executing, Consume, Matches, registryVars, boundVars
<1>11. ASSUME NEW a \in Action, NEW answer \in {"refused", "error"}, HandlerFails(a, answer) PROVE UseInv'
  BY <1>11 DEF HandlerFails, AfterWrite, digestVars, registryVars, boundVars
<1>12. ASSUME NEW a \in Action, DoWrite(a) PROVE UseInv'
  BY <1>12 DEF DoWrite, MayWrite, digestVars, registryVars, boundVars
<1>13. ASSUME NEW a \in Action, WriteRefused(a) PROVE UseInv'
  BY <1>13 DEF WriteRefused, digestVars, registryVars, boundVars
<1>14. ASSUME NEW a \in Action, ExecuteReturns(a) PROVE UseInv'
  BY <1>14 DEF ExecuteReturns, Executing, digestVars, registryVars, boundVars
<1>15. ASSUME NEW w \in World, Change(w) PROVE UseInv'
  BY <1>15 DEF Change, digestVars, registryVars
<1>16. ASSUME NEW k \in Key, DigestExpires(k) PROVE UseInv'
  BY <1>16 DEF DigestExpires, Fault, registryVars
<1>17. CASE PluginExits
  BY <1>17 DEF PluginExits, Fault, digestVars, registryVars
<1>18. CASE Restart
  BY <1>18 DEF Restart, NoRun, Fault, digestVars
<1>19. CASE UNCHANGED vars
  BY <1>19 DEF vars
<1> HIDE PreviewAssumption DEF TypeOK, Status, Run, Stage, Answers, Plan, Write, DigestInv, PreviewsFresh, StoredUnused, UseInv, SourcesUsed, WritesUsed, Working, Preview
<1>20. QED
  BY <1>1, <1>2, <1>3, <1>4, <1>5, <1>6, <1>7, <1>8, <1>9, <1>10, <1>11, <1>12, <1>13, <1>14, <1>15, <1>16, <1>17, <1>18, <1>19 DEF Next, RegistryStep, PluginStep

\* What may still be approved has written nothing.
LEMMA UnwrittenPreserved ==
  ASSUME TypeOK, RunInv, Unwritten, [Next]_vars
  PROVE  Unwritten'
<1> USE PreviewAssumption DEF TypeOK, Status, Run, Stage, Answers, Plan, Write, RunInv, RunsOnlyWhenAsked, Unwritten, Working
<1>1. ASSUME NEW a \in Action, Dispatch(a) PROVE Unwritten'
  BY <1>1 DEF Dispatch, SendPreview, Started, NoRun, digestVars, boundVars
<1>2. ASSUME NEW a \in Action, Retry(a) PROVE Unwritten'
  BY <1>2 DEF Retry, SendPreview, Started, NoRun, digestVars, boundVars
<1>3. ASSUME NEW a \in Action, PreviewAnswered(a) PROVE Unwritten'
  BY <1>3 DEF PreviewAnswered, NoRun, Fault, digestVars, boundVars
<1>4. ASSUME NEW a \in Action, Approve(a) PROVE Unwritten'
  BY <1>4 DEF Approve, Started, NoRun, digestVars, boundVars
<1>5. ASSUME NEW a \in Action, Withdraw(a) PROVE Unwritten'
  BY <1>5 DEF Withdraw, digestVars, boundVars
<1>6. ASSUME NEW a \in Action, ExecuteAnswered(a) PROVE Unwritten'
  BY <1>6 DEF ExecuteAnswered, NoRun, digestVars, boundVars
<1>7. ASSUME NEW a \in Action, GiveUp(a) PROVE Unwritten'
  BY <1>7 DEF GiveUp, Fault, digestVars, boundVars
<1>8. ASSUME NEW a \in Action, Build(a) PROVE Unwritten'
  BY <1>8 DEF Build, digestVars, registryVars, boundVars
<1>9. ASSUME NEW a \in Action, PreviewReturns(a) PROVE Unwritten'
  BY <1>9 DEF PreviewReturns, registryVars, boundVars
<1>10. ASSUME NEW a \in Action, AssertPreviewed(a) PROVE Unwritten'
  BY <1>10 DEF AssertPreviewed, Executing, Consume, Matches, registryVars, boundVars
<1>11. ASSUME NEW a \in Action, NEW answer \in {"refused", "error"}, HandlerFails(a, answer) PROVE Unwritten'
  BY <1>11 DEF HandlerFails, AfterWrite, digestVars, registryVars, boundVars
<1>12. ASSUME NEW a \in Action, DoWrite(a) PROVE Unwritten'
  BY <1>12 DEF DoWrite, MayWrite, digestVars, registryVars, boundVars
<1>13. ASSUME NEW a \in Action, WriteRefused(a) PROVE Unwritten'
  BY <1>13 DEF WriteRefused, digestVars, registryVars, boundVars
<1>14. ASSUME NEW a \in Action, ExecuteReturns(a) PROVE Unwritten'
  BY <1>14 DEF ExecuteReturns, Executing, digestVars, registryVars, boundVars
<1>15. ASSUME NEW w \in World, Change(w) PROVE Unwritten'
  BY <1>15 DEF Change, digestVars, registryVars
<1>16. ASSUME NEW k \in Key, DigestExpires(k) PROVE Unwritten'
  BY <1>16 DEF DigestExpires, Fault, registryVars
<1>17. CASE PluginExits
  BY <1>17 DEF PluginExits, Fault, digestVars, registryVars
<1>18. CASE Restart
  BY <1>18 DEF Restart, NoRun, Fault, digestVars
<1>19. CASE UNCHANGED vars
  BY <1>19 DEF vars
<1> HIDE PreviewAssumption DEF TypeOK, Status, Run, Stage, Answers, Plan, Write, RunInv, RunsOnlyWhenAsked, Unwritten, Working
<1>20. QED
  BY <1>1, <1>2, <1>3, <1>4, <1>5, <1>6, <1>7, <1>8, <1>9, <1>10, <1>11, <1>12, <1>13, <1>14, <1>15, <1>16, <1>17, <1>18, <1>19 DEF Next, RegistryStep, PluginStep

\* Nothing has been asked for, stored or written at first.
LEMMA InitHolds == Init => IInv
<1>1. ASSUME Init PROVE TypeOK
  <2>1. run \in [Action -> Run]
    BY <1>1, RunTypes DEF Init
  <2>2. QED
    BY <1>1, <2>1, PreviewAssumption DEF Init, TypeOK, Status
<1>2. ASSUME Init PROVE RunInv /\ DigestInv /\ UseInv /\ Unwritten
  BY <1>2, PreviewAssumption
  DEF Init, NoRun, RunInv, RunsOnlyWhenAsked, DigestInv, PreviewsFresh, StoredUnused,
      UseInv, SourcesUsed, WritesUsed, Unwritten, Working, Preview
<1>3. QED
  BY <1>1, <1>2 DEF IInv

\* The strengthened invariant is inductive: each part needs only some of the
\* others.
LEMMA Step == IInv /\ [Next]_vars => IInv'
<1> SUFFICES ASSUME IInv, [Next]_vars PROVE IInv'
  OBVIOUS
<1>1. TypeOK /\ RunInv /\ DigestInv /\ UseInv /\ Unwritten
  BY DEF IInv
<1>2. TypeOK'
  BY <1>1, TypeInvariance
<1>3. RunInv'
  BY <1>1, RunsPreserved
<1>4. DigestInv'
  BY <1>1, DigestsPreserved
<1>5. UseInv'
  BY <1>1, UsesPreserved
<1>6. Unwritten'
  BY <1>1, UnwrittenPreserved
<1>7. QED
  BY <1>2, <1>3, <1>4, <1>5, <1>6 DEF IInv

\* The strengthened invariant holds in every reachable state.
THEOREM PreviewInvariance == Spec => []IInv
<1>1. QED
  BY InitHolds, Step, PTL DEF Spec

\* The variables have their types in every state.
THEOREM TypeCorrect == Spec => []TypeOK
<1>1. IInv => TypeOK
  BY DEF IInv
<1>2. QED
  BY <1>1, PreviewInvariance, PTL

\* Whatever a handler tries and whichever process dies, what a comparing tool
\* wrote is the plan of a preview of the same owner, tool and arguments.
THEOREM WritesWerePreviewed == Spec => []WrittenAsPreviewed
<1>1. IInv => WrittenAsPreviewed
  BY DEF IInv, UseInv, WritesUsed, WrittenAsPreviewed
<1>2. QED
  BY <1>1, PreviewInvariance, PTL

\* Two actions never write on the strength of the same preview.
THEOREM PreviewsUsedOnce == Spec => []OneWritePerPreview
<1>1. IInv => OneWritePerPreview
  BY DEF IInv, UseInv, WritesUsed, OneWritePerPreview
<1>2. QED
  BY <1>1, PreviewInvariance, PTL

\* An action that can be approved has not written: approving it cannot write
\* a second time.
THEOREM OfferedOnlyUnwritten == Spec => []OfferedUnwritten
<1>1. IInv => OfferedUnwritten
  BY DEF IInv, Unwritten, OfferedUnwritten
<1>2. QED
  BY <1>1, PreviewInvariance, PTL

=============================================================================
