-------------------------- MODULE BotServices_proofs --------------------------
(***************************************************************************)
(* Proofs about what the bot does for the people who write to it: the      *)
(* messages it posts at a given time (ScheduledJobs), the messages it      *)
(* answers (BotRequests, ToolTable), the threads it follows (ChatThreads)  *)
(* and the changes it makes to documents and calendars (Workspace).  The   *)
(* components share no variable: each part below proves one inductive      *)
(* invariant of one of them, and its properties follow from it.            *)
(***************************************************************************)
EXTENDS ScheduledJobs, BotRequests, ChatThreads, Workspace, WellFoundedInduction, SequenceTheorems,
        FiniteSetTheorems, TLAPS

-----------------------------------------------------------------------------
(*****************************************************************************)
(* Scheduled messages.                                                       *)
(*****************************************************************************)

\* What a poll in progress knows of the jobs it may post.
PollInv(p) ==
  /\ ~ poll[p].busy => poll[p].list = {} /\ poll[p].posted = {}
  /\ \A j, k \in poll[p].posted : j = k
  /\ \A j \in poll[p].posted :
       PlatformOf[j] = p /\ j \notin poll[p].list /\ through[j] = poll[p].now
  /\ \A j \in poll[p].list \cup poll[p].posted : PlatformOf[j] = p =>
       nextRun[j] <= poll[p].now /\ jobState[j] \in {"stored", "cancelled"}
  /\ \A j \in poll[p].list : PlatformOf[j] = p =>
       sent[j] <= unsure[j] /\ (jobState[j] = "cancelled" => late[j] = 0)

\* A row, between polls and while one of them holds a copy of it.
RowInv(j) ==
  /\ sent[j] <= unsure[j] + 1
  /\ jobState[j] \in {"new", "stored"} /\ (\A p \in Platform : j \notin poll[p].posted) =>
       sent[j] <= unsure[j]
  /\ j \notin Recurring /\ jobState[j] # "new" => nextRun[j] = firstRun[j]
  /\ jobState[j] = "done" => through[j] >= firstRun[j]
  /\ jobState[j] = "stored" /\ j \in Recurring =>
       \A t \in Cron[j] : firstRun[j] <= t /\ t < nextRun[j] => t <= through[j]
  /\ late[j] <= 1
  /\ jobState[j] # "cancelled" => late[j] = 0

JobsInv ==
  /\ JobsTypeOK
  /\ \A p \in Platform : PollInv(p)
  /\ \A j \in Job : RowInv(j)

-----------------------------------------------------------------------------
(* The next time a cron expression names. *)

LEMMA LeastTime ==
  ASSUME NEW T \in SUBSET Nat, T # {}
  PROVE  \E x \in T : \A y \in T : x <= y
<1> DEFINE R == OpToRel(<, Nat)
<1>1. IsWellFoundedOn(R, Nat)
  BY NatLessThanWellFounded
<1> HIDE DEF R
<1>2. PICK x \in T : \A y \in T : ~ (<<y, x>> \in R)
  BY <1>1, WFMin
<1>3. ASSUME NEW y \in T  PROVE x <= y
  <2>1. ~ (y < x)
    BY <1>2 DEF R, OpToRel
  <2> QED
    BY <2>1, SMT
<1> QED
  BY <1>3

\* It is a later time, and none the expression names lies between.
LEMMA NextAfterFacts ==
  ASSUME NEW j \in Job, NEW t \in Times
  PROVE  /\ NextAfter(j, t) \in 0 .. Never
         /\ \A k \in Cron[j] : k < NextAfter(j, t) => k <= t
<1> DEFINE later == {n \in Cron[j] : n > t}
<1>1. Cron[j] \subseteq 1 .. Horizon /\ Horizon \in Nat
  BY JobsAssumption
<1>2. later \in SUBSET Nat /\ t \in Nat /\ Never = Horizon + 1
  BY <1>1 DEF Times, Never
<1>3. CASE later = {}
  <2>1. NextAfter(j, t) = Never
    BY <1>3 DEF NextAfter
  <2>2. \A k \in Cron[j] : ~ (k > t)
    BY <1>3
  <2> QED
    BY <2>1, <2>2, <1>1, <1>2
<1>4. CASE later # {}
  <2>1. \E x \in later : \A y \in later : x <= y
    BY <1>2, <1>4, LeastTime
  <2>2. NextAfter(j, t) = CHOOSE n \in later : \A k \in later : n <= k
    BY <1>4 DEF NextAfter
  <2>3. NextAfter(j, t) \in later /\ \A y \in later : NextAfter(j, t) <= y
    BY <2>1, <2>2
  <2> QED
    BY <2>3, <1>1, <1>2
<1> QED
  BY <1>3, <1>4

-----------------------------------------------------------------------------
(* Each step. *)

\* Types make every job's counters numbers, and every poll a record.
LEMMA JobTypes ==
  ASSUME JobsTypeOK
  PROVE  /\ Horizon \in Nat /\ MaxJobFaults \in Nat /\ Recurring \subseteq Job
         /\ \A j \in Job : /\ nextRun[j] \in 0 .. Never /\ firstRun[j] \in 0 .. Never
                           /\ sent[j] \in Nat /\ unsure[j] \in Nat /\ late[j] \in Nat
                           /\ through[j] \in Times
                           /\ nextRun[j] \in Nat /\ firstRun[j] \in Nat /\ through[j] \in Nat
         /\ \A p \in Platform : /\ poll[p].now \in Times /\ poll[p].now \in Nat
                                /\ poll[p].list \in SUBSET Job
                                /\ poll[p].posted \in SUBSET Job
         /\ \A j \in Job : \A t \in Cron[j] : t \in Nat /\ t \in 1 .. Horizon
         /\ clock \in Nat
BY JobsAssumption DEF JobsTypeOK, Poll, Times, Never

\* Taking a job off the list of a poll changes no other poll.
LEMMA PollTakes ==
  ASSUME poll \in [Platform -> Poll], NEW p \in Platform, NEW j \in Job,
         poll' = [poll EXCEPT ![p].list = @ \ {j}, ![p].posted = {j}]
  PROVE  /\ poll' \in [Platform -> Poll]
         /\ \A q \in Platform : poll'[q].now = poll[q].now /\ poll'[q].busy = poll[q].busy
         /\ \A q \in Platform \ {p} : poll'[q] = poll[q]
         /\ poll'[p].list = poll[p].list \ {j}
         /\ poll'[p].posted = {j}
BY DEF Poll

LEMMA PollRefuses ==
  ASSUME poll \in [Platform -> Poll], NEW p \in Platform, NEW j \in Job,
         poll' = [poll EXCEPT ![p].list = @ \ {j}]
  PROVE  /\ poll' \in [Platform -> Poll]
         /\ \A q \in Platform : poll'[q].now = poll[q].now /\ poll'[q].busy = poll[q].busy
                                /\ poll'[q].posted = poll[q].posted
         /\ \A q \in Platform \ {p} : poll'[q] = poll[q]
         /\ poll'[p].list = poll[p].list \ {j}
BY DEF Poll

LEMMA PollRecords ==
  ASSUME poll \in [Platform -> Poll], NEW p \in Platform,
         poll' = [poll EXCEPT ![p].posted = {}]
  PROVE  /\ poll' \in [Platform -> Poll]
         /\ \A q \in Platform : poll'[q].now = poll[q].now /\ poll'[q].busy = poll[q].busy
                                /\ poll'[q].list = poll[q].list
         /\ \A q \in Platform \ {p} : poll'[q] = poll[q]
         /\ poll'[p].posted = {}
BY DEF Poll

LEMMA JobsInitInv == JobsInit => JobsInv
<1> SUFFICES ASSUME JobsInit  PROVE JobsInv
  OBVIOUS
<1>1. JobsTypeOK
  BY JobsAssumption DEF JobsInit, JobsTypeOK, Poll, Between, Times, Never
<1>2. \A p \in Platform : PollInv(p)
  BY DEF JobsInit, PollInv, Between
<1>3. ASSUME NEW j \in Job  PROVE RowInv(j)
  <2>1. jobState[j] = "new" /\ sent[j] = 0 /\ unsure[j] = 0 /\ late[j] = 0
    BY DEF JobsInit
  <2> QED
    BY <2>1 DEF RowInv
<1> QED
  BY <1>1, <1>2, <1>3 DEF JobsInv

LEMMA StoreKeeps ==
  ASSUME JobsInv, NEW j \in Job, NEW at \in 0 .. Never, StoreJob(j, at)
  PROVE  JobsInv'
<1> USE DEF StoreJob
<1>0. JobsTypeOK
  BY DEF JobsInv
<1>1. JobsTypeOK'
  BY <1>0 DEF JobsTypeOK
<1>2. ASSUME NEW p \in Platform  PROVE PollInv(p)'
  BY <1>0 DEF JobsInv, PollInv, JobsTypeOK
<1>3. ASSUME NEW k \in Job  PROVE RowInv(k)'
  <2>1. RowInv(k)
    BY DEF JobsInv
  <2> QED
    BY <2>1, <1>0, JobTypes DEF RowInv, JobsTypeOK
<1> QED
  BY <1>1, <1>2, <1>3 DEF JobsInv

LEMMA CancelKeeps ==
  ASSUME JobsInv, NEW j \in Job, CancelJob(j)
  PROVE  JobsInv'
<1> USE DEF CancelJob, jobsGhosts
<1>0. JobsTypeOK
  BY DEF JobsInv
<1>1. JobsTypeOK'
  BY <1>0 DEF JobsTypeOK
<1>2. ASSUME NEW p \in Platform  PROVE PollInv(p)'
  <2>1. RowInv(j)
    BY DEF JobsInv
  <2>2. late[j] = 0
    BY <2>1 DEF RowInv
  <2> QED
    BY <1>0, <2>2 DEF JobsInv, PollInv, JobsTypeOK
<1>3. ASSUME NEW k \in Job  PROVE RowInv(k)'
  <2>1. RowInv(k)
    BY DEF JobsInv
  <2> QED
    BY <2>1, <1>0 DEF RowInv, JobsTypeOK
<1> QED
  BY <1>1, <1>2, <1>3 DEF JobsInv

LEMMA StartPollKeeps ==
  ASSUME JobsInv, NEW p \in Platform, StartPoll(p)
  PROVE  JobsInv'
<1> USE DEF StartPoll, jobsGhosts
<1>0. JobsTypeOK /\ PollInv(p)
  BY DEF JobsInv
<1>1. JobsTypeOK'
  BY <1>0 DEF JobsTypeOK, Poll, DueJobs
<1>2. poll[p].posted = {} /\ poll[p].list = {}
  BY <1>0 DEF PollInv
<1>3. /\ poll'[p].posted = {} /\ poll'[p].busy = TRUE /\ poll'[p].now = clock
      /\ poll'[p].list = DueJobs /\ \A q \in Platform \ {p} : poll'[q] = poll[q]
  BY <1>0 DEF JobsTypeOK
<1>4. \A q \in Platform : poll'[q].posted = poll[q].posted
  BY <1>2, <1>3
<1>5. ASSUME NEW k \in Job  PROVE RowInv(k)'
  <2>1. RowInv(k)
    BY DEF JobsInv
  <2> QED
    BY <2>1, <1>4 DEF RowInv
<1>6. ASSUME NEW q \in Platform, q # p  PROVE PollInv(q)'
  BY <1>3, <1>6 DEF JobsInv, PollInv
<1>7. PollInv(p)'
  <2>1. ASSUME NEW k \in DueJobs, PlatformOf[k] = p
        PROVE  /\ nextRun[k] <= clock /\ jobState[k] = "stored"
               /\ sent[k] <= unsure[k]
    <3>1. RowInv(k)
      BY DEF JobsInv, DueJobs
    <3>2. \A q \in Platform : k \notin poll[q].posted
      BY <2>1, <1>2 DEF JobsInv, PollInv
    <3> QED
      BY <3>1, <3>2 DEF RowInv, DueJobs
  <2> QED
    BY <2>1, <1>3 DEF PollInv
<1> QED
  BY <1>1, <1>5, <1>6, <1>7 DEF JobsInv
\* What posting the next job of a list rests on.
LEMMA NextIsDue ==
  ASSUME JobsInv, NEW p \in Platform, NEW j \in Job, NextToPost(p, j), PlatformOf[j] = p
  PROVE  /\ nextRun[j] <= poll[p].now
         /\ jobState[j] \in {"stored", "cancelled"}
         /\ sent[j] <= unsure[j]
         /\ jobState[j] = "cancelled" => late[j] = 0
         /\ \A q \in Platform : j \notin poll[q].posted
         /\ jobState[j] # "cancelled" => late[j] = 0
<1>1. PollInv(p) /\ RowInv(j) /\ \A q \in Platform : PollInv(q)
  BY DEF JobsInv
<1> QED
  BY <1>1 DEF PollInv, RowInv, NextToPost

\* The counters after a post of j.
LEMMA PostCounts ==
  ASSUME JobsInv, NEW p \in Platform, NEW j \in Job, NextToPost(p, j), PlatformOf[j] = p,
         CountPost(j)
  PROVE  /\ sent' \in [Job -> Nat] /\ through' \in [Job -> Times] /\ late' \in [Job -> Nat]
         /\ sent'[j] = sent[j] + 1 /\ through'[j] = poll[p].now /\ late'[j] <= 1
         /\ jobState[j] # "cancelled" => late'[j] = 0
         /\ \A k \in Job \ {j} : /\ sent'[k] = sent[k] /\ late'[k] = late[k]
                                 /\ through'[k] = through[k]
<1>1. JobsTypeOK
  BY DEF JobsInv
<1>2. poll[p].now \in Times
  BY <1>1, JobTypes
<1>3. jobState[j] = "cancelled" => late[j] = 0
  BY NextIsDue
<1>4. jobState[j] # "cancelled" => late[j] = 0
  BY NextIsDue
<1> QED
  BY <1>1, <1>2, <1>3, <1>4 DEF CountPost, JobsTypeOK

\* The row of j after a post, wherever its answer ended.
LEMMA PostedRow ==
  ASSUME JobsInv, NEW p \in Platform, NEW j \in Job, NextToPost(p, j), PlatformOf[j] = p,
         CountPost(j), UNCHANGED <<jobState, nextRun, firstRun>>
  PROVE  /\ j \notin Recurring /\ jobState'[j] # "new" => nextRun'[j] = firstRun'[j]
         /\ jobState'[j] = "done" => through'[j] >= firstRun'[j]
         /\ jobState'[j] = "stored" /\ j \in Recurring =>
              \A t \in Cron[j] : firstRun'[j] <= t /\ t < nextRun'[j] => t <= through'[j]
         /\ late'[j] <= 1
         /\ jobState'[j] # "cancelled" => late'[j] = 0
<1>1. JobsTypeOK /\ RowInv(j)
  BY DEF JobsInv
<1>2. nextRun[j] <= poll[p].now /\ jobState[j] \in {"stored", "cancelled"}
  BY NextIsDue
<1>3. /\ through'[j] = poll[p].now /\ late'[j] <= 1
      /\ jobState[j] # "cancelled" => late'[j] = 0
  BY PostCounts
<1>4. \A t \in Cron[j] : t < nextRun[j] => t <= poll[p].now
  BY <1>1, <1>2, JobTypes
<1> QED
  BY <1>1, <1>2, <1>3, <1>4 DEF RowInv

LEMMA PostMessageKeeps ==
  ASSUME JobsInv, NEW p \in Platform, NEW j \in Job, PostMessage(p, j)
  PROVE  JobsInv'
<1>0. /\ poll' = [poll EXCEPT ![p].list = @ \ {j}, ![p].posted = {j}]
      /\ poll \in [Platform -> Poll] /\ {j} \in SUBSET Job
  BY DEF PostMessage, JobsInv, JobsTypeOK
<1>1. /\ JobsTypeOK /\ NextToPost(p, j) /\ PlatformOf[j] = p /\ CountPost(j)
      /\ UNCHANGED <<clock, jobState, nextRun, service, jobFaults, firstRun, unsure>>
  BY DEF JobsInv, PostMessage
<1>2. /\ poll' \in [Platform -> Poll]
      /\ \A q \in Platform : poll'[q].now = poll[q].now /\ poll'[q].busy = poll[q].busy
      /\ \A q \in Platform \ {p} : poll'[q] = poll[q]
      /\ poll'[p].list = poll[p].list \ {j}
      /\ poll'[p].posted = {j}
  BY <1>1, <1>0, PollTakes
<1>3. /\ sent' \in [Job -> Nat] /\ through' \in [Job -> Times] /\ late' \in [Job -> Nat]
      /\ sent'[j] = sent[j] + 1 /\ through'[j] = poll[p].now
      /\ \A k \in Job \ {j} : /\ sent'[k] = sent[k] /\ late'[k] = late[k]
                              /\ through'[k] = through[k]
  BY <1>1, PostCounts
<1>4. /\ nextRun[j] <= poll[p].now /\ jobState[j] \in {"stored", "cancelled"}
      /\ sent[j] <= unsure[j] /\ \A q \in Platform : j \notin poll[q].posted
  BY <1>1, NextIsDue
<1>5. JobsTypeOK'
  BY <1>1, <1>2, <1>3 DEF JobsTypeOK
<1>6. poll[p].posted = {} /\ PollInv(p) /\ poll[p].busy
  BY <1>1 DEF NextToPost, JobsInv, PollInv
<1>7. PollInv(p)'
  BY <1>1, <1>2, <1>3, <1>4, <1>6, JobTypes DEF PollInv
<1>8. ASSUME NEW q \in Platform, q # p  PROVE PollInv(q)'
  <2>1. PollInv(q) /\ poll'[q] = poll[q]
    BY <1>2, <1>8 DEF JobsInv
  <2>2. j \notin poll[q].posted /\ PlatformOf[j] # q
    BY <1>1, <1>4, <1>8
  <2> QED
    BY <2>1, <2>2, <1>1, <1>3, JobTypes DEF PollInv
<1>9. RowInv(j)'
  <2>1. j \in poll'[p].posted
    BY <1>2
  <2>2. sent'[j] <= unsure'[j] + 1
    BY <1>1, <1>3, <1>4, JobTypes
  <2> QED
    BY <2>1, <2>2, <1>1, PostedRow DEF RowInv
<1>10. ASSUME NEW k \in Job, k # j  PROVE RowInv(k)'
  <2>1. RowInv(k)
    BY DEF JobsInv
  <2>2. (\A q \in Platform : k \notin poll'[q].posted) =>
          (\A q \in Platform : k \notin poll[q].posted)
    BY <1>2, <1>6
  <2> QED
    BY <2>1, <2>2, <1>1, <1>3, <1>10 DEF RowInv
<1> QED
  BY <1>5, <1>7, <1>8, <1>9, <1>10 DEF JobsInv

LEMMA PostRefusedKeeps ==
  ASSUME JobsInv, NEW p \in Platform, NEW j \in Job, PostRefused(p, j)
  PROVE  JobsInv'
<1>1. /\ JobsTypeOK /\ j \in poll[p].list /\ UNCHANGED <<sent, unsure, through, late, firstRun>>
      /\ UNCHANGED <<clock, jobState, nextRun, service, jobFaults>>
  BY DEF JobsInv, PostRefused, NextToPost, jobsGhosts
<1>2. /\ poll' \in [Platform -> Poll]
      /\ \A q \in Platform : poll'[q].now = poll[q].now /\ poll'[q].busy = poll[q].busy
                             /\ poll'[q].posted = poll[q].posted
      /\ \A q \in Platform \ {p} : poll'[q] = poll[q]
      /\ poll'[p].list = poll[p].list \ {j}
  BY <1>1, PollRefuses DEF JobsTypeOK, PostRefused
<1>3. JobsTypeOK'
  BY <1>1, <1>2 DEF JobsTypeOK
<1>4. ASSUME NEW q \in Platform  PROVE PollInv(q)'
  <2>1. PollInv(q) /\ poll'[q].list \subseteq poll[q].list
    BY <1>2 DEF JobsInv
  <2> QED
    BY <2>1, <1>1, <1>2 DEF PollInv
<1>5. ASSUME NEW k \in Job  PROVE RowInv(k)'
  BY <1>1, <1>2 DEF JobsInv, RowInv
<1> QED
  BY <1>3, <1>4, <1>5 DEF JobsInv

LEMMA PostFailsKeeps ==
  ASSUME JobsInv, NEW p \in Platform, NEW j \in Job, PostFails(p, j)
  PROVE  JobsInv'
<1>1. /\ JobsTypeOK /\ NextToPost(p, j) /\ PlatformOf[j] = p /\ JobFault
      /\ UNCHANGED <<clock, jobState, nextRun, service, firstRun>>
  BY DEF JobsInv, PostFails
<1>2. /\ poll' \in [Platform -> Poll]
      /\ \A q \in Platform : poll'[q].now = poll[q].now /\ poll'[q].busy = poll[q].busy
                             /\ poll'[q].posted = poll[q].posted
      /\ \A q \in Platform \ {p} : poll'[q] = poll[q]
      /\ poll'[p].list = poll[p].list \ {j}
  BY <1>1, PollRefuses DEF JobsTypeOK, PostFails
<1>3. jobFaults' \in 0 .. MaxJobFaults
  BY <1>1, JobsAssumption DEF JobFault, JobsTypeOK
<1>4. CASE UNCHANGED <<sent, unsure, through, late>>
  <2>1. JobsTypeOK'
    BY <1>1, <1>2, <1>3, <1>4 DEF JobsTypeOK
  <2>2. ASSUME NEW q \in Platform  PROVE PollInv(q)'
    <3>1. PollInv(q) /\ poll'[q].list \subseteq poll[q].list
      BY <1>2 DEF JobsInv
    <3> QED
      BY <3>1, <1>1, <1>2, <1>4 DEF PollInv
  <2>3. ASSUME NEW k \in Job  PROVE RowInv(k)'
    BY <1>1, <1>2, <1>4 DEF JobsInv, RowInv
  <2> QED
    BY <2>1, <2>2, <2>3 DEF JobsInv
<1>5. CASE CountPost(j) /\ unsure' = [unsure EXCEPT ![j] = @ + 1]
  <2>1. /\ sent' \in [Job -> Nat] /\ through' \in [Job -> Times] /\ late' \in [Job -> Nat]
        /\ sent'[j] = sent[j] + 1
        /\ \A k \in Job \ {j} : /\ sent'[k] = sent[k] /\ late'[k] = late[k]
                                /\ through'[k] = through[k]
    BY <1>1, <1>5, PostCounts
  <2>2. /\ unsure' \in [Job -> Nat] /\ unsure'[j] = unsure[j] + 1
        /\ \A k \in Job \ {j} : unsure'[k] = unsure[k]
    BY <1>1, <1>5 DEF JobsTypeOK
  <2>3. JobsTypeOK'
    BY <1>1, <1>2, <1>3, <2>1, <2>2 DEF JobsTypeOK
  <2>4. /\ jobState[j] \in {"stored", "cancelled"} /\ sent[j] <= unsure[j]
        /\ \A q \in Platform : j \notin poll[q].posted
    BY <1>1, NextIsDue
  <2>5. ASSUME NEW q \in Platform  PROVE PollInv(q)'
    <3>1. PollInv(q) /\ poll'[q].list \subseteq poll[q].list /\ poll'[q].posted = poll[q].posted
      BY <1>2 DEF JobsInv
    <3>2. PlatformOf[j] = q => j \notin poll'[q].list
      BY <1>1, <1>2
    <3>3. j \notin poll'[q].posted
      BY <1>2, <2>4
    <3> QED
      BY <3>1, <3>2, <3>3, <1>1, <1>2, <2>1, <2>2, JobTypes DEF PollInv
  <2>6. RowInv(j)'
    <3>1. sent'[j] <= unsure'[j]
      BY <2>1, <2>2, <2>4, <1>1, JobTypes
    <3>2. sent'[j] <= unsure'[j] + 1
      BY <3>1, <2>1, <2>2
    <3> QED
      BY <3>1, <3>2, <1>1, <1>5, PostedRow DEF RowInv
  <2>7. ASSUME NEW k \in Job, k # j  PROVE RowInv(k)'
    BY <1>1, <1>2, <2>1, <2>2, <2>7 DEF JobsInv, RowInv
  <2> QED
    BY <2>3, <2>5, <2>6, <2>7 DEF JobsInv
<1> QED
  BY <1>4, <1>5 DEF PostFails

LEMMA RecordPostKeeps ==
  ASSUME JobsInv, NEW p \in Platform, NEW j \in Job, RecordPost(p, j)
  PROVE  JobsInv'
<1>1. /\ JobsTypeOK /\ j \in poll[p].posted /\ PollInv(p) /\ RowInv(j)
      /\ UNCHANGED <<clock, service, jobFaults, firstRun, through, late>>
  BY DEF JobsInv, RecordPost
<1>2. /\ poll' \in [Platform -> Poll]
      /\ \A q \in Platform : poll'[q].now = poll[q].now /\ poll'[q].busy = poll[q].busy
                             /\ poll'[q].list = poll[q].list
      /\ \A q \in Platform \ {p} : poll'[q] = poll[q]
      /\ poll'[p].posted = {}
  BY <1>1, PollRecords DEF JobsTypeOK, RecordPost
<1>3. /\ PlatformOf[j] = p /\ j \notin poll[p].list /\ through[j] = poll[p].now
      /\ nextRun[j] <= poll[p].now /\ jobState[j] \in {"stored", "cancelled"}
      /\ poll[p].busy
  BY <1>1 DEF PollInv
<1>4. poll[p].now \in Times
  BY <1>1, JobTypes
<1>5. /\ NextAfter(j, poll[p].now) \in 0 .. Never
      /\ \A t \in Cron[j] : t < NextAfter(j, poll[p].now) => t <= through[j]
  BY <1>3, <1>4, NextAfterFacts
\* Nothing that speaks of j is left in the polls of its platform.
<1>6. \A q \in Platform : j \notin poll'[q].posted /\ (PlatformOf[j] = q => j \notin poll'[q].list)
  BY <1>2, <1>3 DEF JobsInv, PollInv
<1>7. \A k \in Job \ {j} : /\ jobState'[k] = jobState[k] /\ nextRun'[k] = nextRun[k]
                           /\ sent'[k] = sent[k] /\ unsure'[k] = unsure[k]
  BY <1>1 DEF RecordPost, JobsTypeOK
<1>8. JobsTypeOK'
  BY <1>1, <1>2, <1>5 DEF RecordPost, JobsTypeOK
<1>9. ASSUME NEW q \in Platform  PROVE PollInv(q)'
  <2>1. PollInv(q) /\ poll'[q].list = poll[q].list /\ poll'[q].posted \subseteq poll[q].posted
    BY <1>2 DEF JobsInv
  <2>2. poll'[q].list \in SUBSET Job /\ poll'[q].posted \in SUBSET Job
    BY <2>1, <1>1, JobTypes
  <2>3. poll'[q].posted \in SUBSET (poll[q].posted \ {j})
    BY <2>1, <1>6
  <2> QED
    BY <2>1, <2>2, <2>3, <1>1, <1>2, <1>6, <1>7 DEF PollInv
<1>10. ASSUME NEW k \in Job, k # j  PROVE RowInv(k)'
  <2>1. RowInv(k)
    BY DEF JobsInv
  <2>2. (\A q \in Platform : k \notin poll'[q].posted) =>
          (\A q \in Platform : k \notin poll[q].posted)
    BY <1>1, <1>2, <1>3, <1>10 DEF PollInv
  <2> QED
    BY <2>1, <2>2, <1>1, <1>7, <1>10 DEF RowInv
<1>11. RowInv(j)'
  <2>1. CASE jobState[j] # "stored"
    <3>1. UNCHANGED <<jobState, nextRun, sent, unsure>>
      BY <2>1 DEF RecordPost
    <3> QED
      BY <1>1, <1>3, <2>1, <3>1 DEF RowInv
  <2>2. CASE jobState[j] = "stored" /\ j \in Recurring
    <3>1. /\ nextRun'[j] = NextAfter(j, poll[p].now) /\ sent'[j] = 0 /\ unsure'[j] = 0
          /\ jobState'[j] = "stored"
      BY <1>1, <2>2 DEF RecordPost, JobsTypeOK
    <3>2. \A t \in Cron[j] : t < nextRun'[j] => t <= through'[j]
      BY <3>1, <1>1, <1>5
    <3>3. sent'[j] <= unsure'[j] /\ sent'[j] <= unsure'[j] + 1
      BY <3>1
    <3> QED
      BY <3>1, <3>2, <3>3, <2>2, <1>1 DEF RowInv
  <2>3. CASE jobState[j] = "stored" /\ j \notin Recurring
    <3>1. jobState'[j] = "done" /\ UNCHANGED <<nextRun, sent, unsure>>
      BY <1>1, <2>3 DEF RecordPost, JobsTypeOK
    <3>2. through[j] >= firstRun[j]
      BY <1>1, <1>3, <2>3, JobTypes DEF RowInv
    <3> QED
      BY <3>1, <3>2, <2>3, <1>1 DEF RowInv
  <2> QED
    BY <2>1, <2>2, <2>3
<1> QED
  BY <1>8, <1>9, <1>10, <1>11 DEF JobsInv

LEMMA RecordFailsKeeps ==
  ASSUME JobsInv, NEW p \in Platform, NEW j \in Job, RecordFails(p, j)
  PROVE  JobsInv'
<1>1. /\ JobsTypeOK /\ j \in poll[p].posted /\ PollInv(p) /\ RowInv(j) /\ JobFault
      /\ unsure' = [unsure EXCEPT ![j] = @ + 1]
      /\ UNCHANGED <<clock, jobState, nextRun, service, firstRun, sent, through, late>>
  BY DEF JobsInv, RecordFails
<1>2. /\ poll' \in [Platform -> Poll]
      /\ \A q \in Platform : poll'[q].now = poll[q].now /\ poll'[q].busy = poll[q].busy
                             /\ poll'[q].list = poll[q].list
      /\ \A q \in Platform \ {p} : poll'[q] = poll[q]
      /\ poll'[p].posted = {}
  BY <1>1, PollRecords DEF JobsTypeOK, RecordFails
<1>3. /\ PlatformOf[j] = p /\ j \notin poll[p].list
      /\ \A k \in poll[p].posted : k = j
  BY <1>1 DEF PollInv
<1>4. /\ unsure' \in [Job -> Nat] /\ unsure'[j] = unsure[j] + 1
      /\ \A k \in Job \ {j} : unsure'[k] = unsure[k]
  BY <1>1 DEF JobsTypeOK
<1>5. jobFaults' \in 0 .. MaxJobFaults
  BY <1>1, JobsAssumption DEF JobFault, JobsTypeOK
<1>6. JobsTypeOK'
  BY <1>1, <1>2, <1>4, <1>5 DEF JobsTypeOK
<1>7. \A k \in Job : unsure[k] <= unsure'[k] /\ sent[k] \in Nat /\ unsure[k] \in Nat
  BY <1>1, <1>4, JobTypes
<1>8. ASSUME NEW q \in Platform  PROVE PollInv(q)'
  <2>1. PollInv(q) /\ poll'[q].list = poll[q].list /\ poll'[q].posted \subseteq poll[q].posted
    BY <1>2 DEF JobsInv
  <2>2. poll'[q].list \in SUBSET Job /\ poll'[q].posted \in SUBSET Job
    BY <2>1, <1>1, JobTypes
  <2>3. \A k \in poll'[q].list : PlatformOf[k] = q => sent[k] <= unsure'[k]
    BY <2>1, <2>2, <1>4, <1>7 DEF PollInv
  <2> QED
    BY <2>1, <2>2, <2>3, <1>1, <1>2 DEF PollInv
<1>9. ASSUME NEW k \in Job, k # j  PROVE RowInv(k)'
  <2>1. RowInv(k)
    BY DEF JobsInv
  <2>2. (\A q \in Platform : k \notin poll'[q].posted) =>
          (\A q \in Platform : k \notin poll[q].posted)
    BY <1>2, <1>3, <1>9
  <2> QED
    BY <2>1, <2>2, <1>1, <1>4, <1>9 DEF RowInv
<1>10. RowInv(j)'
  <2>1. sent'[j] <= unsure'[j]
    BY <1>1, <1>4, <1>7 DEF RowInv
  <2> QED
    BY <2>1, <1>1, <1>4, <1>7 DEF RowInv
<1> QED
  BY <1>6, <1>8, <1>9, <1>10 DEF JobsInv

LEMMA EndPollKeeps ==
  ASSUME JobsInv, NEW p \in Platform, EndPoll(p)
  PROVE  JobsInv'
<1>1. /\ JobsTypeOK /\ poll[p].list = {} /\ poll[p].posted = {}
      /\ UNCHANGED <<clock, jobState, nextRun, service, jobFaults, firstRun, sent, unsure,
                     through, late>>
  BY DEF JobsInv, EndPoll, jobsGhosts
<1>2. /\ poll' \in [Platform -> Poll] /\ poll'[p].list = {} /\ poll'[p].posted = {}
      /\ \A q \in Platform \ {p} : poll'[q] = poll[q]
  BY <1>1, JobsAssumption DEF EndPoll, JobsTypeOK, Poll, Between, Times
<1>3. JobsTypeOK'
  BY <1>1, <1>2 DEF JobsTypeOK
<1>4. ASSUME NEW q \in Platform  PROVE PollInv(q)'
  BY <1>1, <1>2 DEF JobsInv, PollInv
<1>5. ASSUME NEW k \in Job  PROVE RowInv(k)'
  BY <1>1, <1>2 DEF JobsInv, RowInv
<1> QED
  BY <1>3, <1>4, <1>5 DEF JobsInv

\* A post that the end of the program cut off from its record counts as one
\* that could not be recorded.
LEMMA EndedKeeps ==
  ASSUME JobsInv, Ended, jobFaults' \in 0 .. MaxJobFaults
  PROVE  JobsInv'
<1>1. /\ JobsTypeOK /\ UNCHANGED <<clock, jobState, nextRun, firstRun, sent, through, late>>
      /\ service' = "down"
  BY DEF JobsInv, Ended
<1>2. /\ poll' \in [Platform -> Poll]
      /\ \A q \in Platform : poll'[q].list = {} /\ poll'[q].posted = {}
  BY JobsAssumption DEF Ended, Poll, Between, Times
<1>3. ASSUME NEW k \in Job
      PROVE  /\ unsure'[k] \in Nat /\ unsure[k] <= unsure'[k]
             /\ (\E p \in Platform : k \in poll[p].posted) => unsure'[k] = unsure[k] + 1
  BY <1>1, JobTypes DEF Ended
<1>4. unsure' \in [Job -> Nat]
  BY <1>1, JobTypes DEF Ended
<1>5. JobsTypeOK'
  BY <1>1, <1>2, <1>4 DEF JobsTypeOK
<1>6. ASSUME NEW q \in Platform  PROVE PollInv(q)'
  BY <1>2 DEF PollInv
<1>7. ASSUME NEW k \in Job  PROVE RowInv(k)'
  <2>1. RowInv(k) /\ sent[k] \in Nat /\ unsure[k] \in Nat
    BY <1>1, JobTypes DEF JobsInv
  <2>2. sent[k] <= unsure'[k] + 1
    BY <2>1, <1>3 DEF RowInv
  <2>3. jobState[k] \in {"new", "stored"} => sent[k] <= unsure'[k]
    <3>1. CASE \E p \in Platform : k \in poll[p].posted
      BY <2>1, <1>3, <3>1 DEF RowInv
    <3>2. CASE \A p \in Platform : k \notin poll[p].posted
      BY <2>1, <1>3, <3>2 DEF RowInv
    <3> QED
      BY <3>1, <3>2
  <2> QED
    BY <2>1, <2>2, <2>3, <1>1 DEF RowInv
<1> QED
  BY <1>5, <1>6, <1>7 DEF JobsInv

\* Steps that change neither a row nor a poll.
LEMMA ProgramKeeps ==
  ASSUME JobsInv, clock' \in Times, service' \in {"up", "stopping", "down"},
         jobFaults' \in 0 .. MaxJobFaults,
         UNCHANGED <<jobState, nextRun, poll, jobsGhosts>>
  PROVE  JobsInv'
<1> USE DEF jobsGhosts
<1>1. JobsTypeOK'
  BY DEF JobsInv, JobsTypeOK
<1>2. \A p \in Platform : PollInv(p)'
  BY DEF JobsInv, PollInv
<1>3. \A j \in Job : RowInv(j)'
  BY DEF JobsInv, RowInv
<1> QED
  BY <1>1, <1>2, <1>3 DEF JobsInv

LEMMA JobsStep == JobsInv /\ [JobsNext]_jobsVars => JobsInv'
<1> SUFFICES ASSUME JobsInv, [JobsNext]_jobsVars  PROVE JobsInv'
  OBVIOUS
<1>0. /\ clock \in Times /\ service \in {"up", "stopping", "down"}
      /\ jobFaults \in 0 .. MaxJobFaults /\ Horizon \in Nat /\ MaxJobFaults \in Nat
  BY JobsAssumption DEF JobsInv, JobsTypeOK
<1>1. JobFault => jobFaults' \in 0 .. MaxJobFaults
  BY <1>0 DEF JobFault
<1>2. ASSUME NEW j \in Job, ScheduleMessage(j)  PROVE JobsInv'
  <2>1. PICK at \in SendAt : StoreJob(j, at)
    BY <1>2 DEF ScheduleMessage
  <2>2. at \in 0 .. Never
    BY <1>0 DEF SendAt, Times, Never
  <2> QED
    BY <2>1, <2>2, StoreKeeps
<1>3. ASSUME NEW j \in Job, CreateRecurringJob(j)  PROVE JobsInv'
  <2>1. NextAfter(j, clock) \in 0 .. Never
    BY <1>0, NextAfterFacts
  <2> QED
    BY <1>3, <2>1, StoreKeeps DEF CreateRecurringJob
<1>4. ASSUME NEW j \in Job, CancelJob(j)  PROVE JobsInv'
  BY <1>4, CancelKeeps
<1>5. ASSUME NEW p \in Platform, PollStep(p)  PROVE JobsInv'
  BY <1>5, StartPollKeeps, EndPollKeeps, PostMessageKeeps, PostRefusedKeeps, PostFailsKeeps,
     RecordPostKeeps, RecordFailsKeeps DEF PollStep
<1>6. CASE StopService
  BY <1>0, <1>1, <1>6, ProgramKeeps DEF StopService
<1>7. CASE ExitService
  BY <1>0, <1>7, EndedKeeps DEF ExitService
<1>8. CASE CrashService
  BY <1>1, <1>8, EndedKeeps DEF CrashService
<1>9. CASE StartService
  BY <1>0, <1>9, ProgramKeeps DEF StartService
<1>10. CASE TimePasses
  <2>1. clock' \in Times
    BY <1>0, <1>10 DEF TimePasses, Times
  <2> QED
    BY <1>0, <1>10, <2>1, ProgramKeeps DEF TimePasses
<1>11. CASE UNCHANGED jobsVars
  BY <1>0, <1>11, ProgramKeeps DEF jobsVars
<1> QED
  BY <1>2, <1>3, <1>4, <1>5, <1>6, <1>7, <1>8, <1>9, <1>10, <1>11 DEF JobsNext

-----------------------------------------------------------------------------
(* The theorems. *)

\* The schedulers' invariant, for any jobs, cron expressions and platforms.
THEOREM JobsAreConsistent == JobsSpec => []JobsInv
<1> QED
  BY JobsInitInv, JobsStep, PTL DEF JobsSpec

\* The rows, the polls and the counts keep the types the scheduler gives them.
THEOREM JobsTypeCorrect == JobsSpec => []JobsTypeOK
<1>1. JobsInv => JobsTypeOK
  BY DEF JobsInv
<1> QED
  BY <1>1, JobsAreConsistent, PTL

\* Two schedulers, restarts and cancellations in any order post a message once
\* for each time it was due, and once more only for each post that could not
\* be recorded (processDueJobs, executeJob).
THEOREM PostedOnce == JobsSpec => []PostedOncePerRun
<1>1. JobsInv => PostedOncePerRun
  BY DEF JobsInv, RowInv, PostedOncePerRun
<1> QED
  BY <1>1, JobsAreConsistent, PTL

\* No run is passed over, however long a poll takes (processDueJobs,
\* nextRun from the time the poll began).
THEOREM EveryRunIsPosted == JobsSpec => []NoRunLost
<1>1. JobsInv => NoRunLost
  BY DEF JobsInv, RowInv, NoRunLost
<1> QED
  BY <1>1, JobsAreConsistent, PTL

\* A job that was cancelled is posted at most once more (CancelJob).
THEOREM CancelledJobsFallSilent == JobsSpec => []CancelledFallsSilent
<1>1. JobsInv => CancelledFallsSilent
  BY DEF JobsInv, RowInv, CancelledFallsSilent
<1> QED
  BY <1>1, JobsAreConsistent, PTL

-----------------------------------------------------------------------------
(*****************************************************************************)
(* Messages that are answered.                                               *)
(*****************************************************************************)

Contents(files) == {files[i] : i \in DOMAIN files}

\* The files the model was told are attached, each in its last version.
LastFiles(m) == {<<n, promised[m][n]>> : n \in {k \in OutgoingName : promised[m][k] > 0}}

BotTypes ==
  /\ request \in [Message -> Phases]
  /\ iteration \in [Message -> 0 .. MaxIterations + 1]
  /\ offered \in [Message -> SUBSET PluginTool]
  /\ outbox \in [Message -> Seq(File)]
  /\ answer \in [Message -> SUBSET (AnswerPart \cup {"skip"})]
  /\ prompts \in [Message -> {"none", "queued", "posted", "failed"}]
  /\ screenshot = {} \/ \E s \in Capture : screenshot = {s}
  /\ listed \in SUBSET PluginTool
  /\ background \in SUBSET Work
  /\ botClosing \in BOOLEAN /\ botDrained \in BOOLEAN
  /\ botFaults \in 0 .. MaxBotFaults
  /\ said \in [Message -> SUBSET Seen]
  /\ excused \in SUBSET Message
  /\ promised \in [Message -> [OutgoingName -> 0 .. MaxIterations + 1]]
  /\ uploaded \in [Message -> SUBSET File]
  /\ delivered \in SUBSET [shot : Capture, to : Message]

BeforeReply == {"new", "asking", "calling", "forced", "answered", "replying"}

\* One message: its files, as the model knows them, as they wait and as they were
\* uploaded, and what its author has seen or is still to see.
MessageInv(m) ==
  /\ request[m] \in {"new", "asking", "calling"} => iteration[m] <= MaxIterations
  /\ \A n \in OutgoingName : promised[m][n] <= iteration[m]
  /\ Len(outbox[m]) <= MaxOutgoing
  /\ request[m] = "done" => prompts[m] # "queued"
  /\ uploaded[m] \cup Contents(outbox[m]) \subseteq LastFiles(m)
  /\ request[m] \in BeforeReply => uploaded[m] = {} /\ Contents(outbox[m]) = LastFiles(m)
  /\ request[m] = "uploading" =>
       /\ \/ LastFiles(m) \subseteq uploaded[m] \cup Contents(outbox[m])
          \/ "trouble" \in said[m] \/ m \in excused
       /\ said[m] # {} \/ m \in excused \/ outbox[m] # <<>> \/ "react" \in answer[m]
  /\ request[m] \in {"after", "done"} =>
       /\ LastFiles(m) \subseteq uploaded[m] \/ "trouble" \in said[m] \/ Skipped(m) \/ m \in excused
       /\ said[m] # {} \/ m \in excused \/ Skipped(m) \/ For("react", m) \in background

\* A capture is in one place: kept for whoever answers next, in one work, or
\* posted to one message.
CapturesInv ==
  /\ \A s \in screenshot :
       /\ s.at < iteration[s.by]
       /\ \A w \in background : s \notin w.shot
       /\ \A d \in delivered : d.shot # s
  /\ \A w \in background : \A s \in w.shot :
       /\ s.at < iteration[s.by]
       /\ \A v \in background : s \in v.shot => v = w
       /\ \A d \in delivered : d.shot # s
  /\ \A d \in delivered : d.shot.at < iteration[d.shot.by]
  /\ \A d, e \in delivered : d.shot = e.shot => d = e

DrainInv == botDrained => botClosing /\ background = {}

BotInv == BotTypes /\ (\A m \in Message : MessageInv(m)) /\ CapturesInv /\ DrainInv

-----------------------------------------------------------------------------
(* The files of a reply. *)

LEMMA AddedFile ==
  ASSUME NEW files \in Seq(File), NEW f \in File, Len(files) <= MaxOutgoing
  PROVE  /\ Add(files, f) \in Seq(File)
         /\ Len(Add(files, f)) <= MaxOutgoing
         /\ f[1] \in Names(files) \/ Len(files) < MaxOutgoing =>
              Contents(Add(files, f)) = {g \in Contents(files) : g[1] # f[1]} \cup {f}
         /\ ~ (f[1] \in Names(files) \/ Len(files) < MaxOutgoing) => Add(files, f) = files
<1>0. Len(files) \in Nat /\ MaxOutgoing \in Nat /\ DOMAIN files = 1 .. Len(files)
  BY BotAssumption
<1>1. CASE f[1] \in Names(files)
  <2> DEFINE new == [i \in DOMAIN files |-> IF files[i][1] = f[1] THEN f ELSE files[i]]
  <2>1. Add(files, f) = new
    BY <1>1 DEF Add
  <2>2. new \in Seq(File) /\ Len(new) = Len(files) /\ DOMAIN new = DOMAIN files
    BY <1>0
  <2>3. PICK i \in DOMAIN files : files[i][1] = f[1]
    BY <1>1 DEF Names
  <2>4. Contents(new) = {g \in Contents(files) : g[1] # f[1]} \cup {f}
    <3>1. \A k \in DOMAIN files : new[k] = IF files[k][1] = f[1] THEN f ELSE files[k]
      OBVIOUS
    <3> HIDE DEF new
    <3>2. ASSUME NEW k \in DOMAIN new
          PROVE  new[k] \in {g \in Contents(files) : g[1] # f[1]} \cup {f}
      BY <2>2, <3>1 DEF Contents
    <3>3. f \in Contents(new)
      BY <2>2, <2>3, <3>1 DEF Contents
    <3>4. ASSUME NEW k \in DOMAIN files, files[k][1] # f[1]
          PROVE  files[k] \in Contents(new)
      BY <2>2, <3>1, <3>4 DEF Contents
    <3> QED
      BY <3>2, <3>3, <3>4 DEF Contents
  <2> HIDE DEF new
  <2> QED
    BY <1>0, <1>1, <2>1, <2>2, <2>4
<1>2. CASE f[1] \notin Names(files) /\ Len(files) < MaxOutgoing
  <2>1. Add(files, f) = Append(files, f)
    BY <1>2 DEF Add
  <2>2. /\ Append(files, f) \in Seq(File) /\ Len(Append(files, f)) = Len(files) + 1
        /\ \A i \in 1 .. Len(files) : Append(files, f)[i] = files[i]
        /\ Append(files, f)[Len(files) + 1] = f
    BY AppendProperties
  <2> DEFINE new == Append(files, f)
  <2>3. /\ new \in Seq(File) /\ Len(new) = Len(files) + 1 /\ DOMAIN new = 1 .. Len(files) + 1
        /\ \A i \in 1 .. Len(files) : new[i] = files[i]
        /\ new[Len(files) + 1] = f
    BY <1>0, <2>2
  <2> HIDE DEF new
  <2>4. Contents(new) = Contents(files) \cup {f}
    <3>1. ASSUME NEW k \in DOMAIN new  PROVE new[k] \in Contents(files) \cup {f}
      BY <1>0, <2>3 DEF Contents
    <3>2. ASSUME NEW k \in DOMAIN files  PROVE files[k] \in Contents(new)
      <4>1. k \in DOMAIN new /\ new[k] = files[k]
        BY <1>0, <2>3
      <4> QED
        BY <4>1 DEF Contents
    <3>3. f \in Contents(new)
      BY <1>0, <2>3 DEF Contents
    <3> QED
      BY <3>1, <3>2, <3>3 DEF Contents
  <2>5. \A g \in Contents(files) : g[1] # f[1]
    BY <1>2 DEF Contents, Names
  <2>6. Add(files, f) = new
    BY <2>1 DEF new
  <2> QED
    BY <1>0, <1>2, <2>3, <2>4, <2>5, <2>6
<1>3. CASE f[1] \notin Names(files) /\ ~ (Len(files) < MaxOutgoing)
  BY <1>3 DEF Add
<1> QED
  BY <1>1, <1>2, <1>3

LEMMA FirstFile ==
  ASSUME NEW files \in Seq(File), files # <<>>
  PROVE  /\ Head(files) \in File /\ Tail(files) \in Seq(File)
         /\ Len(Tail(files)) <= Len(files)
         /\ Contents(files) = {Head(files)} \cup Contents(Tail(files))
<1>1. /\ Head(files) \in File /\ Tail(files) \in Seq(File) /\ Len(Tail(files)) = Len(files) - 1
      /\ \A i \in 1 .. Len(Tail(files)) : Tail(files)[i] = files[i + 1]
  BY HeadTailProperties
<1>2. Len(files) \in Nat /\ Len(files) # 0 /\ Head(files) = files[1]
  OBVIOUS
<1> DEFINE t == Tail(files)
<1>3. /\ t \in Seq(File) /\ Len(t) = Len(files) - 1 /\ DOMAIN t = 1 .. Len(files) - 1
      /\ \A i \in 1 .. Len(files) - 1 : t[i] = files[i + 1]
  BY <1>1
<1> HIDE DEF t
<1>4. ASSUME NEW k \in DOMAIN files  PROVE files[k] \in {Head(files)} \cup Contents(t)
  <2>1. CASE k = 1
    BY <1>2, <2>1
  <2>2. CASE k # 1
    <3>1. k - 1 \in 1 .. Len(files) - 1 /\ (k - 1) + 1 = k
      BY <1>2, <2>2
    <3>2. t[k - 1] = files[k]
      BY <1>3, <3>1
    <3> QED
      BY <1>3, <3>1, <3>2 DEF Contents
  <2> QED
    BY <2>1, <2>2
<1>5. ASSUME NEW k \in DOMAIN t  PROVE t[k] \in Contents(files)
  <2>1. k + 1 \in DOMAIN files /\ t[k] = files[k + 1]
    BY <1>2, <1>3
  <2> QED
    BY <2>1 DEF Contents
<1>6. Head(files) \in Contents(files)
  BY <1>2 DEF Contents
<1>7. Contents(files) = {Head(files)} \cup Contents(t)
  BY <1>4, <1>5, <1>6 DEF Contents
<1> QED
  BY <1>1, <1>2, <1>7 DEF t

-----------------------------------------------------------------------------
(* Messages that a step leaves alone, and captures that stay where they are. *)

LEMMA MessageStays ==
  ASSUME NEW k, MessageInv(k),
         request'[k] = request[k], iteration'[k] = iteration[k], outbox'[k] = outbox[k],
         answer'[k] = answer[k], prompts'[k] = prompts[k], promised'[k] = promised[k],
         uploaded'[k] = uploaded[k], said[k] \subseteq said'[k], excused \subseteq excused',
         For("react", k) \in background =>
           For("react", k) \in background' \/ said'[k] # {} \/ k \in excused'
  PROVE  MessageInv(k)'
<1> DEFINE react == For("react", k)
<1>1. react' = react
  BY DEF For
<1>2. Skipped(k)' = Skipped(k) /\ LastFiles(k)' = LastFiles(k)
  BY DEF Skipped, LastFiles
<1>3. Contents(outbox[k])' = Contents(outbox[k])
  BY DEF Contents
<1> HIDE DEF react
<1> QED
  BY <1>1, <1>2, <1>3 DEF MessageInv, react

LEMMA CapturesStay ==
  ASSUME BotTypes, CapturesInv, UNCHANGED delivered, screenshot' \subseteq screenshot,
         \A m \in Message : iteration[m] <= iteration'[m],
         iteration' \in [Message -> 0 .. MaxIterations + 1],
         \A w \in background' : w \in background \/ w.shot = {}
  PROVE  CapturesInv'
<1>0. MaxIterations \in Nat
  BY BotAssumption
<1>1. \A s \in Capture : s.by \in Message /\ s.at \in Nat
  BY <1>0 DEF Capture
<1>2. ASSUME NEW s \in Capture, s.at < iteration[s.by]  PROVE s.at < iteration'[s.by]
  <2>1. iteration[s.by] \in Nat /\ iteration'[s.by] \in Nat /\ iteration[s.by] <= iteration'[s.by]
    BY <1>0, <1>1 DEF BotTypes
  <2> QED
    BY <1>1, <1>2, <2>1
<1>3. \A s \in screenshot : s \in Capture
  BY DEF BotTypes
<1>4. \A w \in background : w.shot \in SUBSET Capture
  BY DEF BotTypes, Work
<1>5. \A d \in delivered : d.shot \in Capture
  BY DEF BotTypes
<1>6. \A s \in screenshot' :
        /\ s.at < iteration'[s.by]
        /\ \A w \in background' : s \notin w.shot
        /\ \A d \in delivered' : d.shot # s
  BY <1>2, <1>3 DEF CapturesInv
<1>7. \A w \in background' : \A s \in w.shot :
        /\ s.at < iteration'[s.by]
        /\ \A v \in background' : s \in v.shot => v = w
        /\ \A d \in delivered' : d.shot # s
  BY <1>2, <1>4 DEF CapturesInv
<1>8. /\ \A d \in delivered' : d.shot.at < iteration'[d.shot.by]
      /\ \A d, e \in delivered' : d.shot = e.shot => d = e
  BY <1>2, <1>5 DEF CapturesInv
<1> QED
  BY <1>6, <1>7, <1>8 DEF CapturesInv

LEMMA BotFaultCounts == ASSUME BotTypes, BotFault PROVE botFaults' \in 0 .. MaxBotFaults
BY BotAssumption DEF BotTypes, BotFault

LEMMA TellFacts ==
  ASSUME BotTypes, NEW m \in Message, NEW kind \in Seen, Tell(m, kind)
  PROVE  /\ said' \in [Message -> SUBSET Seen] /\ excused' \in SUBSET Message
         /\ botFaults' \in 0 .. MaxBotFaults
         /\ \A k \in Message : said[k] \subseteq said'[k]
         /\ excused \subseteq excused'
         /\ kind \in said'[m] \/ m \in excused'
<1>0. said \in [Message -> SUBSET Seen] /\ excused \in SUBSET Message
      /\ botFaults \in 0 .. MaxBotFaults
  BY DEF BotTypes
<1>1. CASE said' = [said EXCEPT ![m] = @ \cup {kind}] /\ UNCHANGED <<excused, botFaults>>
  BY <1>0, <1>1
<1>2. CASE BotFault /\ excused' = excused \cup {m} /\ UNCHANGED said
  BY <1>0, <1>2, BotFaultCounts
<1> QED
  BY <1>1, <1>2 DEF Tell

LEMMA BotInitInv == BotInit => BotInv
<1> SUFFICES ASSUME BotInit  PROVE BotInv
  OBVIOUS
<1>1. BotTypes
  <2>0. /\ 0 \in 0 .. MaxIterations + 1 /\ 0 \in 0 .. MaxBotFaults
        /\ "new" \in Phases /\ <<>> \in Seq(File)
    BY BotAssumption DEF Phases
  <2>1. /\ request \in [Message -> Phases] /\ iteration \in [Message -> 0 .. MaxIterations + 1]
        /\ outbox \in [Message -> Seq(File)]
        /\ promised \in [Message -> [OutgoingName -> 0 .. MaxIterations + 1]]
    BY <2>0 DEF BotInit
  <2>2. /\ offered \in [Message -> SUBSET PluginTool]
        /\ answer \in [Message -> SUBSET (AnswerPart \cup {"skip"})]
        /\ prompts \in [Message -> {"none", "queued", "posted", "failed"}]
        /\ said \in [Message -> SUBSET Seen] /\ uploaded \in [Message -> SUBSET File]
    BY DEF BotInit
  <2>3. /\ screenshot = {} /\ listed \in SUBSET PluginTool /\ background \in SUBSET Work
        /\ botClosing \in BOOLEAN /\ botDrained \in BOOLEAN /\ excused \in SUBSET Message
        /\ botFaults \in 0 .. MaxBotFaults /\ delivered \in SUBSET [shot : Capture, to : Message]
    BY <2>0 DEF BotInit
  <2> QED
    BY <2>1, <2>2, <2>3 DEF BotTypes
<1>2. ASSUME NEW m \in Message  PROVE MessageInv(m)
  <2>1. /\ request[m] = "new" /\ iteration[m] = 0 /\ outbox[m] = <<>> /\ uploaded[m] = {}
        /\ prompts[m] = "none" /\ \A n \in OutgoingName : promised[m][n] = 0
    BY DEF BotInit
  <2>2. Contents(outbox[m]) = {} /\ LastFiles(m) = {} /\ Len(outbox[m]) = 0
    BY <2>1 DEF Contents, LastFiles
  <2> QED
    BY <2>1, <2>2, BotAssumption DEF MessageInv
<1>3. CapturesInv /\ DrainInv
  BY DEF BotInit, CapturesInv, DrainInv
<1> QED
  BY <1>1, <1>2, <1>3 DEF BotInv

-----------------------------------------------------------------------------
(* The loop of model calls. *)

LEMMA ReceiveKeeps ==
  ASSUME BotInv, NEW m \in Message, Receive(m)  PROVE BotInv'
<1>0. BotTypes /\ (\A k \in Message : MessageInv(k)) /\ CapturesInv /\ DrainInv
  BY DEF BotInv
<1>1. BotTypes'
  BY <1>0 DEF BotTypes, Receive, GenerateRequest, botShared, botGhosts, Phases
<1>2. ASSUME NEW k \in Message  PROVE MessageInv(k)'
  <2>0. MessageInv(k)
    BY <1>0
  <2>1. CASE k # m
    <3>1. request'[k] = request[k]
      BY <1>0, <2>1 DEF Receive, BotTypes
    <3> QED
      BY <2>0, <3>1, MessageStays DEF Receive, botShared, botGhosts
  <2>2. CASE k = m
    <3>1. request[m] = "new" /\ request'[m] = "asking"
      BY <1>0 DEF Receive, BotTypes
    <3>2. LastFiles(m)' = LastFiles(m) /\ Contents(outbox[m])' = Contents(outbox[m])
      BY DEF Receive, botShared, botGhosts, LastFiles, Contents
    <3> QED
      BY <2>0, <2>2, <3>1, <3>2 DEF MessageInv, BeforeReply, Receive, botShared, botGhosts
  <2> QED
    BY <2>1, <2>2
<1>3. CapturesInv'
  BY <1>0, <1>1, CapturesStay DEF Receive, botShared, botGhosts, BotTypes
<1> QED
  BY <1>0, <1>1, <1>2, <1>3 DEF BotInv, DrainInv, Receive, botShared, botGhosts

LEMMA GenerateKeeps ==
  ASSUME BotInv, NEW m \in Message, Generate(m)  PROVE BotInv'
<1>0. BotTypes /\ (\A k \in Message : MessageInv(k)) /\ CapturesInv /\ DrainInv
  BY DEF BotInv
<1>1. PICK phase \in {"calling", "answered", "after"} : request' = [request EXCEPT ![m] = phase]
  BY DEF Generate
<1>2. /\ request[m] \in {"asking", "forced"}
      /\ phase = "calling" => request[m] = "asking"
      /\ phase = "after" => Tell(m, "trouble")
      /\ phase # "after" => UNCHANGED <<said, excused, botFaults>>
  <2>1. request'[m] = phase
    BY <1>0, <1>1 DEF BotTypes
  <2> QED
    BY <1>0, <2>1 DEF Generate, BotTypes
<1>3. /\ said' \in [Message -> SUBSET Seen] /\ excused' \in SUBSET Message
      /\ botFaults' \in 0 .. MaxBotFaults
      /\ \A k \in Message : said[k] \subseteq said'[k]
      /\ excused \subseteq excused'
      /\ phase = "after" => "trouble" \in said'[m] \/ m \in excused'
  <2>1. CASE phase = "after"
    BY <1>0, <1>2, <2>1, TellFacts DEF Seen
  <2>2. CASE phase # "after"
    BY <1>0, <1>2, <2>2 DEF BotTypes
  <2> QED
    BY <2>1, <2>2
<1>4. UNCHANGED <<iteration, offered, outbox, answer, prompts, botShared, promised, uploaded, delivered>>
  BY DEF Generate
<1>5. BotTypes'
  <2>1. request' \in [Message -> Phases]
    BY <1>0, <1>1 DEF BotTypes, Phases
  <2> QED
    BY <1>0, <1>3, <1>4, <2>1 DEF BotTypes, botShared
<1>6. ASSUME NEW k \in Message  PROVE MessageInv(k)'
  <2>0. MessageInv(k)
    BY <1>0
  <2>1. CASE k # m
    <3>1. request'[k] = request[k]
      BY <1>0, <1>1, <2>1 DEF BotTypes
    <3> QED
      BY <1>3, <1>4, <2>0, <3>1, MessageStays DEF botShared
  <2>2. CASE k = m
    <3>1. request'[m] = phase
      BY <1>0, <1>1 DEF BotTypes
    <3>2. LastFiles(m)' = LastFiles(m) /\ Contents(outbox[m])' = Contents(outbox[m])
      BY <1>4 DEF LastFiles, Contents
    <3>3. /\ request'[m] = "calling" => iteration'[m] <= MaxIterations
          /\ request'[m] = "after" => "trouble" \in said'[m] \/ m \in excused'
      BY <1>2, <1>3, <1>4, <2>0, <2>2, <3>1 DEF MessageInv
    <3> QED
      BY <1>2, <1>3, <1>4, <2>0, <2>2, <3>1, <3>2, <3>3 DEF MessageInv, BeforeReply
  <2> QED
    BY <2>1, <2>2
<1>7. CapturesInv'
  BY <1>0, <1>4, <1>5, CapturesStay DEF botShared, BotTypes
<1> QED
  BY <1>0, <1>4, <1>5, <1>6, <1>7 DEF BotInv, DrainInv, botShared

\* A round of tool calls: the message's handler moves on, and another round is
\* left only where the limit allows it.
LEMMA RoundFacts ==
  ASSUME BotTypes, NEW m \in Message, NEW kind, MessageInv(m), NextRound(m, kind)
  PROVE  /\ request[m] = "calling" /\ iteration[m] \in 0 .. MaxIterations
         /\ request' \in [Message -> Phases] /\ iteration' \in [Message -> 0 .. MaxIterations + 1]
         /\ iteration'[m] = iteration[m] + 1
         /\ request'[m] \in {"forced", "asking"}
         /\ request'[m] = "asking" => iteration'[m] <= MaxIterations
         /\ \A k \in Message : k # m => request'[k] = request[k] /\ iteration'[k] = iteration[k]
         /\ \A k \in Message : iteration[k] <= iteration'[k]
<1>0. MaxIterations \in Nat
  BY BotAssumption
<1>1. request \in [Message -> Phases] /\ iteration \in [Message -> 0 .. MaxIterations + 1]
  BY DEF BotTypes
<1>2. request[m] = "calling" /\ iteration[m] \in 0 .. MaxIterations
  BY <1>0, <1>1 DEF NextRound, MessageInv
<1>3. iteration' = [iteration EXCEPT ![m] = iteration[m] + 1]
  BY DEF NextRound
<1>4. /\ iteration' \in [Message -> 0 .. MaxIterations + 1]
      /\ iteration'[m] = iteration[m] + 1
      /\ \A k \in Message : k # m => iteration'[k] = iteration[k]
  BY <1>0, <1>1, <1>2, <1>3
<1>5. \A k \in Message : iteration[k] <= iteration'[k]
  <2> SUFFICES ASSUME NEW k \in Message  PROVE iteration[k] <= iteration'[k]
    OBVIOUS
  <2>1. iteration[k] \in Int
    BY <1>0, <1>1
  <2> QED
    BY <1>2, <1>4, <2>1
<1>6. request' = [request EXCEPT ![m] = IF iteration[m] = MaxIterations THEN "forced" ELSE "asking"]
  BY DEF NextRound
<1>7. /\ request' \in [Message -> Phases]
      /\ request'[m] = IF iteration[m] = MaxIterations THEN "forced" ELSE "asking"
      /\ \A k \in Message : k # m => request'[k] = request[k]
  BY <1>1, <1>6 DEF Phases
<1> QED
  BY <1>0, <1>2, <1>4, <1>5, <1>7

\* A round that leaves the files alone.
LEMMA RoundKeepsMessages ==
  ASSUME BotTypes, \A k \in Message : MessageInv(k), NEW m \in Message, NEW kind, NextRound(m, kind),
         UNCHANGED <<outbox, answer, background, excused, said, promised, uploaded>>,
         \A k \in Message : k # m => prompts'[k] = prompts[k]
  PROVE  \A k \in Message : MessageInv(k)'
<1> SUFFICES ASSUME NEW k \in Message  PROVE MessageInv(k)'
  OBVIOUS
<1>0. MessageInv(k)
  OBVIOUS
<1>1. /\ request[m] = "calling" /\ iteration[m] \in 0 .. MaxIterations
      /\ iteration'[m] = iteration[m] + 1
      /\ request'[m] \in {"forced", "asking"}
      /\ request'[m] = "asking" => iteration'[m] <= MaxIterations
      /\ k # m => request'[k] = request[k] /\ iteration'[k] = iteration[k]
  BY RoundFacts
<1>2. CASE k # m
  BY <1>0, <1>1, <1>2, MessageStays
<1>3. CASE k = m
  <2>1. LastFiles(m)' = LastFiles(m) /\ Contents(outbox[m])' = Contents(outbox[m])
    BY DEF LastFiles, Contents
  <2>2. \A n \in OutgoingName : promised'[m][n] <= iteration'[m]
    <3> SUFFICES ASSUME NEW n \in OutgoingName  PROVE promised'[m][n] <= iteration'[m]
      OBVIOUS
    <3>1. promised[m][n] \in Int /\ promised[m][n] <= iteration[m]
      BY <1>0, <1>3, BotAssumption DEF MessageInv, BotTypes
    <3> QED
      BY <1>1, <3>1
  <2> QED
    BY <1>0, <1>1, <1>3, <2>1, <2>2 DEF MessageInv, BeforeReply
<1> QED
  BY <1>2, <1>3

LEMMA CallBuiltInKeeps ==
  ASSUME BotInv, NEW m \in Message, CallBuiltIn(m)  PROVE BotInv'
<1>0. BotTypes /\ (\A k \in Message : MessageInv(k)) /\ CapturesInv /\ DrainInv
  BY DEF BotInv
<1>1. NextRound(m, "built_in")
      /\ UNCHANGED <<offered, outbox, answer, prompts, botShared, botFaults, said, excused, promised,
                     uploaded, delivered>>
  BY DEF CallBuiltIn
<1>2. /\ request' \in [Message -> Phases] /\ iteration' \in [Message -> 0 .. MaxIterations + 1]
      /\ \A k \in Message : iteration[k] <= iteration'[k]
  BY <1>0, <1>1, RoundFacts
<1>3. BotTypes'
  BY <1>0, <1>1, <1>2 DEF BotTypes, botShared
<1>4. \A k \in Message : MessageInv(k)'
  BY <1>0, <1>1, RoundKeepsMessages DEF botShared
<1>5. CapturesInv'
  BY <1>0, <1>1, <1>2, CapturesStay DEF botShared
<1> QED
  BY <1>0, <1>1, <1>3, <1>4, <1>5 DEF BotInv, DrainInv, botShared

LEMMA CallPluginKeeps ==
  ASSUME BotInv, NEW m \in Message, CallPlugin(m)  PROVE BotInv'
<1>0. BotTypes /\ (\A k \in Message : MessageInv(k)) /\ CapturesInv /\ DrainInv
  BY DEF BotInv
<1>1. NextRound(m, "plugin")
      /\ (prompts' = [prompts EXCEPT ![m] = "queued"] \/ UNCHANGED prompts)
      /\ UNCHANGED <<offered, outbox, answer, botShared, botFaults, botGhosts>>
  BY DEF CallPlugin
<1>2. /\ request' \in [Message -> Phases] /\ iteration' \in [Message -> 0 .. MaxIterations + 1]
      /\ \A k \in Message : iteration[k] <= iteration'[k]
  BY <1>0, <1>1, RoundFacts
<1>3. /\ prompts' \in [Message -> {"none", "queued", "posted", "failed"}]
      /\ \A k \in Message : k # m => prompts'[k] = prompts[k]
  BY <1>0, <1>1 DEF BotTypes
<1>4. BotTypes'
  BY <1>0, <1>1, <1>2, <1>3 DEF BotTypes, botShared, botGhosts
<1>5. \A k \in Message : MessageInv(k)'
  BY <1>0, <1>1, <1>3, RoundKeepsMessages DEF botShared, botGhosts
<1>6. CapturesInv'
  BY <1>0, <1>1, <1>2, CapturesStay DEF botShared, botGhosts
<1> QED
  BY <1>0, <1>1, <1>4, <1>5, <1>6 DEF BotInv, DrainInv, botShared

\* The new capture is of this round of this message: no earlier one is.
LEMMA ScreenshotURLKeeps ==
  ASSUME BotInv, NEW m \in Message, ScreenshotURL(m)  PROVE BotInv'
<1>0. BotTypes /\ (\A k \in Message : MessageInv(k)) /\ CapturesInv /\ DrainInv
  BY DEF BotInv
<1> DEFINE new == [by |-> m, at |-> iteration[m]]
<1>1. NextRound(m, "screenshot_url") /\ screenshot' = {new}
      /\ UNCHANGED <<offered, outbox, answer, prompts, listed, background, botClosing, botDrained,
                     botFaults, botGhosts>>
  BY DEF ScreenshotURL
<1>2. /\ iteration[m] \in 0 .. MaxIterations
      /\ request' \in [Message -> Phases] /\ iteration' \in [Message -> 0 .. MaxIterations + 1]
      /\ iteration'[m] = iteration[m] + 1
      /\ \A k \in Message : iteration[k] <= iteration'[k]
  BY <1>0, <1>1, RoundFacts
<1>3. new \in Capture /\ new.by = m /\ new.at = iteration[m]
  BY <1>2 DEF Capture
<1>4. \A s \in Capture : s.by \in Message /\ s.at \in Int
  BY BotAssumption DEF Capture
<1> HIDE DEF new
<1>5. BotTypes'
  BY <1>0, <1>1, <1>2, <1>3 DEF BotTypes, botGhosts
<1>6. \A k \in Message : MessageInv(k)'
  BY <1>0, <1>1, RoundKeepsMessages DEF botGhosts
<1>7. /\ \A w \in background : w.shot \in SUBSET Capture
      /\ \A d \in delivered : d.shot \in Capture
  BY <1>0 DEF BotTypes, Work
<1>8. \A s \in Capture : s.at < iteration[s.by] => s # new /\ s.at < iteration'[s.by]
  <2> SUFFICES ASSUME NEW s \in Capture, s.at < iteration[s.by]
               PROVE  s # new /\ s.at < iteration'[s.by]
    OBVIOUS
  <2>1. /\ s.by \in Message /\ s.at \in Int /\ iteration[s.by] \in Int /\ iteration'[s.by] \in Int
        /\ iteration[s.by] <= iteration'[s.by]
    BY <1>0, <1>2, <1>4, BotAssumption DEF BotTypes
  <2> QED
    BY <1>3, <2>1
<1>9. CapturesInv'
  <2>1. \A s \in screenshot' :
          /\ s.at < iteration'[s.by]
          /\ \A w \in background' : s \notin w.shot
          /\ \A d \in delivered' : d.shot # s
    BY <1>0, <1>1, <1>2, <1>3, <1>7, <1>8 DEF CapturesInv, botGhosts
  <2>2. \A w \in background' : \A s \in w.shot :
          /\ s.at < iteration'[s.by]
          /\ \A v \in background' : s \in v.shot => v = w
          /\ \A d \in delivered' : d.shot # s
    BY <1>0, <1>1, <1>7, <1>8 DEF CapturesInv, botGhosts
  <2>3. /\ \A d \in delivered' : d.shot.at < iteration'[d.shot.by]
        /\ \A d, e \in delivered' : d.shot = e.shot => d = e
    BY <1>0, <1>1, <1>7, <1>8 DEF CapturesInv, botGhosts
  <2> QED
    BY <2>1, <2>2, <2>3 DEF CapturesInv
<1> QED
  BY <1>0, <1>1, <1>5, <1>6, <1>9 DEF BotInv, DrainInv, botGhosts

\* A file that is taken becomes the last version of its name.
LEMMA AttachFileKeeps ==
  ASSUME BotInv, NEW m \in Message, AttachFile(m)  PROVE BotInv'
<1>0. BotTypes /\ (\A k \in Message : MessageInv(k)) /\ CapturesInv /\ DrainInv
  BY DEF BotInv
<1>a. MaxIterations \in Nat
  BY BotAssumption
<1>1. NextRound(m, "attach_file")
      /\ UNCHANGED <<offered, answer, prompts, botShared, botFaults, said, excused, uploaded, delivered>>
  BY DEF AttachFile
<1>2. /\ request[m] = "calling" /\ iteration[m] \in 0 .. MaxIterations
      /\ request' \in [Message -> Phases] /\ iteration' \in [Message -> 0 .. MaxIterations + 1]
      /\ iteration'[m] = iteration[m] + 1
      /\ request'[m] \in {"forced", "asking"}
      /\ request'[m] = "asking" => iteration'[m] <= MaxIterations
      /\ \A k \in Message : k # m => request'[k] = request[k] /\ iteration'[k] = iteration[k]
      /\ \A k \in Message : iteration[k] <= iteration'[k]
  BY <1>0, <1>1, RoundFacts
<1>3. PICK n \in OutgoingName :
        LET f == <<n, promised[m][n] + 1>> IN
        /\ outbox' = [outbox EXCEPT ![m] = Add(outbox[m], f)]
        /\ promised' = IF n \in Names(outbox[m]) \/ Len(outbox[m]) < MaxOutgoing
                       THEN [promised EXCEPT ![m][n] = f[2]] ELSE promised
  BY DEF AttachFile
<1> DEFINE f == <<n, promised[m][n] + 1>>
           taken == n \in Names(outbox[m]) \/ Len(outbox[m]) < MaxOutgoing
<1>4. /\ outbox' = [outbox EXCEPT ![m] = Add(outbox[m], f)]
      /\ promised' = IF taken THEN [promised EXCEPT ![m][n] = promised[m][n] + 1] ELSE promised
  BY <1>3
<1>5. /\ promised \in [Message -> [OutgoingName -> 0 .. MaxIterations + 1]]
      /\ outbox \in [Message -> Seq(File)]
      /\ \A k \in OutgoingName : promised[m][k] \in Nat /\ promised[m][k] <= iteration[m]
      /\ Len(outbox[m]) <= MaxOutgoing
      /\ uploaded[m] = {} /\ Contents(outbox[m]) = LastFiles(m)
  BY <1>0, <1>a, <1>2 DEF BotTypes, MessageInv, BeforeReply
<1>6. promised[m][n] + 1 \in 1 .. MaxIterations + 1 /\ promised[m][n] + 1 <= iteration'[m]
  BY <1>a, <1>2, <1>5
<1>7. f \in File /\ f[1] = n /\ f[2] = promised[m][n] + 1
  BY <1>6 DEF File
<1>8. /\ Add(outbox[m], f) \in Seq(File) /\ Len(Add(outbox[m], f)) <= MaxOutgoing
      /\ taken => Contents(Add(outbox[m], f)) = {g \in Contents(outbox[m]) : g[1] # n} \cup {f}
      /\ ~ taken => Add(outbox[m], f) = outbox[m]
  <2>1. outbox[m] \in Seq(File)
    BY <1>5
  <2> HIDE DEF f
  <2> QED
    BY <1>5, <1>7, <2>1, AddedFile
<1>9. /\ outbox' \in [Message -> Seq(File)] /\ outbox'[m] = Add(outbox[m], f)
      /\ \A k \in Message : k # m => outbox'[k] = outbox[k]
  <2> HIDE DEF f
  <2> QED
    BY <1>4, <1>5, <1>8
<1>10. /\ promised' \in [Message -> [OutgoingName -> 0 .. MaxIterations + 1]]
       /\ \A k \in Message : k # m => promised'[k] = promised[k]
       /\ \A k \in OutgoingName : k # n => promised'[m][k] = promised[m][k]
       /\ promised'[m][n] = IF taken THEN promised[m][n] + 1 ELSE promised[m][n]
  <2>1. CASE taken
    <3>1. promised' = [promised EXCEPT ![m][n] = promised[m][n] + 1]
      BY <1>4, <2>1
    <3>2. promised[m][n] + 1 \in 0 .. MaxIterations + 1
      BY <1>6
    <3> HIDE DEF taken
    <3> QED
      BY <1>5, <2>1, <3>1, <3>2
  <2>2. CASE ~ taken
    BY <1>4, <1>5, <2>2
  <2> QED
    BY <2>1, <2>2
<1>11. BotTypes'
  BY <1>0, <1>1, <1>2, <1>9, <1>10 DEF BotTypes, botShared
<1>12. Contents(outbox'[m]) = LastFiles(m)'
  <2>1. \A g \in File : g = <<g[1], g[2]>>
    BY DEF File
  <2>2. CASE taken
    <3>1. Contents(outbox'[m]) = {g \in LastFiles(m) : g[1] # n} \cup {f}
      BY <1>5, <1>8, <1>9, <2>2
    <3>2. promised'[m][n] = promised[m][n] + 1 /\ promised'[m][n] > 0
      BY <1>5, <1>10, <2>2
    <3>3. LastFiles(m) = {<<k, promised[m][k]>> : k \in {j \in OutgoingName : promised[m][j] > 0}}
      BY DEF LastFiles
    <3>4. LastFiles(m)' = {<<k, promised'[m][k]>> : k \in {j \in OutgoingName : promised'[m][j] > 0}}
      BY DEF LastFiles
    <3>5. ASSUME NEW k \in OutgoingName, promised'[m][k] > 0
          PROVE  <<k, promised'[m][k]>> \in {g \in LastFiles(m) : g[1] # n} \cup {f}
      <4>1. CASE k = n
        BY <3>2, <4>1
      <4>2. CASE k # n
        <5>1. promised'[m][k] = promised[m][k]
          BY <1>10, <4>2
        <5> QED
          BY <3>3, <3>5, <4>2, <5>1
      <4> QED
        BY <4>1, <4>2
    <3>6. ASSUME NEW g \in LastFiles(m), g[1] # n  PROVE g \in LastFiles(m)'
      <4>1. PICK k \in OutgoingName : promised[m][k] > 0 /\ g = <<k, promised[m][k]>>
        BY <3>3
      <4>2. k # n /\ promised'[m][k] = promised[m][k]
        BY <1>10, <3>6, <4>1
      <4> QED
        BY <3>4, <4>1, <4>2
    <3>7. f \in LastFiles(m)'
      BY <3>2, <3>4
    <3>8. ASSUME NEW g \in LastFiles(m)'  PROVE g \in {h \in LastFiles(m) : h[1] # n} \cup {f}
      <4>1. PICK k \in OutgoingName : promised'[m][k] > 0 /\ g = <<k, promised'[m][k]>>
        BY <3>4
      <4> QED
        BY <3>5, <4>1
    <3> HIDE DEF f, taken
    <3> QED
      BY <3>1, <3>6, <3>7, <3>8
  <2>3. CASE ~ taken
    <3>1. promised' = promised /\ outbox'[m] = outbox[m]
      BY <1>4, <1>8, <1>9, <2>3
    <3> QED
      BY <1>5, <3>1 DEF LastFiles
  <2> QED
    BY <2>2, <2>3
<1>13. \A k \in OutgoingName : promised'[m][k] <= iteration'[m]
  <2> SUFFICES ASSUME NEW k \in OutgoingName  PROVE promised'[m][k] <= iteration'[m]
    OBVIOUS
  <2>1. promised[m][k] <= iteration'[m]
    BY <1>2, <1>5
  <2> QED
    BY <1>6, <1>10, <2>1
<1> HIDE DEF f, taken
<1>14. ASSUME NEW k \in Message  PROVE MessageInv(k)'
  <2>0. MessageInv(k)
    BY <1>0
  <2>1. CASE k # m
    BY <1>1, <1>2, <1>9, <1>10, <2>0, <2>1, MessageStays DEF botShared
  <2>2. CASE k = m
    <3>1. Contents(outbox[m])' = LastFiles(m)' /\ uploaded'[m] = {} /\ Len(outbox'[m]) <= MaxOutgoing
      BY <1>1, <1>5, <1>8, <1>9, <1>12 DEF Contents
    <3> QED
      BY <1>1, <1>2, <1>13, <2>0, <2>2, <3>1 DEF MessageInv, BeforeReply
  <2> QED
    BY <2>1, <2>2
<1>15. CapturesInv'
  BY <1>0, <1>1, <1>2, CapturesStay DEF botShared
<1> QED
  BY <1>0, <1>1, <1>11, <1>14, <1>15 DEF BotInv, DrainInv, botShared

-----------------------------------------------------------------------------
(* The reply. *)

\* A capture leaves the store for one work; or nobody posts it.
LEMMA PopScreenshotKeeps ==
  ASSUME BotInv, NEW m \in Message, PopScreenshot(m)  PROVE BotInv'
<1>0. BotTypes /\ (\A k \in Message : MessageInv(k)) /\ CapturesInv /\ DrainInv
  BY DEF BotInv
<1> DEFINE work == [kind |-> "screenshot", for |-> m, shot |-> screenshot]
<1>1. /\ request[m] = "answered" /\ request' = [request EXCEPT ![m] = "replying"]
      /\ screenshot' = {}
      /\ UNCHANGED <<iteration, offered, outbox, answer, prompts, listed, botClosing, botDrained,
                     botFaults, said, promised, uploaded, delivered>>
  BY DEF PopScreenshot
<1>2. /\ background' \in {background, background \cup {work}}
      /\ background' # background => ~ botClosing
      /\ excused' \in {excused, excused \cup {m}}
  BY DEF PopScreenshot, GoTracked
<1>3. screenshot \in SUBSET Capture /\ background \in SUBSET Work /\ excused \in SUBSET Message
      /\ request \in [Message -> Phases]
  BY <1>0 DEF BotTypes
<1>4. work \in Work /\ work.shot = screenshot /\ work.kind = "screenshot"
  BY <1>3 DEF Work
<1> HIDE DEF work
<1>5. request' \in [Message -> Phases] /\ request'[m] = "replying"
      /\ \A k \in Message : k # m => request'[k] = request[k]
  BY <1>1, <1>3 DEF Phases
<1>6. background' \in SUBSET Work /\ excused' \in SUBSET Message /\ background \subseteq background'
      /\ excused \subseteq excused'
  BY <1>2, <1>3, <1>4
<1>7. BotTypes'
  BY <1>0, <1>1, <1>5, <1>6 DEF BotTypes
<1>8. ASSUME NEW k \in Message  PROVE MessageInv(k)'
  <2>0. MessageInv(k)
    BY <1>0
  <2>1. CASE k # m
    BY <1>1, <1>5, <1>6, <2>0, <2>1, MessageStays
  <2>2. CASE k = m
    <3>1. LastFiles(m)' = LastFiles(m) /\ Contents(outbox[m])' = Contents(outbox[m])
      BY <1>1 DEF LastFiles, Contents
    <3> QED
      BY <1>1, <1>5, <2>0, <2>2, <3>1 DEF MessageInv, BeforeReply
  <2> QED
    BY <2>1, <2>2
<1>9. CapturesInv'
  <2>1. \A w \in background' : w \in background \/ w = work
    BY <1>2
  <2>2. \A w \in background' : \A s \in w.shot :
          /\ s.at < iteration'[s.by]
          /\ \A v \in background' : s \in v.shot => v = w
          /\ \A d \in delivered' : d.shot # s
    <3> SUFFICES ASSUME NEW w \in background', NEW s \in w.shot
                 PROVE  /\ s.at < iteration[s.by]
                        /\ \A v \in background' : s \in v.shot => v = w
                        /\ \A d \in delivered : d.shot # s
      BY <1>1
    <3>1. CASE w \in background
      <4>1. s \notin screenshot
        BY <1>0, <3>1 DEF CapturesInv
      <4> QED
        BY <1>0, <1>4, <2>1, <3>1, <4>1 DEF CapturesInv
    <3>2. CASE w = work
      <4>1. s \in screenshot
        BY <1>4, <3>2
      <4> QED
        BY <1>0, <2>1, <3>2, <4>1 DEF CapturesInv
    <3> QED
      BY <2>1, <3>1, <3>2
  <2> QED
    BY <1>0, <1>1, <2>2 DEF CapturesInv
<1>10. DrainInv'
  BY <1>0, <1>1, <1>2 DEF DrainInv
<1> QED
  BY <1>7, <1>8, <1>9, <1>10 DEF BotInv

\* Whatever the last answer is made of, it is posted or something else will speak.
LEMMA ReplyKeeps ==
  ASSUME BotInv, NEW m \in Message, Reply(m)  PROVE BotInv'
<1>0. BotTypes /\ (\A k \in Message : MessageInv(k)) /\ CapturesInv /\ DrainInv
  BY DEF BotInv
<1>1. /\ request[m] = "replying"
      /\ UNCHANGED <<iteration, offered, outbox, prompts, screenshot, listed, botClosing,
                     botDrained, promised, uploaded, delivered>>
  BY DEF Reply
<1>2. PICK parts \in MayAnswer[m] :
        /\ answer' = [answer EXCEPT ![m] = parts]
        /\ IF m \in Skippable /\ parts = {"skip"}
           THEN /\ request' = [request EXCEPT ![m] = "after"]
                /\ UNCHANGED <<background, said, excused, botFaults>>
           ELSE /\ request' = [request EXCEPT ![m] = "uploading"]
                /\ background' = IF "learn" \in parts /\ ~ botClosing
                                 THEN background \cup {For("learn", m)} ELSE background
                /\ IF "text" \in parts THEN Tell(m, "answer")
                   ELSE IF NeedsFallback(parts, outbox[m]) THEN Tell(m, "answer")
                   ELSE UNCHANGED <<said, excused, botFaults>>
  BY DEF Reply
<1> DEFINE skip == m \in Skippable /\ parts = {"skip"}
           learn == For("learn", m)
<1>3. parts \in SUBSET (AnswerPart \cup {"skip"})
  <2>1. MayAnswer[m] \subseteq (SUBSET AnswerPart) \cup {{"skip"}}
    BY BotAssumption
  <2>2. parts \subseteq AnswerPart \/ parts = {"skip"}
    BY <2>1
  <2> QED
    BY <2>2
<1>4. learn \in Work /\ learn.shot = {}
  BY DEF For, Work
<1>5. /\ answer' \in [Message -> SUBSET (AnswerPart \cup {"skip"})] /\ answer'[m] = parts
      /\ \A k \in Message : k # m => answer'[k] = answer[k]
  BY <1>0, <1>2, <1>3 DEF BotTypes
<1>6. /\ request' \in [Message -> Phases]
      /\ request'[m] = IF skip THEN "after" ELSE "uploading"
      /\ \A k \in Message : k # m => request'[k] = request[k]
  <2>1. request' = [request EXCEPT ![m] = IF skip THEN "after" ELSE "uploading"]
    BY <1>2
  <2>2. request \in [Message -> Phases] /\ "after" \in Phases /\ "uploading" \in Phases
    BY <1>0 DEF BotTypes, Phases
  <2> HIDE DEF skip
  <2> QED
    BY <2>1, <2>2
<1>7. /\ background' \in {background, background \cup {learn}}
      /\ background' # background => ~ botClosing
  BY <1>2
<1>8. ~ skip /\ ("text" \in parts \/ NeedsFallback(parts, outbox[m])) => Tell(m, "answer")
  BY <1>2
<1>9. ~ (~ skip /\ ("text" \in parts \/ NeedsFallback(parts, outbox[m]))) =>
        UNCHANGED <<said, excused, botFaults>>
  BY <1>2
<1> HIDE DEF skip, learn
<1>10. /\ said' \in [Message -> SUBSET Seen] /\ excused' \in SUBSET Message
       /\ botFaults' \in 0 .. MaxBotFaults
       /\ \A k \in Message : said[k] \subseteq said'[k]
       /\ excused \subseteq excused'
       /\ ~ skip /\ ("text" \in parts \/ NeedsFallback(parts, outbox[m])) =>
            "answer" \in said'[m] \/ m \in excused'
  <2>1. CASE ~ skip /\ ("text" \in parts \/ NeedsFallback(parts, outbox[m]))
    <3>1. Tell(m, "answer") /\ "answer" \in Seen
      BY <1>8, <2>1 DEF Seen
    <3> QED
      BY <1>0, <3>1, TellFacts
  <2>2. CASE ~ (~ skip /\ ("text" \in parts \/ NeedsFallback(parts, outbox[m])))
    <3>1. UNCHANGED <<said, excused, botFaults>>
      BY <1>9, <2>2
    <3> QED
      BY <1>0, <2>2, <3>1 DEF BotTypes
  <2> QED
    BY <2>1, <2>2
<1>11. background' \in SUBSET Work /\ background \subseteq background'
  BY <1>0, <1>4, <1>7 DEF BotTypes
<1>12. BotTypes'
  BY <1>0, <1>1, <1>5, <1>6, <1>10, <1>11 DEF BotTypes
<1>13. ASSUME NEW k \in Message  PROVE MessageInv(k)'
  <2>0. MessageInv(k)
    BY <1>0
  <2>1. CASE k # m
    BY <1>1, <1>5, <1>6, <1>10, <1>11, <2>0, <2>1, MessageStays
  <2>2. CASE k = m
    <3>1. LastFiles(m)' = LastFiles(m) /\ Contents(outbox[m])' = Contents(outbox[m])
          /\ Contents(outbox[m]) = LastFiles(m) /\ uploaded[m] = {}
      BY <1>0, <1>1 DEF LastFiles, Contents, MessageInv, BeforeReply
    <3>2. skip => Skipped(m)'
      BY <1>5 DEF Skipped, skip
    <3>3. ~ skip => said'[m] # {} \/ m \in excused' \/ outbox'[m] # <<>> \/ "react" \in answer'[m]
      BY <1>1, <1>5, <1>10 DEF NeedsFallback
    <3> QED
      BY <1>1, <1>6, <2>0, <2>2, <3>1, <3>2, <3>3 DEF MessageInv, BeforeReply
  <2> QED
    BY <2>1, <2>2
<1>14. CapturesInv'
  <2>1. \A w \in background' : w \in background \/ w.shot = {}
    BY <1>4, <1>7
  <2> QED
    BY <1>0, <1>1, <2>1, CapturesStay DEF BotTypes
<1>15. DrainInv'
  BY <1>0, <1>1, <1>7 DEF DrainInv
<1> QED
  BY <1>12, <1>13, <1>14, <1>15 DEF BotInv

\* A file goes out, or its failure is told, or the message is excused.
LEMMA UploadNextKeeps ==
  ASSUME BotInv, NEW m \in Message, UploadNext(m)  PROVE BotInv'
<1>0. BotTypes /\ (\A k \in Message : MessageInv(k)) /\ CapturesInv /\ DrainInv
  BY DEF BotInv
<1>1. /\ request[m] = "uploading" /\ outbox[m] # <<>>
      /\ outbox' = [outbox EXCEPT ![m] = Tail(outbox[m])]
      /\ UNCHANGED <<request, iteration, offered, answer, prompts, botShared, promised, delivered>>
  BY DEF UploadNext
<1> DEFINE f == Head(outbox[m])
<1>2. /\ outbox \in [Message -> Seq(File)] /\ uploaded \in [Message -> SUBSET File]
      /\ said \in [Message -> SUBSET Seen] /\ Len(outbox[m]) <= MaxOutgoing /\ MaxOutgoing \in Nat
  BY <1>0, BotAssumption DEF BotTypes, MessageInv
<1>3. /\ f \in File /\ Tail(outbox[m]) \in Seq(File)
      /\ Len(Tail(outbox[m])) <= Len(outbox[m])
      /\ Contents(outbox[m]) = {f} \cup Contents(Tail(outbox[m]))
  <2>1. outbox[m] \in Seq(File)
    BY <1>2
  <2> QED
    BY <1>1, <2>1, FirstFile
<1>4. \/ /\ uploaded' = [uploaded EXCEPT ![m] = uploaded[m] \cup {f}]
         /\ said' = [said EXCEPT ![m] = said[m] \cup {"answer"}]
         /\ UNCHANGED <<botFaults, excused>>
      \/ /\ BotFault
         /\ said' = [said EXCEPT ![m] = said[m] \cup {"trouble"}]
         /\ UNCHANGED <<uploaded, excused>>
      \/ /\ BotFault
         /\ excused' = excused \cup {m}
         /\ UNCHANGED <<uploaded, said>>
  BY DEF UploadNext
<1>5. /\ outbox' \in [Message -> Seq(File)] /\ outbox'[m] = Tail(outbox[m])
      /\ \A k \in Message : k # m => outbox'[k] = outbox[k]
  BY <1>1, <1>2, <1>3
<1> HIDE DEF f
<1>6. /\ uploaded' \in [Message -> SUBSET File] /\ said' \in [Message -> SUBSET Seen]
      /\ botFaults' \in 0 .. MaxBotFaults
      /\ excused \subseteq excused' /\ excused' \in SUBSET Message
      /\ \A k \in Message : k # m => uploaded'[k] = uploaded[k]
      /\ \A k \in Message : said[k] \subseteq said'[k]
      /\ said'[m] # {} \/ m \in excused'
      /\ \/ uploaded'[m] = uploaded[m] \cup {f}
         \/ uploaded'[m] = uploaded[m] /\ ("trouble" \in said'[m] \/ m \in excused')
  <2>0. excused \in SUBSET Message
    BY <1>0 DEF BotTypes
  <2>1. CASE /\ uploaded' = [uploaded EXCEPT ![m] = uploaded[m] \cup {f}]
             /\ said' = [said EXCEPT ![m] = said[m] \cup {"answer"}]
             /\ UNCHANGED <<botFaults, excused>>
    BY <1>0, <1>2, <1>3, <2>0, <2>1 DEF BotTypes, Seen
  <2>2. CASE /\ BotFault
             /\ said' = [said EXCEPT ![m] = said[m] \cup {"trouble"}]
             /\ UNCHANGED <<uploaded, excused>>
    BY <1>0, <1>2, <2>0, <2>2, BotFaultCounts DEF Seen
  <2>3. CASE /\ BotFault
             /\ excused' = excused \cup {m}
             /\ UNCHANGED <<uploaded, said>>
    BY <1>0, <1>2, <2>0, <2>3, BotFaultCounts
  <2> QED
    BY <1>4, <2>1, <2>2, <2>3
<1>7. BotTypes'
  BY <1>0, <1>1, <1>5, <1>6 DEF BotTypes, botShared
<1>8. ASSUME NEW k \in Message  PROVE MessageInv(k)'
  <2>0. MessageInv(k)
    BY <1>0
  <2>1. CASE k # m
    BY <1>1, <1>5, <1>6, <2>0, <2>1, MessageStays DEF botShared
  <2>2. CASE k = m
    <3>1. LastFiles(m)' = LastFiles(m) /\ Contents(outbox[m])' = Contents(Tail(outbox[m]))
      BY <1>1, <1>5 DEF LastFiles, Contents
    <3>2. Len(outbox'[m]) <= MaxOutgoing
      <4>1. Len(outbox[m]) \in Nat /\ Len(Tail(outbox[m])) \in Nat
        BY <1>2, <1>3
      <4> QED
        BY <1>2, <1>3, <1>5, <4>1
    <3>3. uploaded'[m] \cup Contents(outbox[m])' \subseteq LastFiles(m)'
      BY <1>3, <1>6, <2>0, <2>2, <3>1 DEF MessageInv
    <3>4. \/ LastFiles(m)' \subseteq uploaded'[m] \cup Contents(outbox[m])'
          \/ "trouble" \in said'[m] \/ m \in excused'
      BY <1>1, <1>3, <1>6, <2>0, <2>2, <3>1 DEF MessageInv
    <3> QED
      BY <1>1, <1>6, <2>0, <2>2, <3>2, <3>3, <3>4 DEF MessageInv, BeforeReply
  <2> QED
    BY <2>1, <2>2
<1>9. CapturesInv'
  BY <1>0, <1>1, CapturesStay DEF BotTypes, botShared
<1> QED
  BY <1>0, <1>1, <1>7, <1>8, <1>9 DEF BotInv, DrainInv, botShared

\* Nothing waits any more: everything was uploaded or its failure told.
LEMMA ReactKeeps ==
  ASSUME BotInv, NEW m \in Message, React(m)  PROVE BotInv'
<1>0. BotTypes /\ (\A k \in Message : MessageInv(k)) /\ CapturesInv /\ DrainInv
  BY DEF BotInv
<1> DEFINE react == For("react", m)
<1>1. /\ request[m] = "uploading" /\ outbox[m] = <<>> /\ request' = [request EXCEPT ![m] = "after"]
      /\ UNCHANGED <<iteration, offered, outbox, answer, prompts, screenshot, listed, botClosing,
                     botDrained, botFaults, said, promised, uploaded, delivered>>
  BY DEF React
<1>2. react \in Work /\ react.shot = {} /\ react.for = m
  BY DEF For, Work
<1>3. /\ background' \in {background, background \cup {react}}
      /\ excused' \in {excused, excused \cup {m}}
      /\ background' # background => ~ botClosing
      /\ "react" \in answer[m] => react \in background' \/ m \in excused'
  BY <1>2 DEF React, GoTracked
<1>4. react' = react
  BY DEF For
<1> HIDE DEF react
<1>5. /\ request' \in [Message -> Phases] /\ request'[m] = "after"
      /\ \A k \in Message : k # m => request'[k] = request[k]
  BY <1>0, <1>1 DEF BotTypes, Phases
<1>6. /\ background' \in SUBSET Work /\ excused' \in SUBSET Message
      /\ background \subseteq background' /\ excused \subseteq excused'
  BY <1>0, <1>2, <1>3 DEF BotTypes
<1>7. BotTypes'
  BY <1>0, <1>1, <1>5, <1>6 DEF BotTypes
<1>8. ASSUME NEW k \in Message  PROVE MessageInv(k)'
  <2>0. MessageInv(k)
    BY <1>0
  <2>1. CASE k # m
    BY <1>1, <1>5, <1>6, <2>0, <2>1, MessageStays
  <2>2. CASE k = m
    <3>1. LastFiles(m)' = LastFiles(m) /\ Contents(outbox[m])' = Contents(outbox[m])
          /\ Contents(outbox[m]) = {}
      BY <1>1 DEF LastFiles, Contents
    <3>2. LastFiles(m) \subseteq uploaded[m] \/ "trouble" \in said[m] \/ m \in excused
      BY <1>1, <2>0, <2>2, <3>1 DEF MessageInv
    <3>3. said[m] # {} \/ m \in excused \/ "react" \in answer[m]
      BY <1>1, <2>0, <2>2 DEF MessageInv
    <3>4. said'[m] # {} \/ m \in excused' \/ For("react", m)' \in background'
      BY <1>1, <1>3, <1>4, <1>6, <3>3 DEF react
    <3> QED
      BY <1>1, <1>5, <1>6, <2>0, <2>2, <3>1, <3>2, <3>4 DEF MessageInv, BeforeReply
  <2> QED
    BY <2>1, <2>2
<1>9. CapturesInv'
  <2>1. \A w \in background' : w \in background \/ w.shot = {}
    BY <1>2, <1>3
  <2> QED
    BY <1>0, <1>1, <2>1, CapturesStay DEF BotTypes
<1>10. DrainInv'
  BY <1>0, <1>1, <1>3 DEF DrainInv
<1> QED
  BY <1>7, <1>8, <1>9, <1>10 DEF BotInv

LEMMA AfterReplyKeeps ==
  ASSUME BotInv, NEW m \in Message, AfterReply(m)  PROVE BotInv'
<1>0. BotTypes /\ (\A k \in Message : MessageInv(k)) /\ CapturesInv /\ DrainInv
  BY DEF BotInv
<1>1. /\ request[m] = "after" /\ request' = [request EXCEPT ![m] = "done"]
      /\ \E outcome \in {"posted", "failed"} :
           prompts' = [prompts EXCEPT ![m] = IF prompts[m] = "queued" THEN outcome ELSE prompts[m]]
      /\ botFaults' = botFaults \/ BotFault
      /\ UNCHANGED <<iteration, offered, outbox, answer, botShared, botGhosts>>
  BY DEF AfterReply, PostPrompts
<1>2. /\ request' \in [Message -> Phases] /\ request'[m] = "done"
      /\ prompts' \in [Message -> {"none", "queued", "posted", "failed"}] /\ prompts'[m] # "queued"
      /\ \A k \in Message : k # m => request'[k] = request[k] /\ prompts'[k] = prompts[k]
  BY <1>0, <1>1 DEF BotTypes, Phases
<1>3. BotTypes'
  BY <1>0, <1>1, <1>2, BotFaultCounts DEF BotTypes, botShared, botGhosts
<1>4. ASSUME NEW k \in Message  PROVE MessageInv(k)'
  <2>0. MessageInv(k)
    BY <1>0
  <2>1. CASE k # m
    BY <1>1, <1>2, <2>0, <2>1, MessageStays DEF botShared, botGhosts
  <2>2. CASE k = m
    <3>1. LastFiles(m)' = LastFiles(m) /\ Contents(outbox[m])' = Contents(outbox[m])
          /\ Skipped(m)' = Skipped(m) /\ For("react", m)' = For("react", m)
      BY <1>1 DEF LastFiles, Contents, Skipped, For, botGhosts
    <3> QED
      BY <1>1, <1>2, <2>0, <2>2, <3>1 DEF MessageInv, BeforeReply, botShared, botGhosts
  <2> QED
    BY <2>1, <2>2
<1>5. CapturesInv'
  BY <1>0, <1>1, CapturesStay DEF BotTypes, botShared, botGhosts
<1> QED
  BY <1>0, <1>1, <1>3, <1>4, <1>5 DEF BotInv, DrainInv, botShared

LEMMA PanicsKeeps ==
  ASSUME BotInv, NEW m \in Message, Panics(m)  PROVE BotInv'
<1>0. BotTypes /\ (\A k \in Message : MessageInv(k)) /\ CapturesInv /\ DrainInv
  BY DEF BotInv
<1>1. /\ request[m] \in {"asking", "calling", "forced"} /\ BotFault
      /\ request' = [request EXCEPT ![m] = "done"]
      /\ \E outcome \in {"posted", "failed"} :
           prompts' = [prompts EXCEPT ![m] = IF prompts[m] = "queued" THEN outcome ELSE prompts[m]]
      /\ said' = [said EXCEPT ![m] = said[m] \cup {"trouble"}]
      /\ UNCHANGED <<iteration, offered, outbox, answer, botShared, excused, promised, uploaded, delivered>>
  BY DEF Panics, PostPrompts
<1>2. /\ request' \in [Message -> Phases] /\ request'[m] = "done"
      /\ prompts' \in [Message -> {"none", "queued", "posted", "failed"}] /\ prompts'[m] # "queued"
      /\ \A k \in Message : k # m => request'[k] = request[k] /\ prompts'[k] = prompts[k]
  BY <1>0, <1>1 DEF BotTypes, Phases
<1>3. /\ said' \in [Message -> SUBSET Seen] /\ "trouble" \in said'[m]
      /\ \A k \in Message : said[k] \subseteq said'[k]
  BY <1>0, <1>1 DEF BotTypes, Seen
<1>4. BotTypes'
  BY <1>0, <1>1, <1>2, <1>3, BotFaultCounts DEF BotTypes, botShared
<1>5. ASSUME NEW k \in Message  PROVE MessageInv(k)'
  <2>0. MessageInv(k)
    BY <1>0
  <2>1. CASE k # m
    BY <1>1, <1>2, <1>3, <2>0, <2>1, MessageStays DEF botShared
  <2>2. CASE k = m
    <3>1. LastFiles(m)' = LastFiles(m) /\ Contents(outbox[m])' = Contents(outbox[m])
      BY <1>1 DEF LastFiles, Contents
    <3> QED
      BY <1>1, <1>2, <1>3, <2>0, <2>2, <3>1 DEF MessageInv, BeforeReply
  <2> QED
    BY <2>1, <2>2
<1>6. CapturesInv'
  BY <1>0, <1>1, CapturesStay DEF BotTypes, botShared
<1> QED
  BY <1>0, <1>1, <1>4, <1>5, <1>6 DEF BotInv, DrainInv, botShared

-----------------------------------------------------------------------------
(* Work in the background, the shutdown, the plugins. *)

\* A capture that is posted was in this work alone; a reaction speaks or is excused.
LEMMA WorkEndsKeeps ==
  ASSUME BotInv, NEW w \in background, WorkEnds(w)  PROVE BotInv'
<1>0. BotTypes /\ (\A k \in Message : MessageInv(k)) /\ CapturesInv /\ DrainInv
  BY DEF BotInv
<1>1. /\ background' = background \ {w}
      /\ UNCHANGED <<request, iteration, offered, outbox, answer, prompts, screenshot, listed,
                     botClosing, botDrained, promised, uploaded>>
  BY DEF WorkEnds
<1>2. w.for \in Message /\ w.shot \in SUBSET Capture /\ w.kind \in {"screenshot", "learn", "react"}
  BY <1>0 DEF BotTypes, Work
<1> DEFINE posts == {[shot |-> s, to |-> w.for] : s \in w.shot}
<1>3. CASE w.kind = "screenshot"
  <2>1. /\ delivered' \in {delivered, delivered \cup posts}
        /\ excused' \in {excused, excused \cup {w.for}}
        /\ UNCHANGED botFaults \/ BotFault
        /\ UNCHANGED said
    BY <1>3 DEF WorkEnds
  <2>2. /\ \A d \in posts : d \in [shot : Capture, to : Message] /\ d.shot \in w.shot
        /\ \A d, e \in posts : d.shot = e.shot => d = e
    BY <1>2
  <2> HIDE DEF posts
  <2>3. botFaults' \in 0 .. MaxBotFaults
    BY <1>0, <2>1, BotFaultCounts DEF BotTypes
  <2>4. BotTypes'
    BY <1>0, <1>1, <1>2, <2>1, <2>2, <2>3 DEF BotTypes
  <2>5. ASSUME NEW k \in Message  PROVE MessageInv(k)'
    <3>1. For("react", k) \in background => For("react", k) \in background'
      BY <1>1, <1>3 DEF For
    <3> QED
      BY <1>0, <1>1, <2>1, <3>1, MessageStays
  <2>6. CapturesInv'
    <3>1. \A d \in delivered' : d \in delivered \/ (d \in posts /\ d.shot \in w.shot)
      BY <2>1, <2>2
    <3>2. \A s \in w.shot :
            /\ s.at < iteration[s.by] /\ s \notin screenshot
            /\ \A v \in background : s \in v.shot => v = w
            /\ \A d \in delivered : d.shot # s
      BY <1>0 DEF CapturesInv
    <3>3. \A s \in screenshot' :
            /\ s.at < iteration'[s.by]
            /\ \A v \in background' : s \notin v.shot
            /\ \A d \in delivered' : d.shot # s
      BY <1>0, <1>1, <3>1, <3>2 DEF CapturesInv
    <3>4. \A v \in background' : \A s \in v.shot :
            /\ s.at < iteration'[s.by]
            /\ \A u \in background' : s \in u.shot => u = v
            /\ \A d \in delivered' : d.shot # s
      BY <1>0, <1>1, <3>1, <3>2 DEF CapturesInv
    <3>5. \A d \in delivered' : d.shot.at < iteration'[d.shot.by]
      BY <1>0, <1>1, <3>1, <3>2 DEF CapturesInv
    <3>6. \A d, e \in delivered' : d.shot = e.shot => d = e
      BY <1>0, <2>2, <3>1, <3>2 DEF CapturesInv
    <3> QED
      BY <3>3, <3>4, <3>5, <3>6 DEF CapturesInv
  <2>7. DrainInv'
    BY <1>0, <1>1 DEF DrainInv
  <2> QED
    BY <2>4, <2>5, <2>6, <2>7 DEF BotInv
<1>4. CASE w.kind = "react"
  <2>1. Tell(w.for, "answer") /\ UNCHANGED delivered
    BY <1>4 DEF WorkEnds
  <2>2. /\ said' \in [Message -> SUBSET Seen] /\ excused' \in SUBSET Message
        /\ botFaults' \in 0 .. MaxBotFaults
        /\ \A k \in Message : said[k] \subseteq said'[k]
        /\ excused \subseteq excused'
        /\ "answer" \in said'[w.for] \/ w.for \in excused'
    <3>1. "answer" \in Seen
      BY DEF Seen
    <3> QED
      BY <1>0, <1>2, <2>1, <3>1, TellFacts
  <2>3. BotTypes'
    BY <1>0, <1>1, <2>1, <2>2 DEF BotTypes
  <2>4. ASSUME NEW k \in Message  PROVE MessageInv(k)'
    <3>1. For("react", k) \in background => For("react", k) \in background' \/ k = w.for
      BY <1>1 DEF For
    <3>2. For("react", k) \in background =>
            For("react", k) \in background' \/ said'[k] # {} \/ k \in excused'
      BY <2>2, <3>1
    <3> QED
      BY <1>0, <1>1, <2>1, <2>2, <3>2, MessageStays
  <2>5. CapturesInv'
    BY <1>0, <1>1, <2>1, CapturesStay DEF BotTypes
  <2>6. DrainInv'
    BY <1>0, <1>1 DEF DrainInv
  <2> QED
    BY <2>3, <2>4, <2>5, <2>6 DEF BotInv
<1>5. CASE w.kind = "learn"
  <2>1. UNCHANGED <<delivered, botFaults, excused, said>>
    BY <1>5 DEF WorkEnds
  <2>2. BotTypes'
    BY <1>0, <1>1, <2>1 DEF BotTypes
  <2>3. ASSUME NEW k \in Message  PROVE MessageInv(k)'
    <3>1. For("react", k) \in background => For("react", k) \in background'
      BY <1>1, <1>5 DEF For
    <3> QED
      BY <1>0, <1>1, <2>1, <3>1, MessageStays
  <2>4. CapturesInv'
    BY <1>0, <1>1, <2>1, CapturesStay DEF BotTypes
  <2>5. DrainInv'
    BY <1>0, <1>1 DEF DrainInv
  <2> QED
    BY <2>2, <2>3, <2>4, <2>5 DEF BotInv
<1> QED
  BY <1>2, <1>3, <1>4, <1>5

\* A step that leaves every message and every capture alone.
LEMMA QuietStepKeeps ==
  ASSUME BotInv,
         UNCHANGED <<request, iteration, offered, outbox, answer, prompts, screenshot, background,
                     botGhosts>>,
         listed' \in SUBSET PluginTool, botClosing' \in BOOLEAN, botDrained' \in BOOLEAN,
         botFaults' \in 0 .. MaxBotFaults, DrainInv'
  PROVE  BotInv'
<1>0. BotTypes /\ (\A k \in Message : MessageInv(k)) /\ CapturesInv
  BY DEF BotInv
<1>1. BotTypes'
  BY <1>0 DEF BotTypes, botGhosts
<1>2. \A k \in Message : MessageInv(k)'
  BY <1>0, MessageStays DEF botGhosts
<1>3. CapturesInv'
  BY <1>0, <1>1, CapturesStay DEF BotTypes, botGhosts
<1> QED
  BY <1>1, <1>2, <1>3 DEF BotInv

-----------------------------------------------------------------------------
(* Every step. *)

LEMMA BotStep == BotInv /\ [BotNext]_botVars => BotInv'
<1> SUFFICES ASSUME BotInv, [BotNext]_botVars  PROVE BotInv'
  OBVIOUS
<1>0. BotTypes /\ DrainInv
  BY DEF BotInv
<1>1. ASSUME NEW m \in Message, Handle(m)  PROVE BotInv'
  BY <1>1, ReceiveKeeps, GenerateKeeps, CallBuiltInKeeps, ScreenshotURLKeeps, AttachFileKeeps,
     CallPluginKeeps, PopScreenshotKeeps, ReplyKeeps, UploadNextKeeps, ReactKeeps, AfterReplyKeeps,
     PanicsKeeps DEF Handle
<1>2. ASSUME NEW w \in background, WorkEnds(w)  PROVE BotInv'
  BY <1>2, WorkEndsKeeps
<1>3. CASE Shutdown
  <2>1. botClosing' = TRUE /\ UNCHANGED <<listed, botDrained, botFaults, background>>
    BY <1>3 DEF Shutdown
  <2>2. DrainInv' /\ listed' \in SUBSET PluginTool /\ botClosing' \in BOOLEAN
        /\ botDrained' \in BOOLEAN /\ botFaults' \in 0 .. MaxBotFaults
    BY <1>0, <2>1 DEF DrainInv, BotTypes
  <2> QED
    BY <1>3, <2>2, QuietStepKeeps DEF Shutdown
<1>4. CASE Drained
  <2>1. botClosing /\ background = {} /\ botDrained' = TRUE
        /\ UNCHANGED <<listed, botClosing, botFaults, background>>
    BY <1>4 DEF Drained
  <2>2. DrainInv' /\ listed' \in SUBSET PluginTool /\ botClosing' \in BOOLEAN
        /\ botDrained' \in BOOLEAN /\ botFaults' \in 0 .. MaxBotFaults
    BY <1>0, <2>1 DEF DrainInv, BotTypes
  <2> QED
    BY <1>4, <2>2, QuietStepKeeps DEF Drained
<1>5. CASE PluginsChange
  <2>1. listed' \in SUBSET PluginTool /\ BotFault /\ UNCHANGED <<botClosing, botDrained, background>>
    BY <1>5 DEF PluginsChange
  <2>2. DrainInv' /\ botClosing' \in BOOLEAN /\ botDrained' \in BOOLEAN
        /\ botFaults' \in 0 .. MaxBotFaults
    BY <1>0, <2>1, BotFaultCounts DEF DrainInv, BotTypes
  <2> QED
    BY <1>5, <2>1, <2>2, QuietStepKeeps DEF PluginsChange
<1>6. CASE UNCHANGED botVars
  <2>1. UNCHANGED <<request, iteration, offered, outbox, answer, prompts, screenshot, background,
                    listed, botClosing, botDrained, botFaults, botGhosts>>
    BY <1>6 DEF botVars, botShared
  <2>2. DrainInv' /\ listed' \in SUBSET PluginTool /\ botClosing' \in BOOLEAN
        /\ botDrained' \in BOOLEAN /\ botFaults' \in 0 .. MaxBotFaults
    BY <1>0, <2>1 DEF DrainInv, BotTypes
  <2> QED
    BY <2>1, <2>2, QuietStepKeeps
<1> QED
  BY <1>1, <1>2, <1>3, <1>4, <1>5, <1>6 DEF BotNext

\* Whatever the model returns and however many messages are answered at once, the
\* bot's records of a message agree with one another.
THEOREM RequestsAreConsistent == BotSpec => []BotInv
BY BotInitInv, BotStep, PTL DEF BotSpec

\* Nobody is left without an answer: a message that was handled got a reply, an
\* apology, an error, a file or a reaction on its way, unless it was skipped or the
\* platform failed (handler.go, HandleMessage).
THEOREM EveryMessageIsAnswered == BotSpec => []AlwaysSaysSomething
<1>1. BotInv => AlwaysSaysSomething
  BY DEF BotInv, MessageInv, AlwaysSaysSomething
<1> QED
  BY <1>1, RequestsAreConsistent, PTL

\* The files of a reply are those the model was told are attached, in their last
\* versions, and a capture goes to one conversation only (outbox.go, Outbox.Add;
\* executor.go, PopScreenshot).
THEOREM FilesKeepTheirPromise == BotSpec => []PromisedFilesGoOut
<1>1. BotInv => PromisedFilesGoOut
  <2> SUFFICES ASSUME BotInv  PROVE PromisedFilesGoOut
    OBVIOUS
  <2>1. CapturesInv /\ (\A m \in Message : MessageInv(m))
    BY DEF BotInv
  <2>2. ASSUME NEW m \in Message
        PROVE  /\ uploaded[m] \subseteq LastFiles(m)
               /\ request[m] = "done" /\ uploaded[m] # LastFiles(m) =>
                    "trouble" \in said[m] \/ Skipped(m) \/ m \in excused
    BY <2>1 DEF MessageInv
  <2> QED
    BY <2>1, <2>2 DEF CapturesInv, LastFiles, PromisedFilesGoOut
<1> QED
  BY <1>1, RequestsAreConsistent, PTL

\* The prompts a plugin queued are posted whichever way the answer went, unless the
\* platform refuses them, and nothing runs once the shutdown reports that everything
\* finished (handler.go, goTracked and Shutdown; plugins.go, afterReply).
THEOREM NothingRunsAfterTheDrain == BotSpec => []NothingIsCutOff
<1>1. BotInv => NothingIsCutOff
  BY DEF BotInv, MessageInv, DrainInv, NothingIsCutOff
<1> QED
  BY <1>1, RequestsAreConsistent, PTL

-----------------------------------------------------------------------------
(*****************************************************************************)
(* The tables of the built-in tools.                                         *)
(*****************************************************************************)

(* The tables of tools, as sets of pairs of a tool and its arguments. *)

LEMMA ArgsRows ==
  \A tools, args, t, a : <<t, a>> \in Args(tools, args) <=> t \in tools /\ a = args
BY DEF Args

IsTable(rows) == \A r \in rows : r = <<r[1], r[2]>>

LEMMA TablesArePairs == \A s \in Services : IsTable(Declares[s]) /\ IsTable(Needs[s])
<1>1. \A tools, args : \A r \in Args(tools, args) : r = <<r[1], r[2]>>
  BY DEF Args
<1>2. IsTable(Declares.google)
  BY <1>1 DEF Declares, DeclaresFiles, DeclaresSheetsAndSlides, DeclaresMoreFiles, DeclaresEvents,
     DeclaresTasks, DeclaresLists, IsTable
<1>3. IsTable(Needs.google)
  BY <1>1 DEF Needs, NeedsFiles, NeedsSheets, NeedsMoreFiles, NeedsEvents, NeedsTasks, IsTable
<1>4. /\ IsTable(DeclaresNotion) /\ IsTable(DeclaresScreenshot) /\ IsTable(DeclaresMessages)
      /\ IsTable(DeclaresAttach) /\ IsTable(DeclaresSearch)
  BY <1>1 DEF DeclaresNotion, DeclaresScreenshot, DeclaresMessages, DeclaresAttach, DeclaresSearch,
     IsTable
<1>5. /\ IsTable(NeedsNotion) /\ IsTable(NeedsScreenshot) /\ IsTable(NeedsMessages)
      /\ IsTable(NeedsAttach) /\ IsTable(NeedsSearch)
  BY <1>1 DEF NeedsNotion, NeedsScreenshot, NeedsMessages, NeedsAttach, NeedsSearch, IsTable
<1>6. Services = {"google", "notion", "screenshots", "schedules", "always", "search"}
  BY DEF Services, Declares
<1> QED
  BY <1>2, <1>3, <1>4, <1>5, <1>6 DEF Declares, Needs

LEMMA ToolsRows ==
  ASSUME NEW rows, IsTable(rows), NEW t
  PROVE  t \in Tools(rows) <=> \E a : <<t, a>> \in rows
<1>1. ASSUME NEW a, <<t, a>> \in rows  PROVE t \in Tools(rows)
  <2>1. <<t, a>>[1] = t
    OBVIOUS
  <2> QED
    BY <1>1, <2>1 DEF Tools
<1>2. ASSUME t \in Tools(rows)  PROVE \E a : <<t, a>> \in rows
  <2>1. PICK r \in rows : t = r[1]
    BY <1>2 DEF Tools
  <2> QED
    BY <2>1 DEF IsTable
<1> QED
  BY <1>1, <1>2

\* Which service each built-in tool belongs to.
Home(t) ==
  IF t \in {"create_notion_page", "update_notion_page"} THEN "notion"
  ELSE IF t = "screenshot_url" THEN "screenshots"
  ELSE IF t \in {"schedule_message", "create_recurring_job", "list_scheduled_jobs",
                 "cancel_scheduled_job", "send_message"} THEN "schedules"
  ELSE IF t = "attach_file" THEN "always"
  ELSE IF t \in {"search_knowledge_base", "read_knowledge_base_document"} THEN "search"
  ELSE "google"

\* A tool is known to one service, and every tool a service declares it knows.
LEMMA EveryToolHasItsService ==
  ASSUME NEW s \in Services, NEW t, NEW a
  PROVE  /\ <<t, a>> \in Needs[s] => s = Home(t)
         /\ <<t, a>> \in Declares[s] => \E b : <<t, b>> \in Needs[s]
<1>0. Services = {"google", "notion", "screenshots", "schedules", "always", "search"}
  BY DEF Services, Declares
<1>1. CASE s = "google"
  <2>1. <<t, a>> \in Needs.google => Home(t) = "google"
    BY ArgsRows DEF Needs, NeedsFiles, NeedsSheets, NeedsMoreFiles, NeedsEvents, NeedsTasks, Home
  <2>2. <<t, a>> \in DeclaresFiles =>
          \/ <<t, a>> \in NeedsFiles \cup NeedsSheets
          \/ <<t, {"title"}>> \in NeedsFiles \/ <<t, {"file_id"}>> \in NeedsFiles
    BY ArgsRows DEF DeclaresFiles, NeedsFiles, NeedsSheets
  <2>3. <<t, a>> \in DeclaresSheetsAndSlides => <<t, a>> \in NeedsSheets \cup NeedsMoreFiles
    BY ArgsRows DEF DeclaresSheetsAndSlides, NeedsSheets, NeedsMoreFiles
  <2>4. <<t, a>> \in DeclaresMoreFiles => <<t, a>> \in NeedsMoreFiles
    BY ArgsRows DEF DeclaresMoreFiles, NeedsMoreFiles
  <2>5. <<t, a>> \in DeclaresEvents => <<t, a>> \in NeedsEvents
    BY ArgsRows DEF DeclaresEvents, NeedsEvents
  <2>6. <<t, a>> \in DeclaresTasks => <<t, a>> \in NeedsEvents \cup NeedsTasks
    BY ArgsRows DEF DeclaresTasks, NeedsEvents, NeedsTasks
  <2>7. <<t, a>> \in DeclaresLists => <<t, a>> \in NeedsTasks
    BY ArgsRows DEF DeclaresLists, NeedsTasks
  <2>8. <<t, a>> \in Declares.google => \E b : <<t, b>> \in Needs.google
    BY <2>2, <2>3, <2>4, <2>5, <2>6, <2>7 DEF Declares, Needs
  <2> QED
    BY <1>1, <2>1, <2>8
<1>2. CASE s = "notion"
  <2>1. Declares[s] = DeclaresNotion /\ Needs[s] = NeedsNotion
    BY <1>2 DEF Declares, Needs
  <2>2. <<t, a>> \in NeedsNotion => Home(t) = "notion"
    BY ArgsRows DEF NeedsNotion, Home
  <2>3. <<t, a>> \in DeclaresNotion => \E b : <<t, b>> \in NeedsNotion
    <3>1. <<t, a>> \in DeclaresNotion => t \in {"create_notion_page", "update_notion_page"}
      BY ArgsRows DEF DeclaresNotion
    <3>2. <<"create_notion_page", {"title"}>> \in NeedsNotion
      BY ArgsRows DEF NeedsNotion
    <3>3. <<"update_notion_page", {"page_id"}>> \in NeedsNotion
      BY ArgsRows DEF NeedsNotion
    <3> QED
      BY <3>1, <3>2, <3>3
  <2> QED
    BY <1>2, <2>1, <2>2, <2>3
<1>3. CASE s = "screenshots"
  <2>1. Declares[s] = DeclaresScreenshot /\ Needs[s] = NeedsScreenshot
    BY <1>3 DEF Declares, Needs
  <2>2. <<t, a>> \in NeedsScreenshot => Home(t) = "screenshots"
    BY ArgsRows DEF NeedsScreenshot, Home
  <2>3. <<t, a>> \in DeclaresScreenshot => \E b : <<t, b>> \in NeedsScreenshot
    BY ArgsRows DEF DeclaresScreenshot, NeedsScreenshot
  <2> QED
    BY <1>3, <2>1, <2>2, <2>3
<1>4. CASE s = "schedules"
  <2>1. Declares[s] = DeclaresMessages /\ Needs[s] = NeedsMessages
    BY <1>4 DEF Declares, Needs
  <2>2. <<t, a>> \in NeedsMessages => Home(t) = "schedules"
    BY ArgsRows DEF NeedsMessages, Home
  <2>3. <<t, a>> \in DeclaresMessages => \E b : <<t, b>> \in NeedsMessages
    BY ArgsRows DEF DeclaresMessages, NeedsMessages
  <2> QED
    BY <1>4, <2>1, <2>2, <2>3
<1>5. CASE s = "always"
  <2>1. Declares[s] = DeclaresAttach /\ Needs[s] = NeedsAttach
    BY <1>5 DEF Declares, Needs
  <2>2. <<t, a>> \in NeedsAttach => Home(t) = "always"
    BY ArgsRows DEF NeedsAttach, Home
  <2>3. <<t, a>> \in DeclaresAttach => \E b : <<t, b>> \in NeedsAttach
    BY ArgsRows DEF DeclaresAttach, NeedsAttach
  <2> QED
    BY <1>5, <2>1, <2>2, <2>3
<1>6. CASE s = "search"
  <2>1. Declares[s] = DeclaresSearch /\ Needs[s] = NeedsSearch
    BY <1>6 DEF Declares, Needs
  <2>2. <<t, a>> \in NeedsSearch => Home(t) = "search"
    BY ArgsRows DEF NeedsSearch, Home
  <2>3. <<t, a>> \in DeclaresSearch => \E b : <<t, b>> \in NeedsSearch
    BY ArgsRows DEF DeclaresSearch, NeedsSearch
  <2> QED
    BY <1>6, <2>1, <2>2, <2>3
<1> QED
  BY <1>0, <1>1, <1>2, <1>3, <1>4, <1>5, <1>6

\* No tool needs more than it declares.
Enough(declared, needed) ==
  \A t, a, b : <<t, a>> \in declared /\ <<t, b>> \in needed => b \subseteq a

LEMMA DeclarationsAreEnough == \A s \in Services : Enough(Declares[s], Needs[s])
<1>1. Enough(Declares.google, Needs.google)
  BY ArgsRows DEF Declares, Needs, DeclaresFiles, DeclaresSheetsAndSlides, DeclaresMoreFiles,
     DeclaresEvents, DeclaresTasks, DeclaresLists, NeedsFiles, NeedsSheets, NeedsMoreFiles,
     NeedsEvents, NeedsTasks, Enough
<1>2. Enough(DeclaresNotion, NeedsNotion)
  BY ArgsRows DEF DeclaresNotion, NeedsNotion, Enough
<1>3. Enough(DeclaresScreenshot, NeedsScreenshot)
  BY ArgsRows DEF DeclaresScreenshot, NeedsScreenshot, Enough
<1>4. Enough(DeclaresMessages, NeedsMessages)
  BY ArgsRows DEF DeclaresMessages, NeedsMessages, Enough
<1>5. Enough(DeclaresAttach, NeedsAttach)
  BY ArgsRows DEF DeclaresAttach, NeedsAttach, Enough
<1>6. Enough(DeclaresSearch, NeedsSearch)
  BY ArgsRows DEF DeclaresSearch, NeedsSearch, Enough
<1>7. Services = {"google", "notion", "screenshots", "schedules", "always", "search"}
  BY DEF Services, Declares
<1> QED
  BY <1>1, <1>2, <1>3, <1>4, <1>5, <1>6, <1>7 DEF Declares, Needs

\* A complete call of a tool that is offered is not refused, except for an email
\* without a sender and an upload without files.
LEMMA OfferedToolsAreTaken ==
  ASSUME NEW t \in OfferedTools(Configured), NEW files \in BOOLEAN,
         Refused(t, DeclaredArgs(t), Configured, files)
  PROVE  /\ t \in KnownTools
         /\ \/ t = "send_email" /\ "sender" \notin Configured
            \/ t = "upload_to_drive" /\ ~ files
<1>1. PICK s \in Services : s \in Configured \cup {"always"} /\ t \in Tools(Declares[s])
  BY DEF OfferedTools
<1>2. PICK a : <<t, a>> \in Declares[s]
  <2>1. IsTable(Declares[s])
    BY TablesArePairs
  <2> QED
    BY <1>1, <2>1, ToolsRows
<1>3. PICK b : <<t, b>> \in Needs[s]
  BY <1>2, EveryToolHasItsService
<1>4. t \in Tools(Needs[s])
  <2>1. IsTable(Needs[s])
    BY TablesArePairs
  <2> QED
    BY <1>3, <2>1, ToolsRows
<1>5. ServiceFor(t) = s
  <2>1. ServiceFor(t) \in Services /\ t \in Tools(Needs[ServiceFor(t)])
    BY <1>4 DEF ServiceFor
  <2> DEFINE r == ServiceFor(t)
  <2> HIDE DEF r
  <2>2. r \in Services /\ t \in Tools(Needs[r])
    BY <2>1 DEF r
  <2>3. IsTable(Needs[r])
    BY <2>2, TablesArePairs
  <2>4. \E c : <<t, c>> \in Needs[r]
    BY <2>2, <2>3, ToolsRows
  <2>5. r = Home(t) /\ s = Home(t)
    BY <1>3, <2>2, <2>4, EveryToolHasItsService
  <2> QED
    BY <2>5 DEF r
<1>6. ArgsOf(Needs[s], t) \subseteq DeclaredArgs(t)
  <2>1. a \subseteq DeclaredArgs(t)
    <3>1. <<t, a>> \in UNION {Declares[q] : q \in Services} /\ <<t, a>>[1] = t /\ <<t, a>>[2] = a
      BY <1>2
    <3> QED
      BY <3>1 DEF DeclaredArgs, ArgsOf
  <2>2. ASSUME NEW row \in Needs[s], row[1] = t  PROVE row[2] \subseteq a
    <3>1. row = <<t, row[2]>>
      BY <2>2, TablesArePairs DEF IsTable
    <3>2. <<t, row[2]>> \in Needs[s]
      BY <3>1
    <3> QED
      BY <1>2, <3>2, DeclarationsAreEnough DEF Enough
  <2> QED
    BY <2>1, <2>2 DEF ArgsOf
<1>7. t \in KnownTools
  BY <1>4 DEF KnownTools
<1> QED
  BY <1>1, <1>5, <1>6, <1>7 DEF Refused

\* What was refused, typed.
RefusedInv == turnedDown \in SUBSET (KnownTools \X Message) /\ CompleteCallsAreTaken

LEMMA RefusalsAreExceptions == BotSpec => []RefusedInv
<1>1. BotInit => RefusedInv
  BY DEF BotInit, CompleteCallsAreTaken, RefusedInv
<1>2. RefusedInv /\ [BotNext]_botVars => RefusedInv'
  <2> SUFFICES ASSUME RefusedInv, [BotNext]_botVars  PROVE RefusedInv'
    OBVIOUS
  <2>1. ASSUME NEW m \in Message, CallBuiltIn(m)  PROVE RefusedInv'
    <3> DEFINE files == m \in WithFiles
               refused == {t \in OfferedTools(Configured) :
                             Refused(t, DeclaredArgs(t), Configured, files)}
    <3>0. files \in BOOLEAN
      OBVIOUS
    <3>1. turnedDown' = turnedDown \cup (refused \X {m})
      BY <2>1 DEF CallBuiltIn
    <3>2. \A t \in refused : /\ t \in KnownTools
                            /\ \/ t = "send_email" /\ "sender" \notin Configured
                               \/ t = "upload_to_drive" /\ m \notin WithFiles
      <4> SUFFICES ASSUME NEW t \in refused
                   PROVE  /\ t \in KnownTools
                          /\ \/ t = "send_email" /\ "sender" \notin Configured
                             \/ t = "upload_to_drive" /\ ~ files
        OBVIOUS
      <4> HIDE DEF files
      <4>1. t \in OfferedTools(Configured) /\ Refused(t, DeclaredArgs(t), Configured, files)
        OBVIOUS
      <4> QED
        BY <3>0, <4>1, OfferedToolsAreTaken
    <3> HIDE DEF files, refused
    <3>3. \A call \in refused \X {m} : call[1] \in refused /\ call[2] = m
      OBVIOUS
    <3>4. refused \X {m} \subseteq KnownTools \X Message
      BY <3>2
    <3>5. \A call \in turnedDown' :
            \/ call[1] = "send_email" /\ "sender" \notin Configured
            \/ call[1] = "upload_to_drive" /\ call[2] \notin WithFiles
      BY <3>1, <3>2, <3>3 DEF RefusedInv, CompleteCallsAreTaken
    <3> QED
      BY <3>1, <3>4, <3>5 DEF RefusedInv, CompleteCallsAreTaken
  <2>2. CASE UNCHANGED turnedDown
    BY <2>2 DEF CompleteCallsAreTaken, RefusedInv
  <2>3. ASSUME NEW m \in Message, Handle(m)  PROVE CallBuiltIn(m) \/ UNCHANGED turnedDown
    BY <2>3 DEF Handle, Receive, Generate, ScreenshotURL, AttachFile, CallPlugin, PopScreenshot, Reply,
       UploadNext, React, AfterReply, Panics, botGhosts
  <2>4. BotNext => (\E m \in Message : Handle(m)) \/ UNCHANGED turnedDown
    BY DEF BotNext, WorkEnds, Shutdown, Drained, PluginsChange, botGhosts
  <2>5. UNCHANGED botVars => UNCHANGED turnedDown
    BY DEF botVars, botGhosts
  <2> QED
    BY <2>1, <2>2, <2>3, <2>4, <2>5
<1> QED
  BY <1>1, <1>2, PTL DEF BotSpec

\* A tool that was offered, called with everything its declaration asks for, is not
\* refused; an email without a sender and an upload of the files of a message that
\* has none are the exceptions (executor.go, Declarations and dispatch).
THEOREM OfferedCallsAreTaken == BotSpec => []CompleteCallsAreTaken
<1>1. RefusedInv => CompleteCallsAreTaken
  BY DEF RefusedInv
<1> QED
  BY <1>1, RefusalsAreExceptions, PTL

\* The bot's records of each message, its screenshots, prompts and pending files
\* keep the types the handler gives them.
THEOREM BotTypeCorrect == BotSpec => []BotTypeOK
<1>1. BotInv /\ RefusedInv => BotTypeOK
  <2> SUFFICES ASSUME BotInv, RefusedInv PROVE BotTypeOK
    OBVIOUS
  <2>1. \A m \in Message : outbox[m] \in Seq(File) /\ Len(outbox[m]) <= MaxOutgoing
    BY DEF BotInv, BotTypes, MessageInv
  <2>2. screenshot \in SUBSET Capture /\ Cardinality(screenshot) <= 1
    <3>1. screenshot = {} \/ \E s \in Capture : screenshot = {s}
      BY DEF BotInv, BotTypes
    <3>2. CASE screenshot = {}
      BY <3>2, FS_EmptySet
    <3>3. CASE \E s \in Capture : screenshot = {s}
      <4>1. PICK s \in Capture : screenshot = {s}
        BY <3>3
      <4>2. Cardinality(screenshot) = 1
        BY <4>1, FS_Singleton
      <4> QED
        BY <4>1, <4>2
    <3> QED
      BY <3>1, <3>2, <3>3
  <2> QED
    BY <2>1, <2>2 DEF BotInv, BotTypes, BotTypeOK, RefusedInv
<1> QED
  BY <1>1, RequestsAreConsistent, RefusalsAreExceptions, PTL

-----------------------------------------------------------------------------
(*****************************************************************************)
(* The threads the bot follows.                                              *)
(*****************************************************************************)

ACheck == [on : {"tracked", "negative", "lookup", "store"}, thread : Thread, began : Ticks,
           safe : BOOLEAN]

\* Where the bot's message can be found it came no earlier.
CameAfter(t, at) == t \in botPosts \ buried => at <= since[t]

CheckInv(w) ==
  check[w] # NoCheck =>
    /\ check[w].began <= tick /\ tick <= check[w].began + 1
    /\ check[w].safe => check[w].thread \in tracked /\ check[w].on = "tracked"
    /\ check[w].on = "store" => CameAfter(check[w].thread, check[w].began)

NegativeInv(n) ==
  n.at <= tick /\ (n.thread \in botPosts \ buried => n.at <= since[n.thread] + 1)

ChatInv ==
  /\ ChatTypeOK
  /\ check \in [Worker -> ACheck \cup {NoCheck}]
  /\ recorded \subseteq tracked
  /\ \A w \in Worker : CheckInv(w)
  /\ \A n \in notBot : NegativeInv(n)
  /\ missed = {}

-----------------------------------------------------------------------------
(* Each step. *)

LEMMA ChatTypes ==
  ASSUME ChatInv
  PROVE  /\ tick \in Nat /\ tick \in Ticks /\ NotBotTTL \in Nat /\ LastTick \in Nat
         /\ MaxChatFaults \in Nat
         /\ \A t \in Thread : since[t] \in Nat
         /\ \A n \in notBot : n \in [thread : Thread, at : Ticks] /\ n.thread \in Thread
                              /\ n.at \in Nat
         /\ \A w \in Worker : check[w] # NoCheck =>
              /\ check[w] \in ACheck /\ check[w].thread \in Thread /\ check[w].began \in Nat
              /\ check[w].safe \in BOOLEAN
BY ChatAssumption DEF ChatInv, ChatTypeOK, ACheck, Ticks

\* A check that is at one of its steps is a check.
LEMMA AtStep ==
  ASSUME NEW w, check[w].on # "none"
  PROVE  check[w] # NoCheck
BY DEF NoCheck

LEMMA FaultCounts == ASSUME ChatInv, ChatFault PROVE chatFaults' \in 0 .. MaxChatFaults
BY ChatAssumption DEF ChatInv, ChatTypeOK, ChatFault

LEMMA ChatInitInv == ChatInit => ChatInv
<1> SUFFICES ASSUME ChatInit  PROVE ChatInv
  OBVIOUS
<1>1. ChatTypeOK
  BY ChatAssumption DEF ChatInit, ChatTypeOK, Ticks
<1>2. check \in [Worker -> ACheck \cup {NoCheck}] /\ \A w \in Worker : check[w] = NoCheck
  BY DEF ChatInit
<1> QED
  BY <1>1, <1>2 DEF ChatInit, ChatInv, CheckInv

\* The bot writes into a thread: whatever was looked up before came before.
LEMMA PostedKeeps ==
  ASSUME ChatInv, NEW t \in Thread, Posted(t), posting' \subseteq posting \cup {t},
         chatFaults' \in 0 .. MaxChatFaults,
         UNCHANGED <<tick, tracked, notBot, buried, check, recorded, missed>>
  PROVE  ChatInv'
<1>1. /\ since' \in [Thread -> Ticks]
      /\ \A s \in Thread : since'[s] = IF s = t /\ s \notin botPosts THEN tick ELSE since[s]
  BY DEF ChatInv, ChatTypeOK, Posted
<1>2. botPosts' = botPosts \cup {t}
  BY DEF Posted
<1>3. ChatTypeOK'
  BY <1>1, <1>2 DEF ChatInv, ChatTypeOK
<1>4. ASSUME NEW s \in Thread, NEW at \in Nat, at <= tick, CameAfter(s, at)
      PROVE  CameAfter(s, at)'
  BY <1>1, <1>2, <1>4 DEF CameAfter
<1>5. ASSUME NEW w \in Worker  PROVE CheckInv(w)'
  <2> SUFFICES ASSUME check[w] # NoCheck  PROVE CheckInv(w)'
    BY DEF CheckInv
  <2>1. CheckInv(w) /\ check[w].thread \in Thread /\ check[w].began \in Nat
    BY ChatTypes DEF ChatInv
  <2> QED
    BY <2>1, <1>4 DEF CheckInv
<1>6. ASSUME NEW n \in notBot  PROVE NegativeInv(n)'
  <2>1. NegativeInv(n) /\ n.thread \in Thread /\ n.at \in Nat /\ since[n.thread] \in Nat
        /\ tick \in Nat
    BY ChatTypes DEF ChatInv
  <2>2. since'[n.thread] = IF n.thread = t /\ n.thread \notin botPosts THEN tick
                           ELSE since[n.thread]
    BY <2>1, <1>1
  <2> QED
    BY <2>1, <2>2, <1>2 DEF NegativeInv
<1> QED
  BY <1>3, <1>5, <1>6 DEF ChatInv

\* A thread is recorded.
LEMMA RecordedKeeps ==
  ASSUME ChatInv, NEW t \in Thread,
         tracked' = tracked \cup {t}, recorded' = recorded \cup {t}, posting' \subseteq posting,
         UNCHANGED <<tick, notBot, botPosts, buried, check, chatFaults, since, missed>>
  PROVE  ChatInv'
<1>1. ChatTypeOK'
  BY DEF ChatInv, ChatTypeOK
<1>2. \A w \in Worker : CheckInv(w)'
  BY DEF ChatInv, CheckInv, CameAfter
<1>3. \A n \in notBot : NegativeInv(n)'
  BY DEF ChatInv, NegativeInv
<1> QED
  BY <1>1, <1>2, <1>3 DEF ChatInv

LEMMA BuryKeeps ==
  ASSUME ChatInv, NEW t \in Thread, Bury(t)
  PROVE  ChatInv'
<1> USE DEF Bury
<1>1. ChatTypeOK'
  BY FaultCounts DEF ChatInv, ChatTypeOK
<1>2. \A w \in Worker : CheckInv(w)'
  BY DEF ChatInv, CheckInv, CameAfter
<1>3. \A n \in notBot : NegativeInv(n)'
  BY DEF ChatInv, NegativeInv
<1> QED
  BY <1>1, <1>2, <1>3 DEF ChatInv

\* A check begins, goes on or ends; nothing else changes.
LEMMA CheckMoves ==
  ASSUME ChatInv, NEW w \in Worker, NEW c \in ACheck \cup {NoCheck},
         check' = [check EXCEPT ![w] = c], chatFaults' \in 0 .. MaxChatFaults,
         c # NoCheck => /\ c.began <= tick /\ tick <= c.began + 1
                        /\ c.safe => c.thread \in tracked /\ c.on = "tracked"
                        /\ c.on = "store" => CameAfter(c.thread, c.began),
         UNCHANGED <<tick, tracked, notBot, botPosts, buried, posting, recorded, since, missed>>
  PROVE  ChatInv'
<1>1. /\ check' \in [Worker -> ACheck \cup {NoCheck}] /\ check'[w] = c
      /\ \A u \in Worker \ {w} : check'[u] = check[u]
  BY DEF ChatInv
<1>2. ChatTypeOK'
  BY <1>1 DEF ChatInv, ChatTypeOK, ACheck
<1>3. ASSUME NEW u \in Worker  PROVE CheckInv(u)'
  BY <1>1 DEF ChatInv, CheckInv, CameAfter
<1>4. \A n \in notBot : NegativeInv(n)'
  BY DEF ChatInv, NegativeInv
<1> QED
  BY <1>1, <1>2, <1>3, <1>4 DEF ChatInv
\* A reply that is turned down is not one in a known thread, nor in an old one
\* whose lookup succeeded.
LEMMA TurnedDown ==
  ASSUME ChatInv, NEW w \in Worker, check[w] # NoCheck, check[w].on # "tracked",
         NEW failed \in BOOLEAN, TurnDown(w, failed),
         CameAfter(check[w].thread, check[w].began)
           \/ (check[w].thread \in botPosts \ buried =>
                 check[w].began <= since[check[w].thread] + NotBotTTL)
           \/ failed
  PROVE  missed' = missed /\ check' = [check EXCEPT ![w] = NoCheck]
<1> DEFINE c == check[w]
           old == /\ c.thread \in botPosts \ buried
                  /\ c.began > since[c.thread] + NotBotTTL
                  /\ ~ failed
<1>1. /\ missed' = missed \cup (IF c.safe THEN {"known"} ELSE {}) \cup (IF old THEN {"old"} ELSE {})
      /\ check' = [check EXCEPT ![w] = NoCheck]
  BY DEF TurnDown
<1>2. ~ c.safe
  BY DEF ChatInv, CheckInv
<1>3. /\ c.thread \in Thread /\ c.began \in Nat /\ NotBotTTL \in Nat
      /\ since[c.thread] \in Nat
  BY ChatTypes
<1>4. ~ old
  BY <1>3 DEF CameAfter
<1> HIDE DEF c, old
<1> QED
  BY <1>1, <1>2, <1>4

LEMMA ReplyArrivesKeeps ==
  ASSUME ChatInv, NEW w \in Worker, NEW t \in Thread, ReplyArrives(w, t)
  PROVE  ChatInv'
<1>1. Checking(t, t \in recorded) \in ACheck
  BY ChatTypes DEF Checking, ACheck
<1>2. Checking(t, t \in recorded).safe => t \in tracked
  BY DEF Checking, ChatInv
<1>3. /\ Checking(t, t \in recorded).began = tick /\ Checking(t, t \in recorded).thread = t
      /\ Checking(t, t \in recorded).on = "tracked"
  BY DEF Checking
<1>4. tick <= tick /\ tick <= tick + 1 /\ chatFaults \in 0 .. MaxChatFaults
  BY ChatTypes DEF ChatInv, ChatTypeOK
<1> QED
  BY <1>1, <1>2, <1>3, <1>4, CheckMoves DEF ReplyArrives

\* A check goes on to the next cache, or to the lookup.
LEMMA GoesKeeps ==
  ASSUME ChatInv, NEW w \in Worker, check[w] # NoCheck,
         NEW s \in {"negative", "lookup", "store"}, Goes(w, s),
         check[w].on = "tracked" => check[w].thread \notin tracked,
         s = "store" => CameAfter(check[w].thread, check[w].began),
         UNCHANGED <<tick, tracked, notBot, botPosts, buried, posting, chatFaults, recorded, since,
                     missed>>
  PROVE  ChatInv'
<1> DEFINE c == [check[w] EXCEPT !.on = s]
<1>1. check[w] \in ACheck /\ CheckInv(w)
  BY ChatTypes DEF ChatInv
<1>2. c \in ACheck
  BY <1>1 DEF ACheck
<1>3. /\ c.began = check[w].began /\ c.thread = check[w].thread /\ c.safe = check[w].safe
      /\ c.on = s
  BY <1>1 DEF ACheck
<1>4. ~ check[w].safe
  BY <1>1 DEF CheckInv
<1>5. check' = [check EXCEPT ![w] = c]
  BY DEF Goes
<1>6. chatFaults' \in 0 .. MaxChatFaults
  BY DEF ChatInv, ChatTypeOK
<1> HIDE DEF c
<1>7. c # NoCheck => /\ c.began <= tick /\ tick <= c.began + 1
                     /\ c.safe => c.thread \in tracked /\ c.on = "tracked"
                     /\ c.on = "store" => CameAfter(c.thread, c.began)
  BY <1>1, <1>3, <1>4 DEF CheckInv
<1> QED
  BY <1>2, <1>5, <1>6, <1>7, CheckMoves

LEMMA CheckEnds ==
  ASSUME ChatInv, NEW w \in Worker, check' = [check EXCEPT ![w] = NoCheck],
         chatFaults' \in 0 .. MaxChatFaults,
         UNCHANGED <<tick, tracked, notBot, botPosts, buried, posting, recorded, since, missed>>
  PROVE  ChatInv'
BY CheckMoves

LEMMA CheckTrackedKeeps ==
  ASSUME ChatInv, NEW w \in Worker, CheckTracked(w)
  PROVE  ChatInv'
<1>1. check[w] # NoCheck /\ chatFaults' \in 0 .. MaxChatFaults
  BY DEF CheckTracked, NoCheck, ChatInv, ChatTypeOK
<1>2. CASE check[w].thread \in tracked
  BY <1>1, <1>2, CheckEnds DEF CheckTracked
<1>3. CASE check[w].thread \notin tracked
  BY <1>1, <1>3, GoesKeeps DEF CheckTracked
<1> QED
  BY <1>2, <1>3

LEMMA CheckNegativeKeeps ==
  ASSUME ChatInv, NEW w \in Worker, CheckNegative(w)
  PROVE  ChatInv'
<1> DEFINE t == check[w].thread
<1>1. /\ check[w] # NoCheck /\ check[w].on = "negative"
      /\ chatFaults' \in 0 .. MaxChatFaults
  BY DEF CheckNegative, NoCheck, ChatInv, ChatTypeOK
<1>2. /\ t \in Thread /\ check[w].began \in Nat /\ tick \in Nat /\ since[t] \in Nat
      /\ NotBotTTL \in Nat /\ check[w].began <= tick
  BY <1>1, ChatTypes DEF ChatInv, CheckInv
<1>3. CASE Fresh(t)
  <2>1. PICK n \in notBot : n.thread = t /\ tick - n.at < NotBotTTL
    BY <1>3 DEF Fresh
  <2>2. n.at \in Nat /\ NegativeInv(n)
    BY <2>1, ChatTypes DEF ChatInv
  <2>3. t \in botPosts \ buried => check[w].began <= since[t] + NotBotTTL
    BY <2>1, <2>2, <1>2 DEF NegativeInv
  <2>4. TurnDown(w, FALSE)
    BY <1>3 DEF CheckNegative
  <2>5. missed' = missed /\ check' = [check EXCEPT ![w] = NoCheck]
    BY <1>1, <2>3, <2>4, TurnedDown
  <2> QED
    BY <1>1, <2>5, CheckEnds DEF CheckNegative
<1>4. CASE ~ Fresh(t)
  BY <1>1, <1>4, GoesKeeps DEF CheckNegative
<1> QED
  BY <1>3, <1>4

LEMMA LookupKeeps ==
  ASSUME ChatInv, NEW w \in Worker, Lookup(w)
  PROVE  ChatInv'
<1>1. /\ check[w] # NoCheck /\ check[w].on = "lookup" /\ check[w].thread \in Thread
  BY ChatTypes, AtStep DEF Lookup
<1>2. CASE check[w].thread \in botPosts \ buried
  <2> DEFINE t == check[w].thread
  <2>1. check' = [check EXCEPT ![w] = NoCheck]
    BY <1>2 DEF Lookup
  <2>2. /\ tracked' = tracked \cup {t} /\ recorded' = recorded \cup {t}
        /\ UNCHANGED <<tick, notBot, botPosts, buried, posting, chatFaults, since, missed>>
    BY <1>2 DEF Lookup
  <2>3. /\ check' \in [Worker -> ACheck \cup {NoCheck}] /\ check'[w] = NoCheck
        /\ \A u \in Worker \ {w} : check'[u] = check[u]
    BY <2>1 DEF ChatInv
  <2>4. ChatTypeOK'
    BY <2>2, <2>3, <1>1 DEF ChatInv, ChatTypeOK, ACheck
  <2>5. ASSUME NEW u \in Worker  PROVE CheckInv(u)'
    BY <2>2, <2>3 DEF ChatInv, CheckInv, CameAfter
  <2>6. \A n \in notBot : NegativeInv(n)'
    BY <2>2 DEF ChatInv, NegativeInv
  <2>7. recorded' \subseteq tracked'
    BY <2>2 DEF ChatInv
  <2> QED
    BY <2>2, <2>3, <2>4, <2>5, <2>6, <2>7 DEF ChatInv
<1>3. CASE check[w].thread \notin botPosts \ buried
  <2>1. CameAfter(check[w].thread, check[w].began)
    BY <1>3 DEF CameAfter
  <2> QED
    BY <1>1, <1>3, <2>1, GoesKeeps DEF Lookup
<1> QED
  BY <1>2, <1>3

LEMMA LookupFailsKeeps ==
  ASSUME ChatInv, NEW w \in Worker, LookupFails(w)
  PROVE  ChatInv'
<1>1. check[w] # NoCheck /\ check[w].on = "lookup" /\ TurnDown(w, TRUE)
  BY AtStep DEF LookupFails
<1>2. missed' = missed /\ check' = [check EXCEPT ![w] = NoCheck]
  BY <1>1, TurnedDown
<1>3. chatFaults' \in 0 .. MaxChatFaults
  BY FaultCounts DEF LookupFails
<1> QED
  BY <1>2, <1>3, CheckEnds DEF LookupFails

LEMMA StoreNegativeKeeps ==
  ASSUME ChatInv, NEW w \in Worker, StoreNegative(w)
  PROVE  ChatInv'
<1> DEFINE t == check[w].thread
           new == [thread |-> t, at |-> tick]
<1>1. /\ check[w] # NoCheck /\ check[w].on = "store" /\ TurnDown(w, FALSE)
      /\ UNCHANGED <<tick, tracked, botPosts, buried, posting, chatFaults, recorded, since>>
      /\ notBot' = {n \in notBot : n.thread # t} \cup {new}
  BY AtStep DEF StoreNegative
<1>2. /\ t \in Thread /\ check[w].began \in Nat /\ tick \in Nat /\ tick \in Ticks
      /\ since[t] \in Nat
      /\ tick <= check[w].began + 1 /\ CameAfter(t, check[w].began)
  BY <1>1, ChatTypes DEF ChatInv, CheckInv
<1>3. missed' = missed /\ check' = [check EXCEPT ![w] = NoCheck]
  BY <1>1, <1>2, TurnedDown
<1>4. /\ check' \in [Worker -> ACheck \cup {NoCheck}] /\ check'[w] = NoCheck
      /\ \A u \in Worker \ {w} : check'[u] = check[u]
  BY <1>3 DEF ChatInv
<1>5. new \in [thread : Thread, at : Ticks] /\ new.at = tick /\ new.thread = t
  BY <1>2
<1>6. ChatTypeOK'
  BY <1>1, <1>3, <1>4, <1>5 DEF ChatInv, ChatTypeOK, ACheck
<1>7. ASSUME NEW u \in Worker  PROVE CheckInv(u)'
  BY <1>1, <1>4 DEF ChatInv, CheckInv, CameAfter
<1>8. ASSUME NEW n \in notBot  PROVE NegativeInv(n)'
  BY <1>1 DEF ChatInv, NegativeInv
<1>9. tick <= tick /\ (t \in botPosts \ buried => tick <= since[t] + 1)
  BY <1>2 DEF CameAfter
<1> HIDE DEF new
<1>10. ASSUME NEW n, n \in notBot'  PROVE NegativeInv(n)'
  <2>1. CASE n \in notBot
    BY <1>8, <2>1
  <2>2. CASE n = new
    BY <1>1, <1>2, <1>5, <1>9, <2>2 DEF NegativeInv
  <2> QED
    BY <1>1, <1>10, <2>1, <2>2
<1> QED
  BY <1>1, <1>3, <1>4, <1>6, <1>7, <1>10 DEF ChatInv

LEMMA CleanupKeeps ==
  ASSUME ChatInv, CleanupCaches
  PROVE  ChatInv'
<1>1. tracked' \subseteq tracked
  BY DEF CleanupCaches, Halved
<1>2. notBot' \subseteq notBot
  BY DEF CleanupCaches, Halved
<1>3. /\ recorded' = recorded \cap tracked'
      /\ check' = [w \in Worker |-> IF check[w] # NoCheck /\ check[w].thread \notin tracked'
                                    THEN [check[w] EXCEPT !.safe = FALSE] ELSE check[w]]
      /\ UNCHANGED <<tick, botPosts, buried, posting, chatFaults, since, missed>>
  BY DEF CleanupCaches
<1>4. ASSUME NEW w \in Worker
      PROVE  /\ check'[w] \in ACheck \cup {NoCheck}
             /\ CheckInv(w)'
  <2>1. CheckInv(w) /\ check[w] \in ACheck \cup {NoCheck}
    BY DEF ChatInv
  <2>2. CASE check[w] # NoCheck /\ check[w].thread \notin tracked'
    <3>1. check'[w] = [check[w] EXCEPT !.safe = FALSE] /\ check[w] \in ACheck
      BY <1>3, <2>1, <2>2
    <3>2. /\ check'[w] \in ACheck /\ ~ check'[w].safe
          /\ check'[w].began = check[w].began /\ check'[w].on = check[w].on
          /\ check'[w].thread = check[w].thread
      BY <3>1 DEF ACheck
    <3> QED
      BY <2>1, <2>2, <3>2, <1>3 DEF CheckInv, CameAfter
  <2>3. CASE ~ (check[w] # NoCheck /\ check[w].thread \notin tracked')
    <3>1. check'[w] = check[w]
      BY <1>3, <2>3
    <3> QED
      BY <2>1, <2>3, <3>1, <1>3 DEF CheckInv, CameAfter
  <2> QED
    BY <2>2, <2>3
<1>5. check' \in [Worker -> ACheck \cup {NoCheck}]
  BY <1>3, <1>4
<1>6. recorded' \subseteq tracked'
  BY <1>3
<1>7. ChatTypeOK'
  BY <1>1, <1>2, <1>3, <1>5 DEF ChatInv, ChatTypeOK, ACheck
<1>8. \A n \in notBot : NegativeInv(n)'
  BY <1>3 DEF ChatInv, NegativeInv
<1> QED
  BY <1>2, <1>3, <1>4, <1>5, <1>6, <1>7, <1>8 DEF ChatInv

LEMMA RestartBotKeeps ==
  ASSUME ChatInv, RestartBot
  PROVE  ChatInv'
<1>1. /\ tracked' = {} /\ notBot' = {} /\ recorded' = {} /\ posting' = {}
      /\ check' = [w \in Worker |-> NoCheck]
      /\ UNCHANGED <<tick, botPosts, buried, since, missed>>
      /\ chatFaults' \in 0 .. MaxChatFaults
  BY FaultCounts DEF RestartBot
<1>2. check' \in [Worker -> ACheck \cup {NoCheck}] /\ \A w \in Worker : check'[w] = NoCheck
  BY <1>1
<1>3. ChatTypeOK'
  BY <1>1, <1>2 DEF ChatInv, ChatTypeOK
<1>4. \A w \in Worker : CheckInv(w)'
  BY <1>2 DEF CheckInv
<1> QED
  BY <1>1, <1>2, <1>3, <1>4 DEF ChatInv

LEMMA ClockTicksKeeps ==
  ASSUME ChatInv, ClockTicks
  PROVE  ChatInv'
<1>1. /\ tick < LastTick /\ tick' = tick + 1
      /\ \A w \in Worker : check[w] # NoCheck => check[w].began = tick
      /\ UNCHANGED <<tracked, notBot, botPosts, buried, posting, check, chatFaults, recorded,
                     since, missed>>
  BY DEF ClockTicks
<1>2. tick \in Nat /\ LastTick \in Nat
  BY ChatTypes
<1>3. tick' \in Ticks
  BY <1>1, <1>2 DEF Ticks
<1>4. ChatTypeOK'
  BY <1>1, <1>3 DEF ChatInv, ChatTypeOK
<1>5. \A w \in Worker : CheckInv(w)'
  BY <1>1, <1>2 DEF ChatInv, CheckInv, CameAfter
<1>6. \A n \in notBot : NegativeInv(n)'
  BY <1>1, <1>2, ChatTypes DEF ChatInv, NegativeInv
<1> QED
  BY <1>1, <1>4, <1>5, <1>6 DEF ChatInv

LEMMA ChatStep == ChatInv /\ [ChatNext]_chatVars => ChatInv'
<1> SUFFICES ASSUME ChatInv, [ChatNext]_chatVars  PROVE ChatInv'
  OBVIOUS
<1>0. chatFaults \in 0 .. MaxChatFaults
  BY DEF ChatInv, ChatTypeOK
<1>1. ASSUME NEW t \in Thread, PostText(t)  PROVE ChatInv'
  BY <1>0, <1>1, PostedKeeps DEF PostText
<1>2. ASSUME NEW t \in Thread, PostUntracked(t)  PROVE ChatInv'
  BY <1>2, FaultCounts, PostedKeeps DEF PostUntracked
<1>3. ASSUME NEW t \in Thread, TrackThread(t)  PROVE ChatInv'
  BY <1>3, RecordedKeeps DEF TrackThread
<1>4. ASSUME NEW t \in Thread, Bury(t)  PROVE ChatInv'
  BY <1>4, BuryKeeps
<1>5. ASSUME NEW w \in Worker, NEW t \in Thread, ReplyArrives(w, t)  PROVE ChatInv'
  BY <1>5, ReplyArrivesKeeps
<1>6. ASSUME NEW w \in Worker,
             \/ CheckTracked(w) \/ CheckNegative(w)
             \/ Lookup(w) \/ LookupFails(w) \/ StoreNegative(w)
      PROVE  ChatInv'
  BY <1>6, CheckTrackedKeeps, CheckNegativeKeeps, LookupKeeps, LookupFailsKeeps,
     StoreNegativeKeeps
<1>7. CASE UNCHANGED chatVars
  <2>1. ChatTypeOK'
    BY <1>7 DEF chatVars, ChatInv, ChatTypeOK
  <2>2. \A w \in Worker : CheckInv(w)'
    BY <1>7 DEF chatVars, ChatInv, CheckInv, CameAfter
  <2>3. \A n \in notBot : NegativeInv(n)'
    BY <1>7 DEF chatVars, ChatInv, NegativeInv
  <2> QED
    BY <1>7, <2>1, <2>2, <2>3 DEF chatVars, ChatInv
<1> QED
  BY <1>1, <1>2, <1>3, <1>4, <1>5, <1>6, <1>7, CleanupKeeps, RestartBotKeeps, ClockTicksKeeps
     DEF ChatNext

-----------------------------------------------------------------------------
(* The theorems. *)

\* The caches of threads are consistent with what the bot posted and with the
\* checks under way, for any threads, handlers and sizes of the caches.
THEOREM ThreadsAreConsistent == ChatSpec => []ChatInv
<1> QED
  BY ChatInitInv, ChatStep, PTL DEF ChatSpec

\* The caches, the threads and the checks in progress keep the types the handler
\* gives them.
THEOREM ChatTypeCorrect == ChatSpec => []ChatTypeOK
<1>1. ChatInv => ChatTypeOK
  BY DEF ChatInv
<1> QED
  BY <1>1, ThreadsAreConsistent, PTL

\* A thread the bot is known to take part in is never turned down, although the
\* negative cache may hold it too (IsTrackedThread, TrackThread).
THEOREM KnownThreads == ChatSpec => []KnownThreadsAreTaken
<1>1. ChatInv => KnownThreadsAreTaken
  BY DEF ChatInv, KnownThreadsAreTaken
<1> QED
  BY <1>1, ThreadsAreConsistent, PTL

\* A thread whose record was lost is found again when the negative cache's time
\* is over (IsTrackedThread, notBotTTL).
THEOREM OldThreads == ChatSpec => []OldThreadsAreFound
<1>1. ChatInv => OldThreadsAreFound
  BY DEF ChatInv, OldThreadsAreFound
<1> QED
  BY <1>1, ThreadsAreConsistent, PTL

-----------------------------------------------------------------------------
(*****************************************************************************)
(* Changes to documents, calendars and tasks.                                *)
(*****************************************************************************)

AnEntry == [title : Request \cup {None}, when : Request \cup {None}, guests : SUBSET Request]

AText == (Request \cup {None}) \X Nat

EntryTool == {"edit_calendar_event", "add_event_attendees", "edit_task"}

\* The calls: where each is, and that a tool which edits an entry read one.
CallsInv ==
  /\ asked \in [Request -> WorkKind \cup {None}]
  /\ stage \in [Request -> {"idle", "asked", "read", "filling", "uploading", "ok", "failed"}]
  /\ tries \in [Request -> 0 .. MaxTries]
  /\ \E S : saw \in [Request -> S]
  /\ workFaults \in 0 .. MaxWorkFaults
  /\ \A r \in Request :
       /\ stage[r] = "idle" => tries[r] = 0
       /\ stage[r] = "read" /\ asked[r] \in EntryTool => saw[r] \in AnEntry

\* What was performed and not answered: a call that may still be made, or made
\* again, has nothing to repeat.
CountInv(r) ==
  /\ unanswered[r] <= performed[r]
  /\ performed[r] <= 1 + unanswered[r]
  /\ stage[r] \notin {"filling", "ok"} => performed[r] <= unanswered[r]

CountsInv ==
  /\ performed \in [Request -> Nat]
  /\ unanswered \in [Request -> Nat]
  /\ \A r \in Request : CountInv(r)

EntriesInv ==
  /\ entry \in [Entry -> AnEntry]
  /\ intended \in [Entry -> AnEntry]
  /\ overlapped \subseteq Entry
  /\ EditsKeepOtherFields

\* The text of a call that is still to be made is nowhere yet.
FreshInv(q) ==
  \A n \in Nat :
    <<q, n>> \in ToSet(doc) \/ (\E r \in Request : <<q, n>> \in ahead[r]) =>
      n <= tries[q] /\ (stage[q] \in {"asked", "read"} => n < tries[q])

\* Between its read and its write a tool knows the end of the document, unless
\* somebody wrote into it.
EndInv(r) ==
  stage[r] = "read" /\ asked[r] = "append_to_google_doc" =>
    saw[r] \in Nat /\ (ahead[r] = {} \/ (ahead[r] = ToSet(doc) /\ saw[r] = Len(doc)))

DocInv ==
  /\ doc \in Seq(AText)
  /\ ahead \in [Request -> SUBSET AText]
  /\ \A r \in Request : FreshInv(r) /\ EndInv(r)
  /\ AppendedTextsFollow

\* An upload that was performed and reported as such, in an answer without an error,
\* is in the current answer or in the last one.
UploadInv(r, f) ==
  /\ uploads[r][f] <= lostUploads[r][f] + spoiled[r][f]
                     + (IF stage[r] = "ok" \/ (stage[r] = "uploading" /\ f \in reported[r])
                        THEN 1 ELSE 0)
  /\ f \in toUpload[r] => f \notin reported[r]

Counts == [Request -> [Attached -> Nat]]

UploadsInv ==
  /\ toUpload \in [Request -> SUBSET Attached]
  /\ reported \in [Request -> SUBSET Attached]
  /\ uploads \in Counts /\ lostUploads \in Counts /\ spoiled \in Counts
  /\ \A r \in Request : \A f \in Attached : UploadInv(r, f)

ToolInv == CallsInv /\ CountsInv /\ EntriesInv /\ DocInv

WorkInv == ToolInv /\ UploadsInv

-----------------------------------------------------------------------------
(* Entries and texts. *)

LEMMA EditedIsEntry ==
  ASSUME NEW c \in AnEntry, NEW fields \in SUBSET Field, NEW r \in Request
  PROVE  /\ With(c, fields, r) \in AnEntry
         /\ [c EXCEPT !.guests = @ \cup {r}] \in AnEntry
<1>1. [c EXCEPT !.guests = @ \cup {r}] \in AnEntry
  BY DEF AnEntry
<1>2. /\ c.title \in Request \cup {None} /\ c.when \in Request \cup {None}
      /\ c.guests \in SUBSET Request
      /\ c["title"] = c.title /\ c["when"] = c.when /\ c["guests"] = c.guests
  BY DEF AnEntry
<1> DEFINE w == With(c, fields, r)
<1>3. w = [f \in {"title", "when", "guests"} |-> w[f]]
  BY DEF With, Field
<1>4. w["title"] \in Request \cup {None} /\ w["when"] \in Request \cup {None}
  BY <1>2 DEF With, Field
<1>5. w["guests"] \in SUBSET Request
  BY <1>2 DEF With, Field
<1> HIDE DEF w
<1>6. w = [title |-> w["title"], when |-> w["when"], guests |-> w["guests"]]
  BY <1>3
<1>7. w \in AnEntry
  BY <1>4, <1>5, <1>6 DEF AnEntry
<1> QED
  BY <1>1, <1>7 DEF w

\* What is inserted at a place moves what stood there and behind it by one.
LEMMA InsertedText ==
  ASSUME NEW S, NEW s \in Seq(S), NEW i \in 1 .. Len(s) + 1, NEW e \in S
  PROVE  /\ InsertAt(s, i, e) \in Seq(S)
         /\ Len(InsertAt(s, i, e)) = Len(s) + 1
         /\ \A k \in 1 .. Len(s) + 1 :
              InsertAt(s, i, e)[k] = IF k < i THEN s[k] ELSE IF k = i THEN e ELSE s[k - 1]
<1> DEFINE a == SubSeq(s, 1, i - 1)
           b == SubSeq(s, i, Len(s))
           m == a \o <<e>>
<1>0. Len(s) \in Nat /\ i \in Nat /\ 1 <= i /\ i <= Len(s) + 1
  OBVIOUS
<1>1. a \in Seq(S) /\ Len(a) = i - 1 /\ \A k \in 1 .. i - 1 : a[k] = s[k]
  <2>1. 1 \in Int /\ i - 1 \in Int /\ \A k \in 1 .. i - 1 : s[k] \in S
    BY <1>0
  <2>2. /\ a \in Seq(S) /\ Len(a) = IF 1 <= i - 1 THEN (i - 1) - 1 + 1 ELSE 0
        /\ \A k \in 1 .. (i - 1) - 1 + 1 : a[k] = s[1 + k - 1]
    BY <2>1, SubSeqProperties
  <2> HIDE DEF a
  <2> QED
    BY <1>0, <2>2
<1>2. /\ b \in Seq(S) /\ Len(b) = Len(s) - i + 1
      /\ \A k \in 1 .. Len(s) - i + 1 : b[k] = s[i + k - 1]
  <2>1. i \in Int /\ Len(s) \in Int /\ \A k \in i .. Len(s) : s[k] \in S
    BY <1>0
  <2>2. /\ b \in Seq(S) /\ Len(b) = IF i <= Len(s) THEN Len(s) - i + 1 ELSE 0
        /\ \A k \in 1 .. Len(s) - i + 1 : b[k] = s[i + k - 1]
    BY <2>1, SubSeqProperties
  <2> HIDE DEF b
  <2> QED
    BY <1>0, <2>2
<1> HIDE DEF a, b
<1>3. <<e>> \in Seq(S) /\ Len(<<e>>) = 1 /\ <<e>>[1] = e
  OBVIOUS
<1>4. /\ m \in Seq(S) /\ Len(m) = i
      /\ \A k \in 1 .. i : m[k] = IF k <= i - 1 THEN a[k] ELSE <<e>>[k - (i - 1)]
  BY <1>0, <1>1, <1>3, ConcatProperties
<1> HIDE DEF m
<1>5. ASSUME NEW k \in 1 .. i  PROVE m[k] = IF k < i THEN s[k] ELSE e
  <2>1. CASE k < i
    BY <1>0, <1>1, <1>4, <2>1
  <2>2. CASE k = i
    <3>1. k - (i - 1) = 1 /\ ~ (k <= i - 1) /\ ~ (k < i)
      BY <1>0, <2>2
    <3> QED
      BY <1>3, <1>4, <3>1
  <2> QED
    BY <1>0, <2>1, <2>2
<1>6. /\ m \o b \in Seq(S) /\ Len(m \o b) = i + (Len(s) - i + 1)
      /\ \A k \in 1 .. i + (Len(s) - i + 1) : (m \o b)[k] = IF k <= i THEN m[k] ELSE b[k - i]
  <2>1. /\ m \o b \in Seq(S) /\ Len(m \o b) = Len(m) + Len(b)
        /\ \A k \in 1 .. Len(m) + Len(b) :
             (m \o b)[k] = IF k <= Len(m) THEN m[k] ELSE b[k - Len(m)]
    BY <1>2, <1>4, ConcatProperties
  <2> QED
    BY <1>2, <1>4, <2>1
<1>7. InsertAt(s, i, e) = m \o b
  BY DEF InsertAt, m, a, b
<1>8. \A k \in 1 .. Len(s) + 1 :
        InsertAt(s, i, e)[k] = IF k < i THEN s[k] ELSE IF k = i THEN e ELSE s[k - 1]
  <2> SUFFICES ASSUME NEW k \in 1 .. Len(s) + 1
               PROVE  InsertAt(s, i, e)[k]
                        = IF k < i THEN s[k] ELSE IF k = i THEN e ELSE s[k - 1]
    OBVIOUS
  <2>1. CASE k <= i
    BY <1>0, <1>5, <1>6, <1>7, <2>1
  <2>2. CASE k > i
    <3>1. k - i \in 1 .. Len(s) - i + 1 /\ i + (k - i) - 1 = k - 1
      BY <1>0, <2>2
    <3>2. b[k - i] = s[k - 1]
      BY <1>2, <3>1
    <3> QED
      BY <1>0, <1>6, <1>7, <2>2, <3>2
  <2> QED
    BY <1>0, <2>1, <2>2
<1> QED
  BY <1>0, <1>6, <1>7, <1>8
-----------------------------------------------------------------------------
(* Calls and what they count. *)

\* The call of r goes to a stage behind its last write; nothing is asked.
Answered(r, s) ==
  /\ stage' = [stage EXCEPT ![r] = s]
  /\ UNCHANGED <<asked, tries, saw>>

LEMMA CallsMove ==
  ASSUME CallsInv, NEW r \in Request, NEW s \in {"filling", "uploading", "ok", "failed"}, Answered(r, s),
         workFaults' \in 0 .. MaxWorkFaults
  PROVE  CallsInv'
<1>1. /\ stage' \in [Request -> {"idle", "asked", "read", "filling", "uploading", "ok", "failed"}]
      /\ stage'[r] = s /\ \A q \in Request \ {r} : stage'[q] = stage[q]
  BY DEF CallsInv, Answered
<1>2. UNCHANGED <<asked, tries, saw>>
  BY DEF Answered
<1>3. AnEntry' = AnEntry
  BY DEF AnEntry
<1> QED
  BY <1>1, <1>2, <1>3 DEF CallsInv

\* A step without a change of the service's data.
LEMMA CountsStay ==
  ASSUME CallsInv, CountsInv, NEW r \in Request, NEW s,
         stage' = [stage EXCEPT ![r] = s], UNCHANGED <<performed, unanswered>>,
         s \in {"filling", "ok"} \/ stage[r] \notin {"filling", "ok"}
  PROVE  CountsInv'
<1>1. stage'[r] = s /\ \A q \in Request \ {r} : stage'[q] = stage[q]
  BY DEF CallsInv
<1>2. \A q \in Request : CountInv(q)'
  BY <1>1 DEF CountsInv, CountInv
<1> QED
  BY <1>2 DEF CountsInv

\* A call of the service, whatever becomes of it.
LEMMA OutcomeFacts ==
  ASSUME CallsInv, CountsInv, NEW r \in Request, NEW out \in Outcomes,
         NEW next \in {"filling", "ok"}, Outcome(r, out, next), stage[r] \in {"asked", "read"}
  PROVE  /\ CallsInv' /\ CountsInv'
         /\ \E s \in {"filling", "ok", "failed"} : Answered(r, s)
<1> DEFINE s == IF out = "done" THEN next ELSE "failed"
<1>1. s \in {"filling", "ok", "failed"} /\ Answered(r, s)
  BY DEF Outcome, Ends, Answered
<1>2. workFaults' \in 0 .. MaxWorkFaults
  BY WorkAssumption DEF Outcome, CallsInv
<1>3. CallsInv'
  BY <1>1, <1>2, CallsMove
<1>4. /\ performed' = [performed EXCEPT ![r] = IF out = "refused" THEN @ ELSE @ + 1]
      /\ unanswered' = [unanswered EXCEPT ![r] = IF out = "lost" THEN @ + 1 ELSE @]
  BY DEF Outcome
<1>5. /\ performed' \in [Request -> Nat] /\ unanswered' \in [Request -> Nat]
      /\ performed'[r] = IF out = "refused" THEN performed[r] ELSE performed[r] + 1
      /\ unanswered'[r] = IF out = "lost" THEN unanswered[r] + 1 ELSE unanswered[r]
      /\ \A q \in Request \ {r} : performed'[q] = performed[q] /\ unanswered'[q] = unanswered[q]
  BY <1>4 DEF CountsInv
<1>6. stage'[r] = s /\ \A q \in Request \ {r} : stage'[q] = stage[q]
  BY <1>1 DEF CallsInv, Answered
<1>7. ASSUME NEW q \in Request, q # r  PROVE CountInv(q)'
  BY <1>5, <1>6, <1>7 DEF CountsInv, CountInv
<1>8. CountInv(r)'
  <2>1. /\ unanswered[r] <= performed[r] /\ performed[r] <= unanswered[r]
        /\ performed[r] \in Nat /\ unanswered[r] \in Nat
    BY DEF CountsInv, CountInv
  <2>2. CASE out = "done"
    <3>1. performed'[r] = performed[r] + 1 /\ unanswered'[r] = unanswered[r]
      BY <1>5, <2>2
    <3>2. stage'[r] \in {"filling", "ok"}
      BY <1>6, <2>2
    <3> QED
      BY <2>1, <3>1, <3>2 DEF CountInv
  <2>3. CASE out = "refused"
    BY <1>5, <2>1, <2>3 DEF CountInv
  <2>4. CASE out = "lost"
    BY <1>5, <2>1, <2>4 DEF CountInv
  <2> QED
    BY <2>2, <2>3, <2>4 DEF Outcomes
<1> QED
  BY <1>1, <1>3, <1>5, <1>7, <1>8 DEF CountsInv

-----------------------------------------------------------------------------
(* The document. *)

LEMMA TextFacts ==
  ASSUME CallsInv, NEW r \in Request
  PROVE  /\ Text(r) = <<r, tries[r]>> /\ Text(r) \in AText /\ tries[r] \in Nat
         /\ \A q \in Request : q # r => Text(q) # Text(r)
BY WorkAssumption DEF CallsInv, Text, AText

\* The document and what was read of it stay.
LEMMA DocStays ==
  ASSUME CallsInv, DocInv, NEW r \in Request, NEW s \in {"filling", "uploading", "ok", "failed"}, Answered(r, s),
         UNCHANGED <<doc, ahead>>
  PROVE  DocInv'
<1>1. stage'[r] = s /\ \A q \in Request \ {r} : stage'[q] = stage[q]
  BY DEF CallsInv, Answered
<1>2. UNCHANGED <<asked, tries, saw>>
  BY DEF Answered
<1>3. ASSUME NEW q \in Request  PROVE FreshInv(q)' /\ EndInv(q)'
  <2>1. FreshInv(q) /\ EndInv(q)
    BY DEF DocInv
  <2>2. stage'[q] \in {"asked", "read"} => stage[q] = stage'[q]
    BY <1>1
  <2>3. ToSet(doc)' = ToSet(doc)
    BY DEF ToSet
  <2>4. FreshInv(q)'
    BY <2>1, <2>2, <2>3, <1>2 DEF FreshInv
  <2>5. EndInv(q)'
    BY <2>1, <2>2, <2>3, <1>2 DEF EndInv
  <2> QED
    BY <2>4, <2>5
<1>4. AppendedTextsFollow'
  BY <1>2 DEF DocInv, AppendedTextsFollow, Text
<1> QED
  BY <1>3, <1>4 DEF DocInv, AText

\* The text of a call is nowhere before it is written.
LEMMA TextIsNew ==
  ASSUME CallsInv, DocInv, NEW r \in Request, stage[r] \in {"asked", "read"}
  PROVE  Text(r) \notin ToSet(doc) /\ \A q \in Request : Text(r) \notin ahead[q]
<1>1. tries[r] \in Nat /\ FreshInv(r) /\ ~ (tries[r] < tries[r])
  BY TextFacts DEF DocInv
<1> QED
  BY <1>1 DEF FreshInv, Text

\* After r has written its text: what the others read is outdated, and every text
\* that is in the document was there, or is the new one.
LEMMA WrittenKeeps ==
  ASSUME CallsInv, DocInv, NEW r \in Request, stage[r] \in {"asked", "read"},
         NEW s \in {"filling", "uploading", "ok", "failed"}, Answered(r, s), ahead' = ReadsOutdated(r),
         doc' \in Seq(AText), ToSet(doc') \subseteq ToSet(doc) \cup {Text(r)},
         AppendedTextsFollow'
  PROVE  DocInv'
<1>1. stage'[r] = s /\ \A q \in Request \ {r} : stage'[q] = stage[q]
  BY DEF CallsInv, Answered
<1>2. UNCHANGED <<asked, tries, saw>>
  BY DEF Answered
<1>3. /\ ahead' \in [Request -> SUBSET AText]
      /\ \A q \in Request : ahead'[q] \subseteq ahead[q]
      /\ \A q \in Request \ {r} : stage[q] = "read" => ahead'[q] = {}
  BY DEF ReadsOutdated, DocInv
<1>4. ASSUME NEW q \in Request  PROVE FreshInv(q)'
  <2> SUFFICES ASSUME NEW n \in Nat,
                      <<q, n>> \in ToSet(doc') \/ (\E u \in Request : <<q, n>> \in ahead'[u])
               PROVE  n <= tries[q] /\ (stage'[q] \in {"asked", "read"} => n < tries[q])
    BY <1>2 DEF FreshInv, ToSet
  <2>1. CASE <<q, n>> = Text(r)
    BY <1>1, <2>1, TextFacts
  <2>2. CASE <<q, n>> # Text(r)
    <3>1. <<q, n>> \in ToSet(doc) \/ (\E u \in Request : <<q, n>> \in ahead[u])
      BY <1>3, <2>2
    <3>2. FreshInv(q)
      BY DEF DocInv
    <3>3. n <= tries[q] /\ (stage[q] \in {"asked", "read"} => n < tries[q])
      BY <3>1, <3>2 DEF FreshInv
    <3> QED
      BY <3>3, <1>1
  <2> QED
    BY <2>1, <2>2
<1>5. ASSUME NEW q \in Request  PROVE EndInv(q)'
  <2>1. CASE q = r
    BY <1>1, <2>1 DEF EndInv
  <2>2. CASE q # r
    BY <1>1, <1>2, <1>3, <2>2 DEF EndInv, DocInv
  <2> QED
    BY <2>1, <2>2
<1> QED
  BY <1>3, <1>4, <1>5 DEF DocInv, AText

LEMMA AppendDocKeeps ==
  ASSUME ToolInv, NEW r \in Request, AppendDoc(r)
  PROVE  ToolInv'
<1>1. /\ CallsInv /\ CountsInv /\ EntriesInv /\ DocInv
      /\ stage[r] = "read" /\ asked[r] = "append_to_google_doc" /\ saw[r] <= Len(doc)
      /\ UNCHANGED <<entry, intended, overlapped>>
  BY DEF ToolInv, AppendDoc
<1>2. PICK out \in Outcomes :
        /\ Wrote(r, "append_to_google_doc", out)
        /\ doc' = IF out \in Performs THEN Inserted(r) ELSE doc
        /\ ahead' = IF out \in Performs THEN ReadsOutdated(r) ELSE ahead
  BY DEF AppendDoc
<1>3. Outcome(r, out, "ok")
  BY <1>2 DEF Wrote
<1>4. CallsInv' /\ CountsInv' /\ \E s \in {"filling", "ok", "failed"} : Answered(r, s)
  BY <1>1, <1>3, OutcomeFacts
<1>5. PICK s \in {"filling", "ok", "failed"} : Answered(r, s)
  BY <1>4
<1>6. EntriesInv'
  BY <1>1 DEF EntriesInv, EditsKeepOtherFields, AnEntry
<1>7. CASE out \notin Performs
  <2>1. UNCHANGED <<doc, ahead>>
    BY <1>2, <1>7
  <2>2. DocInv'
    BY <1>1, <1>5, <2>1, DocStays
  <2> QED
    BY <1>4, <1>6, <2>2 DEF ToolInv
<1>8. CASE out \in Performs
  <2> DEFINE e == Text(r)
             i == saw[r] + 1
  <2>1. doc' = InsertAt(doc, i, e) /\ ahead' = ReadsOutdated(r)
    BY <1>2, <1>8 DEF Inserted
  <2>2. /\ saw[r] \in Nat /\ (ahead[r] = {} \/ (ahead[r] = ToSet(doc) /\ saw[r] = Len(doc)))
        /\ doc \in Seq(AText) /\ Len(doc) \in Nat /\ AppendedTextsFollow
    BY <1>1 DEF DocInv, EndInv
  <2>3. e \in AText /\ i \in 1 .. Len(doc) + 1
    BY <1>1, <2>2, TextFacts
  <2>4. e \notin ToSet(doc) /\ \A q \in Request : e \notin ahead[q]
    BY <1>1, TextIsNew
  <2> HIDE DEF e, i
  <2>5. /\ doc' \in Seq(AText) /\ Len(doc') = Len(doc) + 1
        /\ \A k \in 1 .. Len(doc) + 1 :
             doc'[k] = IF k < i THEN doc[k] ELSE IF k = i THEN e ELSE doc[k - 1]
    <3>1. /\ InsertAt(doc, i, e) \in Seq(AText) /\ Len(InsertAt(doc, i, e)) = Len(doc) + 1
          /\ \A k \in 1 .. Len(doc) + 1 :
               InsertAt(doc, i, e)[k] = IF k < i THEN doc[k] ELSE IF k = i THEN e ELSE doc[k - 1]
      BY <2>2, <2>3, InsertedText
    <3> QED
      BY <2>1, <3>1
  \* Where a text of the new document was before.
  <2> DEFINE Old(k) == IF k < i THEN k ELSE k - 1
  <2>6. ASSUME NEW k \in DOMAIN doc', k # i
        PROVE  /\ Old(k) \in DOMAIN doc /\ doc'[k] = doc[Old(k)]
               /\ doc'[k] \in ToSet(doc)
    <3>1. k \in 1 .. Len(doc) + 1 /\ k \in Nat /\ i \in Nat
      BY <2>2, <2>3, <2>5
    <3>2. Old(k) \in 1 .. Len(doc)
      BY <2>2, <2>3, <2>6, <3>1
    <3>3. Old(k) \in DOMAIN doc
      BY <2>2, <3>2
    <3>4. doc'[k] = doc[Old(k)]
      BY <2>5, <2>6, <3>1
    <3> HIDE DEF Old
    <3> QED
      BY <3>3, <3>4 DEF ToSet
  <2>7. i \in DOMAIN doc' /\ doc'[i] = e /\ DOMAIN doc' = 1 .. Len(doc) + 1
    BY <2>2, <2>3, <2>5
  <2>8. ToSet(doc') \subseteq ToSet(doc) \cup {e}
    <3>1. ASSUME NEW k \in DOMAIN doc'  PROVE doc'[k] \in ToSet(doc) \cup {e}
      BY <2>6, <2>7
    <3> QED
      BY <3>1 DEF ToSet
  <2>9. /\ \A q \in Request : ahead'[q] \subseteq ahead[q]
        /\ ahead'[r] = ahead[r]
    BY <1>1, <2>1 DEF ReadsOutdated, DocInv
  <2>10. AppendedTextsFollow'
    <3> SUFFICES ASSUME NEW a, a \in DOMAIN doc', NEW b, b \in DOMAIN doc', NEW q \in Request,
                        doc'[a] = Text(q), asked[q] = "append_to_google_doc", doc'[b] \in ahead'[q]
                 PROVE  b < a
      BY <1>5 DEF AppendedTextsFollow, Text, Answered
    <3>1. b # i
      BY <2>4, <2>7, <2>9
    <3>2. a \in 1 .. Len(doc) + 1 /\ b \in 1 .. Len(doc) + 1
      BY <2>7
    <3>3. Old(b) \in DOMAIN doc /\ doc'[b] = doc[Old(b)] /\ doc'[b] \in ToSet(doc)
      BY <2>6, <3>1
    <3>4. CASE q = r
      <4>1. a = i
        BY <2>4, <2>6, <3>4 DEF e
      <4>2. ahead[r] # {}
        BY <2>9, <3>4
      <4>3. i = Len(doc) + 1
        BY <2>2, <4>2 DEF i
      <4> QED
        BY <2>2, <3>1, <3>2, <4>1, <4>3
    <3>5. CASE q # r
      <4>1. a # i
        BY <1>1, <2>7, <3>5, TextFacts DEF e
      <4>2. Old(a) \in DOMAIN doc /\ doc'[a] = doc[Old(a)]
        BY <2>6, <4>1
      <4>3. doc[Old(b)] \in ahead[q]
        BY <2>9, <3>3
      <4>4. Old(b) < Old(a)
        BY <2>2, <3>3, <4>2, <4>3 DEF AppendedTextsFollow
      <4> QED
        BY <2>2, <2>3, <3>1, <3>2, <4>1, <4>4
    <3> QED
      BY <3>4, <3>5
  <2>11. DocInv'
    BY <1>1, <1>5, <2>1, <2>5, <2>8, <2>10, WrittenKeeps DEF e
  <2> QED
    BY <1>4, <1>6, <2>11 DEF ToolInv
<1> QED
  BY <1>7, <1>8

LEMMA UpdateDocContentKeeps ==
  ASSUME ToolInv, NEW r \in Request, UpdateDocContent(r)
  PROVE  ToolInv'
<1>1. /\ CallsInv /\ CountsInv /\ EntriesInv /\ DocInv
      /\ stage[r] = "asked" /\ asked[r] = "edit_google_doc"
      /\ UNCHANGED <<entry, intended, overlapped>>
  BY DEF ToolInv, UpdateDocContent, Asks
<1>2. PICK out \in Outcomes :
        /\ Outcome(r, out, "ok")
        /\ doc' = IF out \in Performs THEN <<Text(r)>> ELSE doc
        /\ ahead' = IF out \in Performs THEN ReadsOutdated(r) ELSE ahead
  BY DEF UpdateDocContent
<1>3. CallsInv' /\ CountsInv' /\ \E s \in {"filling", "ok", "failed"} : Answered(r, s)
  BY <1>1, <1>2, OutcomeFacts
<1>4. PICK s \in {"filling", "ok", "failed"} : Answered(r, s)
  BY <1>3
<1>5. EntriesInv'
  BY <1>1 DEF EntriesInv, EditsKeepOtherFields, AnEntry
<1>6. CASE out \notin Performs
  BY <1>1, <1>2, <1>3, <1>4, <1>5, <1>6, DocStays DEF ToolInv
<1>7. CASE out \in Performs
  <2> DEFINE e == Text(r)
  <2>1. doc' = <<e>> /\ ahead' = ReadsOutdated(r) /\ e \in AText
    BY <1>1, <1>2, <1>7, TextFacts
  <2>2. \A q \in Request : q # r => Text(q) # e
    BY <1>1, TextFacts
  <2> HIDE DEF e
  <2>3. doc' \in Seq(AText) /\ DOMAIN doc' = {1} /\ doc'[1] = e
    BY <2>1
  <2>4. ToSet(doc') \subseteq ToSet(doc) \cup {e}
    BY <2>3 DEF ToSet
  <2>5. AppendedTextsFollow'
    <3> SUFFICES ASSUME NEW a, a \in DOMAIN doc', NEW q \in Request,
                        doc'[a] = Text(q), asked[q] = "append_to_google_doc"
                 PROVE  FALSE
      BY <1>4 DEF AppendedTextsFollow, Text, Answered
    <3> QED
      BY <1>1, <2>2, <2>3
  <2>6. DocInv'
    BY <1>1, <1>4, <2>1, <2>3, <2>4, <2>5, WrittenKeeps DEF e
  <2> QED
    BY <1>3, <1>5, <2>6 DEF ToolInv
<1> QED
  BY <1>6, <1>7

-----------------------------------------------------------------------------
(* The other calls. *)

LEMMA ToolInit == WorkInit => ToolInv
<1> SUFFICES ASSUME WorkInit  PROVE ToolInv
  OBVIOUS
<1>1. CallsInv
  <2>1. saw \in [Request -> {None}]
    BY DEF WorkInit
  <2>2. /\ asked = [r \in Request |-> None] /\ stage = [r \in Request |-> "idle"]
        /\ tries = [r \in Request |-> 0] /\ workFaults = 0
    BY DEF WorkInit
  <2>3. 0 \in 0 .. MaxTries /\ workFaults \in 0 .. MaxWorkFaults
    BY <2>2, WorkAssumption
  <2> QED
    BY <2>1, <2>2, <2>3 DEF CallsInv
<1>2. CountsInv
  BY DEF WorkInit, CountsInv, CountInv
<1>3. Blank \in AnEntry
  BY DEF Blank, AnEntry
<1>4. EntriesInv
  BY <1>3 DEF WorkInit, EntriesInv, EditsKeepOtherFields
<1>5. doc = <<<<None, 1>>>> /\ ahead = [r \in Request |-> {}]
  BY DEF WorkInit
<1>6. doc \in Seq(AText) /\ DOMAIN doc = {1} /\ doc[1] = <<None, 1>>
  BY <1>5 DEF AText
<1>7. ASSUME NEW r \in Request  PROVE FreshInv(r) /\ EndInv(r)
  <2>1. stage[r] = "idle"
    BY DEF WorkInit
  <2>2. \A n \in Nat : <<r, n>> \notin ToSet(doc) /\ \A q \in Request : <<r, n>> \notin ahead[q]
    BY <1>5, <1>6, WorkAssumption DEF ToSet
  <2> QED
    BY <2>1, <2>2 DEF FreshInv, EndInv
<1>8. AppendedTextsFollow
  BY <1>5 DEF AppendedTextsFollow
<1> QED
  BY <1>1, <1>2, <1>4, <1>5, <1>6, <1>7, <1>8 DEF ToolInv, DocInv

LEMMA AskToolKeeps ==
  ASSUME ToolInv, NEW r \in Request, AskTool(r)
  PROVE  ToolInv'
<1>1. /\ CallsInv /\ CountsInv /\ EntriesInv /\ DocInv
      /\ stage[r] \in {"idle", "failed"}
      /\ stage' = [stage EXCEPT ![r] = "asked"]
      /\ tries' = [tries EXCEPT ![r] = @ + 1]
      /\ saw' = [saw EXCEPT ![r] = None]
      /\ UNCHANGED <<doc, entry, intended, overlapped, workFaults, performed, unanswered, ahead>>
  BY DEF ToolInv, AskTool, shared
<1>2. /\ asked' \in [Request -> WorkKind \cup {None}]
      /\ \A q \in Request \ {r} : asked'[q] = asked[q]
      /\ stage[r] = "failed" => asked' = asked
  <2>1. CASE stage[r] = "failed"
    BY <1>1, <2>1 DEF AskTool, CallsInv
  <2>2. CASE stage[r] = "idle"
    <3>1. PICK k \in MayAsk[r] : asked' = [asked EXCEPT ![r] = k]
      BY <2>2 DEF AskTool
    <3>2. k \in WorkKind
      BY AskAssumption
    <3> QED
      BY <1>1, <2>2, <3>1, <3>2 DEF CallsInv
  <2> QED
    BY <1>1, <2>1, <2>2
<1>3. /\ stage' \in [Request -> {"idle", "asked", "read", "filling", "uploading", "ok", "failed"}]
      /\ stage'[r] = "asked" /\ \A q \in Request \ {r} : stage'[q] = stage[q]
  BY <1>1 DEF CallsInv
<1>4. tries[r] \in Nat /\ tries[r] < MaxTries
  BY <1>1, WorkAssumption DEF AskTool, CallsInv
<1>5. /\ tries' \in [Request -> 0 .. MaxTries] /\ tries'[r] = tries[r] + 1
      /\ \A q \in Request \ {r} : tries'[q] = tries[q]
  BY <1>1, <1>4, WorkAssumption DEF CallsInv
<1>6. PICK S : saw \in [Request -> S]
  BY <1>1 DEF CallsInv
<1>7. /\ saw' \in [Request -> S \cup {None}]
      /\ \A q \in Request \ {r} : saw'[q] = saw[q]
  BY <1>1, <1>6
<1>8. CallsInv'
  <2>1. \E T : saw' \in [Request -> T]
    BY <1>7
  <2> QED
    BY <2>1, <1>1, <1>2, <1>3, <1>5, <1>7 DEF CallsInv, AnEntry
<1>9. CountsInv'
  BY <1>1, CountsStay
<1>10. EntriesInv'
  BY <1>1 DEF EntriesInv, EditsKeepOtherFields, AnEntry
<1>11. ASSUME NEW q \in Request  PROVE FreshInv(q)' /\ EndInv(q)'
  <2>1. FreshInv(q) /\ EndInv(q) /\ ToSet(doc)' = ToSet(doc)
    BY <1>1 DEF DocInv, ToSet
  <2>2. CASE q = r
    BY <1>1, <1>3, <1>4, <1>5, <2>1, <2>2 DEF FreshInv, EndInv
  <2>3. CASE q # r
    <3>1. /\ stage'[q] = stage[q] /\ tries'[q] = tries[q] /\ saw'[q] = saw[q]
          /\ asked'[q] = asked[q] /\ ahead' = ahead /\ doc' = doc
      BY <1>1, <1>2, <1>3, <1>5, <1>7, <2>3
    <3>2. FreshInv(q)'
      BY <2>1, <3>1 DEF FreshInv
    <3>3. EndInv(q)'
      BY <2>1, <3>1 DEF EndInv
    <3> QED
      BY <3>2, <3>3
  <2> QED
    BY <2>2, <2>3
<1>12. AppendedTextsFollow'
  <2> SUFFICES ASSUME NEW a, a \in DOMAIN doc, NEW b, b \in DOMAIN doc, NEW q \in Request,
                      doc[a] = Text(q)', asked'[q] = "append_to_google_doc", doc[b] \in ahead[q]
               PROVE  b < a
    BY <1>1 DEF AppendedTextsFollow
  <2>1. q # r
    <3>1. SUFFICES ASSUME q = r  PROVE FALSE
      OBVIOUS
    <3>2. <<r, tries[r] + 1>> \in ToSet(doc)
      BY <1>5, <3>1 DEF Text, ToSet
    <3>3. FreshInv(r)
      BY <1>1 DEF DocInv
    <3> QED
      BY <1>4, <3>2, <3>3 DEF FreshInv
  <2>2. Text(q)' = Text(q) /\ asked'[q] = asked[q]
    BY <1>2, <1>5, <2>1 DEF Text
  <2> QED
    BY <1>1, <2>2 DEF DocInv, AppendedTextsFollow
<1>13. DocInv'
  BY <1>1, <1>11, <1>12 DEF DocInv, AText
<1> QED
  BY <1>8, <1>9, <1>10, <1>13 DEF ToolInv

\* A call ends, or goes on to fill what it made, without a change that anybody
\* reads.
LEMMA EndsKeeps ==
  ASSUME ToolInv, NEW r \in Request, NEW s \in {"ok", "failed"}, Ends(r, s),
         UNCHANGED <<asked, saw, tries, performed, unanswered>>, workFaults' \in 0 .. MaxWorkFaults,
         s = "ok" \/ stage[r] \notin {"filling", "ok"},
         UNCHANGED <<doc, ahead, entry, intended, overlapped>>
  PROVE  ToolInv'
<1>1. CallsInv /\ CountsInv /\ EntriesInv /\ DocInv /\ Answered(r, s)
  BY DEF ToolInv, Ends, Answered
<1>2. CallsInv'
  BY <1>1, CallsMove
<1>3. CountsInv'
  BY <1>1, CountsStay DEF Answered
<1>4. EntriesInv'
  BY <1>1 DEF EntriesInv, EditsKeepOtherFields, AnEntry
<1>5. DocInv'
  BY <1>1, DocStays
<1> QED
  BY <1>2, <1>3, <1>4, <1>5 DEF ToolInv

LEMMA OutcomeKeeps ==
  ASSUME ToolInv, NEW r \in Request, NEW out \in Outcomes, NEW next \in {"filling", "ok"},
         Outcome(r, out, next), stage[r] \in {"asked", "read"},
         UNCHANGED <<doc, ahead, entry, intended, overlapped>>
  PROVE  ToolInv'
<1>1. CallsInv /\ CountsInv /\ EntriesInv /\ DocInv
  BY DEF ToolInv
<1>2. CallsInv' /\ CountsInv' /\ \E s \in {"filling", "ok", "failed"} : Answered(r, s)
  BY <1>1, OutcomeFacts
<1>3. PICK s \in {"filling", "ok", "failed"} : Answered(r, s)
  BY <1>2
<1>4. EntriesInv'
  BY <1>1 DEF EntriesInv, EditsKeepOtherFields, AnEntry
<1>5. DocInv'
  BY <1>1, <1>3, DocStays
<1> QED
  BY <1>2, <1>4, <1>5 DEF ToolInv

LEMMA ReadBeforeKeeps ==
  ASSUME ToolInv, NEW r \in Request, NEW kinds \in SUBSET WorkKind, NEW what,
         ReadBefore(r, kinds, what),
         kinds \cap EntryTool # {} => what \in AnEntry,
         \A q \in Request \ {r} : ahead'[q] = ahead[q],
         ahead' \in [Request -> SUBSET AText],
         ahead'[r] \subseteq ahead[r] \cup ToSet(doc),
         "append_to_google_doc" \in kinds => ahead'[r] = ToSet(doc) /\ what = Len(doc)
  PROVE  ToolInv'
<1>1. /\ CallsInv /\ CountsInv /\ EntriesInv /\ DocInv
      /\ stage[r] = "asked" /\ asked[r] \in kinds
      /\ UNCHANGED <<asked, tries, doc, entry, intended, overlapped, performed, unanswered>>
  BY DEF ToolInv, ReadBefore, Asks, shared
<1>2. PICK S : saw \in [Request -> S]
  BY <1>1 DEF CallsInv
<1>3. PICK s \in {"read", "failed"} :
        /\ stage' = [stage EXCEPT ![r] = s]
        /\ saw' = IF s = "read" THEN [saw EXCEPT ![r] = what] ELSE saw
        /\ workFaults' \in 0 .. MaxWorkFaults
  BY <1>1, WorkAssumption DEF ReadBefore, Ends, CallsInv
<1>4. /\ stage' \in [Request -> {"idle", "asked", "read", "filling", "uploading", "ok", "failed"}]
      /\ stage'[r] = s /\ \A q \in Request \ {r} : stage'[q] = stage[q]
  BY <1>1, <1>3 DEF CallsInv
<1>5. /\ saw' \in [Request -> S \cup {what}]
      /\ s = "read" => saw'[r] = what
      /\ \A q \in Request \ {r} : saw'[q] = saw[q]
  BY <1>2, <1>3
<1>6. CallsInv'
  <2>1. \E T : saw' \in [Request -> T]
    BY <1>5
  <2> QED
    BY <2>1, <1>1, <1>3, <1>4, <1>5 DEF CallsInv, AnEntry
<1>7. CountsInv'
  BY <1>1, <1>3, CountsStay
<1>8. EntriesInv'
  BY <1>1 DEF EntriesInv, EditsKeepOtherFields, AnEntry
<1>9. ASSUME NEW q \in Request  PROVE FreshInv(q)'
  <2>1. FreshInv(q) /\ ToSet(doc)' = ToSet(doc)
    BY <1>1 DEF DocInv, ToSet
  <2>2. stage'[q] \in {"asked", "read"} => stage[q] \in {"asked", "read"}
    BY <1>1, <1>4
  <2>3. ASSUME NEW n \in Nat, NEW u \in Request, <<q, n>> \in ahead'[u]
        PROVE  <<q, n>> \in ToSet(doc) \/ \E v \in Request : <<q, n>> \in ahead[v]
    BY <2>3
  <2> QED
    BY <2>1, <2>2, <2>3, <1>1 DEF FreshInv
<1>10. ASSUME NEW q \in Request  PROVE EndInv(q)'
  <2>1. EndInv(q) /\ ToSet(doc)' = ToSet(doc) /\ Len(doc) \in Nat
    BY <1>1 DEF DocInv, ToSet
  <2>2. CASE q = r
    BY <1>1, <1>4, <1>5, <2>1, <2>2 DEF EndInv
  <2>3. CASE q # r
    BY <1>1, <1>4, <1>5, <2>1, <2>3 DEF EndInv
  <2> QED
    BY <2>2, <2>3
<1>11. AppendedTextsFollow'
  <2> SUFFICES ASSUME NEW a, a \in DOMAIN doc, NEW b, b \in DOMAIN doc, NEW q \in Request,
                      doc[a] = Text(q), asked[q] = "append_to_google_doc", doc[b] \in ahead'[q]
               PROVE  b < a
    BY <1>1 DEF AppendedTextsFollow, Text
  <2>1. q # r
    BY <1>1, TextIsNew DEF ToSet
  <2> QED
    BY <1>1, <2>1 DEF DocInv, AppendedTextsFollow
<1>12. DocInv'
  BY <1>1, <1>9, <1>10, <1>11 DEF DocInv, AText
<1> QED
  BY <1>6, <1>7, <1>8, <1>12 DEF ToolInv

LEMMA ReadsKeep ==
  ASSUME ToolInv, NEW r \in Request, Reads(r)
  PROVE  ToolInv'
<1>1. CallsInv /\ EntriesInv /\ DocInv
  BY DEF ToolInv
<1>2. entry["event"] \in AnEntry /\ entry["task"] \in AnEntry
  BY <1>1 DEF EntriesInv, Entry
<1>3. ahead \in [Request -> SUBSET AText] /\ ToSet(doc) \in SUBSET AText
  BY <1>1 DEF DocInv, ToSet
<1>4. CASE ReadBefore(r, {"append_to_google_doc"}, Len(doc)) /\ ahead' = [ahead EXCEPT ![r] = ToSet(doc)]
  <2>1. /\ ahead' \in [Request -> SUBSET AText] /\ ahead'[r] = ToSet(doc)
        /\ \A q \in Request \ {r} : ahead'[q] = ahead[q]
    BY <1>3, <1>4
  <2>2. {"append_to_google_doc"} \in SUBSET WorkKind /\ {"append_to_google_doc"} \cap EntryTool = {}
    BY DEF WorkKind, EntryTool
  <2> QED
    BY <1>4, <2>1, <2>2, ReadBeforeKeeps
<1>5. ASSUME NEW kinds \in SUBSET WorkKind, NEW what, ReadBefore(r, kinds, what),
             kinds \cap EntryTool # {} => what \in AnEntry, "append_to_google_doc" \notin kinds,
             UNCHANGED ahead
      PROVE  ToolInv'
  BY <1>3, <1>5, ReadBeforeKeeps
<1>6. /\ {"delete_slide"} \in SUBSET WorkKind /\ {"move_drive_file"} \in SUBSET WorkKind
      /\ {"export_as_pdf"} \in SUBSET WorkKind /\ {"edit_task"} \in SUBSET WorkKind
      /\ {"edit_calendar_event", "add_event_attendees"} \in SUBSET WorkKind
  BY DEF WorkKind
<1>7. CASE ReadBefore(r, {"delete_slide"}, Last(slides)) /\ UNCHANGED ahead
  BY <1>5, <1>6, <1>7 DEF EntryTool
<1>8. CASE ReadBefore(r, {"move_drive_file"}, folder) /\ UNCHANGED ahead
  BY <1>5, <1>6, <1>8 DEF EntryTool
<1>9. CASE ReadBefore(r, {"export_as_pdf"}, None) /\ UNCHANGED ahead
  BY <1>5, <1>6, <1>9 DEF EntryTool
<1>10. CASE /\ ReadBefore(r, {"edit_calendar_event", "add_event_attendees"}, entry["event"])
            /\ UNCHANGED ahead
  BY <1>2, <1>5, <1>6, <1>10
<1>11. CASE ReadBefore(r, {"edit_task"}, entry["task"]) /\ UNCHANGED ahead
  BY <1>2, <1>5, <1>6, <1>11
<1> QED
  BY <1>4, <1>7, <1>8, <1>9, <1>10, <1>11 DEF Reads

\* An edit that was built from the entry as it is leaves what was intended: in
\* the copy only the given fields differ.
LEMMA WriteEntryKeeps ==
  ASSUME ToolInv, NEW r \in Request, NEW kind \in WorkKind, NEW e \in Entry,
         NEW whole \in AnEntry, NEW meant \in AnEntry,
         saw[r] = entry[e] /\ entry[e] = intended[e] => whole = meant,
         WriteEntry(r, kind, e, whole, meant)
  PROVE  ToolInv'
<1>1. /\ CallsInv /\ CountsInv /\ EntriesInv /\ DocInv
      /\ UNCHANGED <<doc, ahead>>
  BY DEF ToolInv, WriteEntry
<1>2. PICK out \in Outcomes :
        /\ Wrote(r, kind, out)
        /\ IF out \in Performs
           THEN /\ entry' = [entry EXCEPT ![e] = whole]
                /\ intended' = [intended EXCEPT ![e] = meant]
                /\ overlapped' = IF saw[r] = entry[e] THEN overlapped ELSE overlapped \cup {e}
           ELSE UNCHANGED <<entry, intended, overlapped>>
  BY DEF WriteEntry
<1>3. Outcome(r, out, "ok") /\ stage[r] \in {"asked", "read"}
  BY <1>2 DEF Wrote
<1>4. CallsInv' /\ CountsInv' /\ \E s \in {"filling", "ok", "failed"} : Answered(r, s)
  BY <1>1, <1>3, OutcomeFacts
<1>5. PICK s \in {"filling", "ok", "failed"} : Answered(r, s)
  BY <1>4
<1>6. DocInv'
  BY <1>1, <1>5, DocStays
<1>7. EntriesInv'
  <2>1. CASE out \notin Performs
    BY <1>1, <1>2, <2>1 DEF EntriesInv, EditsKeepOtherFields, AnEntry
  <2>2. CASE out \in Performs
    <3>1. /\ entry' = [entry EXCEPT ![e] = whole]
          /\ intended' = [intended EXCEPT ![e] = meant]
          /\ overlapped' = IF saw[r] = entry[e] THEN overlapped ELSE overlapped \cup {e}
      BY <1>2, <2>2
    <3>2. /\ entry \in [Entry -> AnEntry] /\ intended \in [Entry -> AnEntry]
          /\ overlapped \subseteq Entry
          /\ \A d \in Entry : d \in overlapped \/ entry[d] = intended[d]
      BY <1>1 DEF EntriesInv, EditsKeepOtherFields
    <3>3. /\ entry' \in [Entry -> AnEntry] /\ intended' \in [Entry -> AnEntry]
          /\ overlapped' \subseteq Entry /\ overlapped \subseteq overlapped'
          /\ entry'[e] = whole /\ intended'[e] = meant
          /\ \A d \in Entry \ {e} : entry'[d] = entry[d] /\ intended'[d] = intended[d]
      BY <3>1, <3>2
    <3>4. e \in overlapped' \/ entry'[e] = intended'[e]
      BY <3>1, <3>2, <3>3
    <3> QED
      BY <3>2, <3>3, <3>4 DEF EntriesInv, EditsKeepOtherFields, AnEntry
  <2> QED
    BY <2>1, <2>2
<1> QED
  BY <1>4, <1>6, <1>7 DEF ToolInv

LEMMA EditsKeep ==
  ASSUME ToolInv, NEW r \in Request, EditEvent(r) \/ AddAttendees(r) \/ EditTask(r)
  PROVE  ToolInv'
<1>1. /\ CallsInv /\ EntriesInv
      /\ intended["event"] \in AnEntry /\ intended["task"] \in AnEntry
      /\ "event" \in Entry /\ "task" \in Entry
  BY DEF ToolInv, EntriesInv, Entry
<1>2. /\ "edit_calendar_event" \in WorkKind /\ "add_event_attendees" \in WorkKind
      /\ "edit_task" \in WorkKind
  BY DEF WorkKind
<1>3. ASSUME NEW kind, NEW e, NEW whole, NEW meant, WriteEntry(r, kind, e, whole, meant),
             kind \in EntryTool
      PROVE  saw[r] \in AnEntry
  BY <1>1, <1>3 DEF WriteEntry, Wrote, CallsInv
<1>4. CASE EditEvent(r)
  <2>1. PICK fields \in SUBSET Field :
          WriteEntry(r, "edit_calendar_event", "event",
                     Sent(saw[r], fields, r), With(intended["event"], fields, r))
    BY <1>4 DEF EditEvent
  <2>2. saw[r] \in AnEntry
    BY <1>3, <2>1 DEF EntryTool
  <2>3. Sent(saw[r], fields, r) \in AnEntry /\ With(intended["event"], fields, r) \in AnEntry
    BY <1>1, <2>2, EditedIsEntry DEF Sent
  <2>4. saw[r] = entry["event"] /\ entry["event"] = intended["event"] =>
          Sent(saw[r], fields, r) = With(intended["event"], fields, r)
    BY DEF Sent
  <2> QED
    BY <1>1, <1>2, <2>1, <2>3, <2>4, WriteEntryKeeps
<1>5. CASE AddAttendees(r)
  <2>1. WriteEntry(r, "add_event_attendees", "event",
                   [saw[r] EXCEPT !.guests = @ \cup {r}],
                   [intended["event"] EXCEPT !.guests = @ \cup {r}])
    BY <1>5 DEF AddAttendees
  <2>2. saw[r] \in AnEntry
    BY <1>3, <2>1 DEF EntryTool
  <2>3. /\ [saw[r] EXCEPT !.guests = @ \cup {r}] \in AnEntry
        /\ [intended["event"] EXCEPT !.guests = @ \cup {r}] \in AnEntry
    BY <1>1, <2>2, EditedIsEntry
  <2>4. saw[r] = entry["event"] /\ entry["event"] = intended["event"] =>
          [saw[r] EXCEPT !.guests = @ \cup {r}] = [intended["event"] EXCEPT !.guests = @ \cup {r}]
    OBVIOUS
  <2> QED
    BY <1>1, <1>2, <2>1, <2>3, <2>4, WriteEntryKeeps
<1>6. CASE EditTask(r)
  <2>1. PICK fields \in SUBSET {"title", "when"} :
          WriteEntry(r, "edit_task", "task",
                     Sent(saw[r], fields, r), With(intended["task"], fields, r))
    BY <1>6 DEF EditTask
  <2>2. saw[r] \in AnEntry /\ fields \in SUBSET Field
    BY <1>3, <2>1 DEF EntryTool, Field
  <2>3. Sent(saw[r], fields, r) \in AnEntry /\ With(intended["task"], fields, r) \in AnEntry
    BY <1>1, <2>2, EditedIsEntry DEF Sent
  <2>4. saw[r] = entry["task"] /\ entry["task"] = intended["task"] =>
          Sent(saw[r], fields, r) = With(intended["task"], fields, r)
    BY DEF Sent
  <2> QED
    BY <1>1, <1>2, <2>1, <2>3, <2>4, WriteEntryKeeps
<1> QED
  BY <1>4, <1>5, <1>6

LEMMA ToolStep ==
  ASSUME ToolInv, (\E r \in Request : UsesTool(r)) \/ UNCHANGED workVars
  PROVE  ToolInv'
<1>0. workFaults \in 0 .. MaxWorkFaults /\ MaxWorkFaults \in Nat
  BY WorkAssumption DEF ToolInv, CallsInv
<1>1. workFaults < MaxWorkFaults /\ workFaults' = workFaults + 1 => workFaults' \in 0 .. MaxWorkFaults
  BY <1>0
<1>2. ASSUME NEW r \in Request,
             RefuseArguments(r) \/ Look(r) \/ Fill(r) \/ Outdated(r) \/ NoSlideLeft(r)
      PROVE  ToolInv'
  <2>1. CASE RefuseArguments(r)
    BY <1>0, <2>1, EndsKeeps DEF RefuseArguments, Asks, shared
  <2>2. CASE Look(r)
    BY <1>0, <1>1, <2>2, EndsKeeps DEF Look, Asks, shared
  <2>3. CASE Fill(r)
    BY <1>0, <1>1, <2>3, EndsKeeps DEF Fill, shared
  <2>4. CASE Outdated(r)
    BY <1>0, <2>4, EndsKeeps DEF Outdated, shared
  <2>5. CASE NoSlideLeft(r)
    BY <1>0, <2>5, EndsKeeps DEF NoSlideLeft, Asks, shared
  <2> QED
    BY <1>2, <2>1, <2>2, <2>3, <2>4, <2>5
<1>3. ASSUME NEW r \in Request,
             WriteOnce(r) \/ MakeThenFill(r) \/ AddSlide(r) \/ DeleteSlide(r) \/ MoveFile(r)
               \/ ExportPDF(r)
      PROVE  ToolInv'
  <2>1. CASE WriteOnce(r)
    BY <2>1, OutcomeKeeps DEF WriteOnce, Asks, shared
  <2>2. CASE MakeThenFill(r)
    BY <2>2, OutcomeKeeps DEF MakeThenFill, Asks, shared
  <2>3. CASE AddSlide(r)
    BY <2>3, OutcomeKeeps DEF AddSlide, Asks
  <2>4. CASE DeleteSlide(r)
    BY <2>4, OutcomeKeeps DEF DeleteSlide, Wrote
  <2>5. CASE MoveFile(r)
    BY <2>5, OutcomeKeeps DEF MoveFile, Wrote
  <2>6. CASE ExportPDF(r)
    BY <2>6, OutcomeKeeps DEF ExportPDF, Wrote, shared
  <2> QED
    BY <1>3, <2>1, <2>2, <2>3, <2>4, <2>5, <2>6
<1>4. CASE UNCHANGED workVars
  <2> USE <1>4 DEF workVars
  <2>1. CallsInv'
    BY DEF ToolInv, CallsInv, AnEntry
  <2>2. CountsInv'
    BY DEF ToolInv, CountsInv, CountInv
  <2>3. EntriesInv'
    BY DEF ToolInv, EntriesInv, EditsKeepOtherFields, AnEntry
  <2>4. \A r \in Request : FreshInv(r)' /\ EndInv(r)'
    BY DEF ToolInv, DocInv, FreshInv, EndInv, ToSet
  <2>5. AppendedTextsFollow'
    BY DEF ToolInv, DocInv, AppendedTextsFollow, Text
  <2>6. DocInv'
    BY <2>4, <2>5 DEF ToolInv, DocInv, AText
  <2> QED
    BY <2>1, <2>2, <2>3, <2>6 DEF ToolInv
<1> QED
  BY <1>2, <1>3, <1>4, AskToolKeeps, ReadsKeep, AppendDocKeeps, UpdateDocContentKeeps, EditsKeep
     DEF UsesTool

-----------------------------------------------------------------------------
(* The uploads of all attached files. *)

\* A step of another tool: the request was neither done nor uploading, and is not
\* uploading after it.
LEMMA UploadsStay ==
  ASSUME CallsInv, UploadsInv, UNCHANGED uploadVars, NEW r \in Request, NEW s,
         stage' = [stage EXCEPT ![r] = s], stage[r] \notin {"ok", "uploading"}, s # "uploading"
  PROVE  UploadsInv'
<1>1. stage'[r] = s /\ \A q \in Request \ {r} : stage'[q] = stage[q]
  BY DEF CallsInv
<1>2. UNCHANGED <<toUpload, reported, uploads, lostUploads, spoiled>>
  BY DEF uploadVars
<1>3. ASSUME NEW q \in Request, NEW f \in Attached  PROVE UploadInv(q, f)'
  <2>1. UploadInv(q, f) /\ uploads[q][f] \in Nat /\ lostUploads[q][f] \in Nat /\ spoiled[q][f] \in Nat
    BY DEF UploadsInv, Counts
  <2>2. CASE q = r
    BY <1>1, <1>2, <2>1, <2>2 DEF UploadInv
  <2>3. CASE q # r
    BY <1>1, <1>2, <2>1, <2>3 DEF UploadInv
  <2> QED
    BY <2>2, <2>3
<1> QED
  BY <1>2, <1>3 DEF UploadsInv, Counts

\* Every step of a tool that makes one call, or two, moves one request on.
LEMMA ToolsMoveOn ==
  ASSUME NEW r \in Request, UsesTool(r)
  PROVE  \E s : /\ stage' = [stage EXCEPT ![r] = s] /\ s # "uploading"
               /\ stage[r] \notin {"ok", "uploading"}
<1>1. CASE AskTool(r)
  BY <1>1 DEF AskTool
<1>2. CASE RefuseArguments(r) \/ Look(r) \/ Fill(r) \/ Outdated(r) \/ NoSlideLeft(r)
  BY <1>2 DEF RefuseArguments, Look, Fill, Outdated, NoSlideLeft, Asks, Ends
<1>3. CASE Reads(r)
  <2>1. PICK kinds, what : ReadBefore(r, kinds, what)
    BY <1>3 DEF Reads
  <2> QED
    BY <2>1 DEF ReadBefore, Asks, Ends
<1>4. ASSUME NEW out, NEW next \in {"filling", "ok"}, Outcome(r, out, next), stage[r] \in {"asked", "read"}
      PROVE  \E s : /\ stage' = [stage EXCEPT ![r] = s] /\ s # "uploading"
                   /\ stage[r] \notin {"ok", "uploading"}
  <2>1. stage' = [stage EXCEPT ![r] = IF out = "done" THEN next ELSE "failed"]
    BY <1>4 DEF Outcome, Ends
  <2> QED
    BY <1>4, <2>1
<1>5. CASE WriteOnce(r) \/ MakeThenFill(r) \/ UpdateDocContent(r) \/ AddSlide(r)
  BY <1>4, <1>5 DEF WriteOnce, MakeThenFill, UpdateDocContent, AddSlide, Asks
<1>6. CASE AppendDoc(r) \/ DeleteSlide(r) \/ MoveFile(r) \/ ExportPDF(r)
  BY <1>4, <1>6 DEF AppendDoc, DeleteSlide, MoveFile, ExportPDF, Wrote
<1>7. CASE EditEvent(r) \/ AddAttendees(r) \/ EditTask(r)
  <2>1. PICK kind, e, whole, meant : WriteEntry(r, kind, e, whole, meant)
    BY <1>7 DEF EditEvent, AddAttendees, EditTask
  <2>2. PICK out \in Outcomes : Wrote(r, kind, out)
    BY <2>1 DEF WriteEntry
  <2> QED
    BY <1>4, <2>2 DEF Wrote
<1> QED
  BY <1>1, <1>2, <1>3, <1>5, <1>6, <1>7 DEF UsesTool

LEMMA CountsOneMore ==
  ASSUME NEW c \in Counts, NEW r \in Request, NEW f \in Attached
  PROVE  /\ OneMore(c, r, f) \in Counts
         /\ OneMore(c, r, f)[r][f] = c[r][f] + 1
         /\ \A q \in Request : \A g \in Attached :
              q # r \/ g # f => OneMore(c, r, f)[q][g] = c[q][g]
<1> DEFINE d == [c[r] EXCEPT ![f] = c[r][f] + 1]
<1>1. c[r] \in [Attached -> Nat]
  BY DEF Counts
<1>2. /\ d \in [Attached -> Nat] /\ d[f] = c[r][f] + 1
      /\ \A g \in Attached : g # f => d[g] = c[r][g]
  BY <1>1
<1>3. OneMore(c, r, f) = [c EXCEPT ![r] = d]
  BY DEF OneMore
<1> HIDE DEF d
<1>4. /\ OneMore(c, r, f) \in [Request -> [Attached -> Nat]]
      /\ OneMore(c, r, f)[r] = d
      /\ \A q \in Request : q # r => OneMore(c, r, f)[q] = c[q]
  BY <1>2, <1>3 DEF Counts
<1> QED
  BY <1>2, <1>4 DEF Counts

LEMMA StartUploadsKeeps ==
  ASSUME CallsInv, UploadsInv, NEW r \in Request, StartUploads(r)
  PROVE  UploadsInv'
<1>1. /\ stage' = [stage EXCEPT ![r] = "uploading"] /\ stage[r] = "asked"
      /\ toUpload' = [toUpload EXCEPT ![r] = Attached]
      /\ reported' = [reported EXCEPT ![r] = {}]
      /\ UNCHANGED <<uploads, lostUploads, spoiled>>
  BY DEF StartUploads, Asks, Ends
<1>2. /\ stage'[r] = "uploading" /\ \A q \in Request \ {r} : stage'[q] = stage[q]
      /\ toUpload' \in [Request -> SUBSET Attached] /\ reported' \in [Request -> SUBSET Attached]
      /\ reported'[r] = {}
      /\ \A q \in Request \ {r} : toUpload'[q] = toUpload[q] /\ reported'[q] = reported[q]
  BY <1>1 DEF CallsInv, UploadsInv
<1>3. ASSUME NEW q \in Request, NEW f \in Attached  PROVE UploadInv(q, f)'
  <2>1. UploadInv(q, f) /\ uploads[q][f] \in Nat /\ lostUploads[q][f] \in Nat /\ spoiled[q][f] \in Nat
    BY DEF UploadsInv, Counts
  <2>2. CASE q = r
    BY <1>1, <1>2, <2>1, <2>2 DEF UploadInv
  <2>3. CASE q # r
    BY <1>1, <1>2, <2>1, <2>3 DEF UploadInv
  <2> QED
    BY <2>2, <2>3
<1> QED
  BY <1>1, <1>2, <1>3 DEF UploadsInv, Counts

LEMMA UploadFileKeeps ==
  ASSUME CallsInv, UploadsInv, NEW r \in Request, UploadFile(r)
  PROVE  UploadsInv'
<1>1. PICK f \in toUpload[r], out \in Outcomes :
        /\ toUpload' = [toUpload EXCEPT ![r] = @ \ {f}]
        /\ reported' = IF out = "done" THEN [reported EXCEPT ![r] = @ \cup {f}] ELSE reported
        /\ uploads' = IF out \in Performs THEN OneMore(uploads, r, f) ELSE uploads
        /\ lostUploads' = IF out = "lost" THEN OneMore(lostUploads, r, f) ELSE lostUploads
  BY DEF UploadFile
<1>2. stage[r] = "uploading" /\ UNCHANGED <<stage, spoiled>>
  BY DEF UploadFile
<1>3. f \in Attached /\ uploads \in Counts /\ lostUploads \in Counts /\ spoiled \in Counts
  BY DEF UploadsInv
<1>4. /\ toUpload' \in [Request -> SUBSET Attached] /\ toUpload'[r] = toUpload[r] \ {f}
      /\ \A q \in Request : q # r => toUpload'[q] = toUpload[q]
  BY <1>1 DEF UploadsInv
<1>5. /\ reported' \in [Request -> SUBSET Attached]
      /\ reported'[r] = IF out = "done" THEN reported[r] \cup {f} ELSE reported[r]
      /\ \A q \in Request : q # r => reported'[q] = reported[q]
  BY <1>1, <1>3 DEF UploadsInv
<1>6. uploads' \in Counts /\ lostUploads' \in Counts /\ spoiled' \in Counts
  BY <1>1, <1>2, <1>3, CountsOneMore
<1>7. \A q \in Request : \A g \in Attached :
        q # r \/ g # f => uploads'[q][g] = uploads[q][g] /\ lostUploads'[q][g] = lostUploads[q][g]
  BY <1>1, <1>3, CountsOneMore
<1>8. /\ uploads'[r][f] = IF out \in Performs THEN uploads[r][f] + 1 ELSE uploads[r][f]
      /\ lostUploads'[r][f] = IF out = "lost" THEN lostUploads[r][f] + 1 ELSE lostUploads[r][f]
  BY <1>1, <1>3, CountsOneMore
<1>9. ASSUME NEW q \in Request, NEW g \in Attached  PROVE UploadInv(q, g)'
  <2>1. UploadInv(q, g) /\ uploads[q][g] \in Nat /\ lostUploads[q][g] \in Nat /\ spoiled[q][g] \in Nat
    BY DEF UploadsInv, Counts
  <2>2. CASE q # r
    BY <1>2, <1>4, <1>5, <1>7, <2>1, <2>2 DEF UploadInv
  <2>3. CASE q = r /\ g # f
    <3>1. /\ g \in toUpload'[r] <=> g \in toUpload[r]
          /\ g \in reported'[r] <=> g \in reported[r]
      BY <1>4, <1>5, <2>3
    <3> QED
      BY <1>2, <1>7, <2>1, <2>3, <3>1 DEF UploadInv
  <2>4. CASE q = r /\ g = f
    <3>1. f \notin reported[r] /\ f \notin toUpload'[r]
      BY <1>4, <2>1, <2>4 DEF UploadInv
    <3>2. uploads[r][f] <= lostUploads[r][f] + spoiled[r][f]
      BY <1>2, <2>1, <2>4, <3>1 DEF UploadInv
    <3>3. CASE out = "done"
      <4>1. /\ uploads'[r][f] = uploads[r][f] + 1 /\ lostUploads'[r][f] = lostUploads[r][f]
            /\ f \in reported'[r] /\ stage'[r] = "uploading"
        BY <1>2, <1>5, <1>8, <3>3 DEF Performs
      <4> QED
        BY <1>2, <2>1, <2>4, <3>1, <3>2, <4>1 DEF UploadInv
    <3>4. CASE out # "done"
      <4>1. /\ f \notin reported'[r] /\ stage'[r] = "uploading"
            /\ \/ uploads'[r][f] = uploads[r][f] /\ lostUploads'[r][f] = lostUploads[r][f]
               \/ uploads'[r][f] = uploads[r][f] + 1 /\ lostUploads'[r][f] = lostUploads[r][f] + 1
        BY <1>2, <1>5, <1>8, <3>1, <3>4 DEF Performs, Outcomes
      <4> QED
        BY <1>2, <2>1, <2>4, <3>1, <3>2, <4>1 DEF UploadInv
    <3> QED
      BY <3>3, <3>4
  <2> QED
    BY <2>2, <2>3, <2>4
<1> QED
  BY <1>4, <1>5, <1>6, <1>9 DEF UploadsInv

LEMMA UploadsEndKeeps ==
  ASSUME CallsInv, UploadsInv, NEW r \in Request, UploadsEnd(r)
  PROVE  UploadsInv'
<1>1. /\ stage[r] = "uploading"
      /\ UNCHANGED <<toUpload, reported, uploads, lostUploads>>
  BY DEF UploadsEnd
<1>2. PICK s \in {"ok", "failed"} :
        /\ stage' = [stage EXCEPT ![r] = s]
        /\ \/ s = "ok" /\ spoiled' = spoiled
           \/ s = "failed"
              /\ spoiled' = [spoiled EXCEPT ![r] =
                              [f \in Attached |-> IF f \in reported[r] THEN @[f] + 1 ELSE @[f]]]
  BY DEF UploadsEnd, Ends
<1>3. stage'[r] = s /\ \A q \in Request \ {r} : stage'[q] = stage[q]
  BY <1>2 DEF CallsInv
<1> DEFINE more == [f \in Attached |-> IF f \in reported[r] THEN spoiled[r][f] + 1 ELSE spoiled[r][f]]
<1>4. /\ more \in [Attached -> Nat]
      /\ \A f \in Attached : more[f] = IF f \in reported[r] THEN spoiled[r][f] + 1 ELSE spoiled[r][f]
  BY DEF UploadsInv, Counts
<1>5. s = "failed" => spoiled' = [spoiled EXCEPT ![r] = more]
  BY <1>2
<1> HIDE DEF more
<1>6. /\ spoiled' \in Counts
      /\ \A q \in Request \ {r} : spoiled'[q] = spoiled[q]
      /\ s = "ok" => spoiled'[r] = spoiled[r]
      /\ s = "failed" => spoiled'[r] = more
  BY <1>2, <1>4, <1>5 DEF UploadsInv, Counts
<1>7. ASSUME NEW q \in Request, NEW f \in Attached  PROVE UploadInv(q, f)'
  <2>1. UploadInv(q, f) /\ uploads[q][f] \in Nat /\ lostUploads[q][f] \in Nat /\ spoiled[q][f] \in Nat
    BY DEF UploadsInv, Counts
  <2>2. CASE q # r
    BY <1>1, <1>3, <1>6, <2>1, <2>2 DEF UploadInv
  <2>3. CASE q = r /\ s = "ok"
    BY <1>1, <1>3, <1>6, <2>1, <2>3 DEF UploadInv
  <2>4. CASE q = r /\ s = "failed"
    BY <1>1, <1>3, <1>4, <1>6, <2>1, <2>4 DEF UploadInv
  <2> QED
    BY <2>2, <2>3, <2>4
<1> QED
  BY <1>1, <1>6, <1>7 DEF UploadsInv

LEMMA UploadsKeepTheTools ==
  ASSUME ToolInv, NEW r \in Request, UploadsAll(r)
  PROVE  ToolInv'
<1>1. UNCHANGED <<asked, saw, tries, shared, performed, unanswered, ahead>>
  BY DEF UploadsAll
<1>2. CallsInv /\ CountsInv /\ EntriesInv /\ DocInv
  BY DEF ToolInv
<1>3. workFaults' \in 0 .. MaxWorkFaults
  BY <1>2, WorkAssumption DEF UploadsAll, StartUploads, UploadFile, UploadsEnd, CallsInv
<1>4. PICK s \in {"uploading", "ok", "failed"} :
        stage' = [stage EXCEPT ![r] = s] /\ stage[r] \in {"asked", "uploading"}
  <2>1. CASE StartUploads(r)
    BY <2>1 DEF StartUploads, Asks, Ends
  <2>2. CASE UploadFile(r)
    <3>1. stage[r] = "uploading" /\ stage' = stage
      BY <2>2 DEF UploadFile
    <3>2. stage' = [stage EXCEPT ![r] = "uploading"]
      BY <1>2, <3>1 DEF CallsInv
    <3> QED
      BY <3>1, <3>2
  <2>3. CASE UploadsEnd(r)
    BY <2>3 DEF UploadsEnd, Ends
  <2> QED
    BY <2>1, <2>2, <2>3 DEF UploadsAll
<1>5. Answered(r, s)
  BY <1>1, <1>4 DEF Answered
<1>6. CallsInv'
  BY <1>2, <1>3, <1>5, CallsMove
<1>7. CountsInv'
  BY <1>1, <1>2, <1>4, CountsStay
<1>8. EntriesInv'
  BY <1>1, <1>2 DEF shared, EntriesInv, EditsKeepOtherFields, AnEntry
<1>9. DocInv'
  BY <1>1, <1>2, <1>5, DocStays DEF shared
<1> QED
  BY <1>6, <1>7, <1>8, <1>9 DEF ToolInv

LEMMA WorkInitInv == WorkInit => WorkInv
<1> SUFFICES ASSUME WorkInit  PROVE UploadsInv
  BY ToolInit DEF WorkInv
<1>1. /\ toUpload = [r \in Request |-> {}] /\ reported = [r \in Request |-> {}]
      /\ uploads = [r \in Request |-> [f \in Attached |-> 0]]
      /\ lostUploads = uploads /\ spoiled = uploads
  BY DEF WorkInit
<1>2. \A r \in Request : \A f \in Attached : uploads[r][f] = 0 /\ toUpload[r] = {}
  BY <1>1
<1> QED
  BY <1>1, <1>2 DEF UploadsInv, UploadInv, Counts

LEMMA WorkStep == WorkInv /\ [WorkNext]_workVars => WorkInv'
<1> SUFFICES ASSUME WorkInv, [WorkNext]_workVars  PROVE WorkInv'
  OBVIOUS
<1>0. ToolInv /\ UploadsInv /\ CallsInv
  BY DEF WorkInv, ToolInv
<1>1. ASSUME NEW r \in Request, UsesTool(r), UNCHANGED uploadVars  PROVE WorkInv'
  <2>1. ToolInv'
    BY <1>0, <1>1, ToolStep
  <2>2. PICK s : /\ stage' = [stage EXCEPT ![r] = s] /\ s # "uploading"
                 /\ stage[r] \notin {"ok", "uploading"}
    BY <1>1, ToolsMoveOn
  <2>3. UploadsInv'
    BY <1>0, <1>1, <2>2, UploadsStay
  <2> QED
    BY <2>1, <2>3 DEF WorkInv
<1>2. ASSUME NEW r \in Request, UploadsAll(r)  PROVE WorkInv'
  <2>1. ToolInv'
    BY <1>0, <1>2, UploadsKeepTheTools
  <2>2. UploadsInv'
    BY <1>0, <1>2, StartUploadsKeeps, UploadFileKeeps, UploadsEndKeeps DEF UploadsAll
  <2> QED
    BY <2>1, <2>2 DEF WorkInv
<1>3. CASE UNCHANGED workVars
  <2>1. ToolInv'
    BY <1>0, <1>3, ToolStep
  <2>2. UNCHANGED <<stage, toUpload, reported, uploads, lostUploads, spoiled>>
    BY <1>3 DEF workVars, uploadVars
  <2>3. \A r \in Request : \A f \in Attached : UploadInv(r, f)'
    BY <1>0, <2>2 DEF UploadsInv, UploadInv
  <2>4. UploadsInv'
    BY <1>0, <2>2, <2>3 DEF UploadsInv, Counts
  <2> QED
    BY <2>1, <2>4 DEF WorkInv
<1> QED
  BY <1>1, <1>2, <1>3 DEF WorkNext

-----------------------------------------------------------------------------
(* The theorems. *)

\* Calls, counts, entries and the document are consistent, for any number of
\* conversations that use the tools at once.
THEOREM WorkIsConsistent == WorkSpec => []WorkInv
<1> QED
  BY WorkInitInv, WorkStep, PTL DEF WorkSpec

\* The calls of the tools, the entries and the document keep their types, and no
\* more changes went unanswered than were performed.
THEOREM WorkTypeCorrect == WorkSpec => []WorkTypeOK
<1>1. WorkInv => WorkTypeOK
  BY DEF WorkInv, ToolInv, UploadsInv, CallsInv, CountsInv, CountInv, EntriesInv, AnEntry, WorkTypeOK
<1> QED
  BY <1>1, WorkIsConsistent, PTL

\* Asking again after an error repeats no change, unless the answer to the change
\* was lost; and no upload of one of several files, unless an error was reported of
\* it or of another in the same answer (google_writer.go, notion_writer.go and
\* executor.go, upload_to_drive).
THEOREM NothingIsRepeated == WorkSpec => []ChangesAreNotRepeated
<1>1. ToolInv => \A r \in Request : performed[r] <= 1 + unanswered[r]
  BY DEF ToolInv, CountsInv, CountInv
<1>2. ASSUME UploadsInv, NEW r \in Request, NEW f \in Attached
      PROVE  uploads[r][f] <= 1 + lostUploads[r][f] + spoiled[r][f]
  <2>1. uploads[r][f] \in Nat /\ lostUploads[r][f] \in Nat /\ spoiled[r][f] \in Nat
    BY <1>2 DEF UploadsInv, Counts
  <2>2. UploadInv(r, f)
    BY <1>2 DEF UploadsInv
  <2> QED
    BY <2>1, <2>2 DEF UploadInv
<1>3. WorkInv => ChangesAreNotRepeated
  BY <1>1, <1>2 DEF WorkInv, ChangesAreNotRepeated
<1> QED
  BY <1>3, WorkIsConsistent, PTL

\* An entry that nobody wrote on an outdated copy holds exactly what the edits
\* performed on it were told to change (EditEvent, AddAttendees, EditTask).
THEOREM OtherFieldsAreKept == WorkSpec => []EditsKeepOtherFields
<1>1. WorkInv => EditsKeepOtherFields
  BY DEF WorkInv, ToolInv, EntriesInv
<1> QED
  BY <1>1, WorkIsConsistent, PTL

\* An appended text comes after every text its tool had read, unless somebody
\* wrote into the document meanwhile (AppendDoc).
THEOREM AppendedTextsComeLast == WorkSpec => []AppendedTextsFollow
<1>1. WorkInv => AppendedTextsFollow
  BY DEF WorkInv, ToolInv, DocInv
<1> QED
  BY <1>1, WorkIsConsistent, PTL

=============================================================================
