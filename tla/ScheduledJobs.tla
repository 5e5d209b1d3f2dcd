----------------------------- MODULE ScheduledJobs -----------------------------
(***************************************************************************)
(* Messages scheduled by the bot's tools (internal/tools/                  *)
(* scheduler_manager.go) and posted by the job schedulers                  *)
(* (internal/worker/jobscheduler.go).  There is one scheduler for each     *)
(* platform, and both poll the whole table: a channel of the other         *)
(* platform is unknown to them, and its jobs stay due in their lists.      *)
(*                                                                         *)
(* Time is counted in steps between which nothing falls due.  Left out:    *)
(* texts, the names of channels, statements that only read and fail.       *)
(***************************************************************************)
EXTENDS Naturals

CONSTANTS
  Job,          \* jobs that are ever created
  Platform,     \* the platforms that are configured, each with a scheduler
  PlatformOf,   \* [Job -> the platform of its channel]
  Recurring,    \* the jobs with a cron expression
  Cron,         \* [Job -> the times its cron expression names]
  Horizon,      \* bound: the last time
  MaxJobFaults  \* bound: failed posts and statements, stops and crashes

ASSUME JobsAssumption ==
  /\ Recurring \subseteq Job
  /\ Cron \in [Job -> SUBSET (1 .. Horizon)]
  /\ Horizon \in Nat /\ MaxJobFaults \in Nat

VARIABLES
  clock,
  jobState,     \* [Job -> "new", "stored", "cancelled" or "done"]
  nextRun,      \* [Job -> the column next_run]
  poll,         \* [Platform -> the poll its scheduler is in]
  service,      \* the program: "up", "stopping" or "down"
  jobFaults,
  (* kept for the properties *)
  firstRun,     \* [Job -> the first next_run]
  sent,         \* [Job -> posts since next_run was last written]
  unsure,       \* [Job -> posts since then that could not be recorded]
  through,      \* [Job -> the time of the last poll that posted it]
  late          \* [Job -> posts since it was cancelled]

jobsGhosts == <<firstRun, sent, unsure, through, late>>
jobsVars == <<clock, jobState, nextRun, poll, service, jobFaults, jobsGhosts>>

Times == 0 .. Horizon

\* No scheduler posts at this time: after the horizon.
Never == Horizon + 1

\* A poll in progress: when it began, the jobs it has still to post, and the one
\* that was posted and is not yet recorded.
Poll == [busy : BOOLEAN, now : Times, list : SUBSET Job, posted : SUBSET Job]
Between == [busy |-> FALSE, now |-> 0, list |-> {}, posted |-> {}]

JobsTypeOK ==
  /\ clock \in Times
  /\ jobState \in [Job -> {"new", "stored", "cancelled", "done"}]
  /\ nextRun \in [Job -> 0 .. Never]
  /\ poll \in [Platform -> Poll]
  /\ service \in {"up", "stopping", "down"}
  /\ jobFaults \in 0 .. MaxJobFaults
  /\ firstRun \in [Job -> 0 .. Never]
  /\ sent \in [Job -> Nat]
  /\ unsure \in [Job -> Nat]
  /\ through \in [Job -> Times]
  /\ late \in [Job -> Nat]

JobsInit ==
  /\ clock = 0
  /\ jobState = [j \in Job |-> "new"]
  /\ nextRun = [j \in Job |-> 0]
  /\ poll = [p \in Platform |-> Between]
  /\ service = "up"
  /\ jobFaults = 0
  /\ firstRun = [j \in Job |-> 0]
  /\ sent = [j \in Job |-> 0]
  /\ unsure = [j \in Job |-> 0]
  /\ through = [j \in Job |-> 0]
  /\ late = [j \in Job |-> 0]

JobFault ==
  /\ jobFaults < MaxJobFaults
  /\ jobFaults' = jobFaults + 1

-----------------------------------------------------------------------------
(* The tools. *)

\* The first time the cron expression of j names after t.
NextAfter(j, t) ==
  LET later == {n \in Cron[j] : n > t} IN
  IF later = {} THEN Never ELSE CHOOSE n \in later : \A k \in later : n <= k

StoreJob(j, at) ==
  /\ service # "down"
  /\ jobState[j] = "new"
  /\ jobState' = [jobState EXCEPT ![j] = "stored"]
  /\ nextRun' = [nextRun EXCEPT ![j] = at]
  /\ firstRun' = [firstRun EXCEPT ![j] = at]
  /\ UNCHANGED <<clock, poll, service, jobFaults, sent, unsure, through, late>>

\* The times a text may be read as.
SendAt == Times

\* A time that is over is refused.
ScheduleMessage(j) ==
  /\ j \notin Recurring
  /\ \E at \in SendAt : at >= clock /\ StoreJob(j, at)

CreateRecurringJob(j) ==
  /\ j \in Recurring
  /\ StoreJob(j, NextAfter(j, clock))

\* The row is deleted; a poll in progress may hold a copy.
CancelJob(j) ==
  /\ service # "down"
  /\ jobState[j] = "stored"
  /\ jobState' = [jobState EXCEPT ![j] = "cancelled"]
  /\ UNCHANGED <<clock, nextRun, poll, service, jobFaults, jobsGhosts>>

-----------------------------------------------------------------------------
(* A scheduler. *)

\* Without the condition on enabled, and a cancelled job only disabled.
DueEvenCancelled ==
  {j \in Job : jobState[j] \in {"stored", "cancelled"} /\ nextRun[j] <= clock}

DueJobs == {j \in Job : jobState[j] = "stored" /\ nextRun[j] <= clock}

StartPoll(p) ==
  /\ service # "down"
  /\ ~ poll[p].busy
  /\ poll' = [poll EXCEPT ![p] = [busy |-> TRUE, now |-> clock, list |-> DueJobs, posted |-> {}]]
  /\ UNCHANGED <<clock, jobState, nextRun, service, jobFaults, jobsGhosts>>

\* The jobs come in the order of next_run; no copy of a job is left behind by
\* the poll that changes its row.
NextToPost(p, j) ==
  /\ poll[p].posted = {}
  /\ j \in poll[p].list
  /\ \A k \in poll[p].list : nextRun[j] <= nextRun[k]

CountPost(j) ==
  /\ sent' = [sent EXCEPT ![j] = @ + 1]
  /\ through' = [through EXCEPT ![j] = poll[PlatformOf[j]].now]
  /\ late' = IF jobState[j] = "cancelled" THEN [late EXCEPT ![j] = @ + 1] ELSE late

\* A scheduler that can post to the channels of the other platform as well.
PostAnywhere(p, j) ==
  /\ NextToPost(p, j)
  /\ CountPost(j)
  /\ poll' = [poll EXCEPT ![p].list = @ \ {j}, ![p].posted = {j}]
  /\ UNCHANGED <<clock, jobState, nextRun, service, jobFaults, firstRun, unsure>>

PostMessage(p, j) ==
  /\ NextToPost(p, j)
  /\ PlatformOf[j] = p
  /\ CountPost(j)
  /\ poll' = [poll EXCEPT ![p].list = @ \ {j}, ![p].posted = {j}]
  /\ UNCHANGED <<clock, jobState, nextRun, service, jobFaults, firstRun, unsure>>

\* The channel is not one of this platform.
PostRefused(p, j) ==
  /\ NextToPost(p, j)
  /\ PlatformOf[j] # p
  /\ poll' = [poll EXCEPT ![p].list = @ \ {j}]
  /\ UNCHANGED <<clock, jobState, nextRun, service, jobFaults, jobsGhosts>>

\* The post fails.  It may have arrived all the same, whole if the answer came
\* too late, or in part if it was sent in pieces.
PostFails(p, j) ==
  /\ NextToPost(p, j)
  /\ PlatformOf[j] = p
  /\ JobFault
  /\ poll' = [poll EXCEPT ![p].list = @ \ {j}]
  /\ \/ /\ CountPost(j)
        /\ unsure' = [unsure EXCEPT ![j] = @ + 1]
     \/ UNCHANGED <<sent, unsure, through, late>>
  /\ UNCHANGED <<clock, jobState, nextRun, service, firstRun>>

\* The next run counted from now, not from the beginning of the poll.
RecordFromNow(p, j) ==
  /\ j \in poll[p].posted
  /\ poll' = [poll EXCEPT ![p].posted = {}]
  /\ IF jobState[j] # "stored" THEN UNCHANGED <<jobState, nextRun, sent, unsure>>
     ELSE /\ nextRun' = [nextRun EXCEPT ![j] = NextAfter(j, clock)]
          /\ sent' = [sent EXCEPT ![j] = 0]
          /\ unsure' = [unsure EXCEPT ![j] = 0]
          /\ UNCHANGED jobState
  /\ UNCHANGED <<clock, service, jobFaults, firstRun, through, late>>

\* A message sent once is deleted, the next run of another is written.  Neither
\* statement finds the row of a job that was cancelled meanwhile.
RecordPost(p, j) ==
  /\ j \in poll[p].posted
  /\ poll' = [poll EXCEPT ![p].posted = {}]
  /\ IF jobState[j] # "stored" THEN UNCHANGED <<jobState, nextRun, sent, unsure>>
     ELSE IF j \in Recurring
     THEN /\ nextRun' = [nextRun EXCEPT ![j] = NextAfter(j, poll[p].now)]
          /\ sent' = [sent EXCEPT ![j] = 0]
          /\ unsure' = [unsure EXCEPT ![j] = 0]
          /\ UNCHANGED jobState
     ELSE /\ jobState' = [jobState EXCEPT ![j] = "done"]
          /\ UNCHANGED <<nextRun, sent, unsure>>
  /\ UNCHANGED <<clock, service, jobFaults, firstRun, through, late>>

\* The statement fails: the job stays due.
RecordFails(p, j) ==
  /\ j \in poll[p].posted
  /\ JobFault
  /\ poll' = [poll EXCEPT ![p].posted = {}]
  /\ unsure' = [unsure EXCEPT ![j] = @ + 1]
  /\ UNCHANGED <<clock, jobState, nextRun, service, firstRun, sent, through, late>>

EndPoll(p) ==
  /\ poll[p].busy
  /\ poll[p].list = {} /\ poll[p].posted = {}
  /\ poll' = [poll EXCEPT ![p] = Between]
  /\ UNCHANGED <<clock, jobState, nextRun, service, jobFaults, jobsGhosts>>

-----------------------------------------------------------------------------
(* The program. *)

\* A poll goes on, and one more may begin, while the stop waits for it.
StopService ==
  /\ service = "up"
  /\ JobFault
  /\ service' = "stopping"
  /\ UNCHANGED <<clock, jobState, nextRun, poll, jobsGhosts>>

Ended ==
  /\ service' = "down"
  /\ poll' = [p \in Platform |-> Between]
  /\ unsure' = [j \in Job |-> IF \E p \in Platform : j \in poll[p].posted
                              THEN unsure[j] + 1 ELSE unsure[j]]
  /\ UNCHANGED <<clock, jobState, nextRun, firstRun, sent, through, late>>

\* A stop waits 20 seconds for a scheduler, and then ends the process.
ExitService == service = "stopping" /\ Ended /\ UNCHANGED jobFaults

CrashService == service = "up" /\ JobFault /\ Ended

StartService ==
  /\ service = "down"
  /\ service' = "up"
  /\ UNCHANGED <<clock, jobState, nextRun, poll, jobFaults, jobsGhosts>>

TimePasses ==
  /\ clock < Horizon
  /\ clock' = clock + 1
  /\ UNCHANGED <<jobState, nextRun, poll, service, jobFaults, jobsGhosts>>

PollStep(p) ==
  \/ StartPoll(p) \/ EndPoll(p)
  \/ \E j \in Job : \/ PostMessage(p, j) \/ PostRefused(p, j) \/ PostFails(p, j)
                    \/ RecordPost(p, j) \/ RecordFails(p, j)

JobsNext ==
  \/ \E j \in Job : ScheduleMessage(j) \/ CreateRecurringJob(j) \/ CancelJob(j)
  \/ \E p \in Platform : PollStep(p)
  \/ StopService \/ ExitService \/ CrashService \/ StartService \/ TimePasses

JobsSpec == JobsInit /\ [][JobsNext]_jobsVars

-----------------------------------------------------------------------------
(* Properties. *)

\* Two schedulers, restarts and cancellations in any order post a message once
\* for each time it was due, and once more only for each post that could not be
\* recorded: its answer or the statement after it failed, or the program ended
\* in between.
PostedOncePerRun == \A j \in Job : sent[j] <= unsure[j] + 1

\* No run is passed over.  A message that is sent once leaves the table by
\* itself only after a post; the next run of any other moves on only past times
\* that a poll which posted it had reached, however long the poll took.
NoRunLost ==
  \A j \in Job :
    /\ jobState[j] = "done" => through[j] >= firstRun[j]
    /\ jobState[j] = "stored" /\ j \in Recurring =>
         \A t \in Cron[j] : firstRun[j] <= t /\ t < nextRun[j] => t <= through[j]

\* A job that was cancelled is posted at most once more, by a poll that had read
\* it before, and its row never comes back.
CancelledFallsSilent == \A j \in Job : late[j] <= 1
=============================================================================
