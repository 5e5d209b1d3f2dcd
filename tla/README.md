# TLA+ specifications of the Xylolabs Knowledge Engine

The Knowledge Engine is one Go process (`cmd/xylolabs-kb`) with a Node.js child
process. It collects messages and documents from Slack, Discord, Google and
Notion into a SQLite index, answers people in Slack and Discord with a model
that may call tools, and lets the model act in other systems through plugins.
The only plugin is DaouOffice (`plugins/daouoffice`), which drives a groupware
web site with a headless browser.

Reading what a model asks for is harmless; *submitting* what it asks for is not.
So the specifications start with the path from a tool call to a write in
DaouOffice: the approval registry, the plugin's guard, and the pool of browser
sessions it works with. Next comes the path by which messages enter the index
(`SlackSync`, and its simpler relatives for Discord, Drive and Notion), and then
the services around them: the bot's requests, the threads it follows, its tools,
scheduled messages, the plugin's process and the knowledge repository.

All line numbers are those of `PROJECT.json`, whose `map` names the lines behind
every definition.

## 1. Inventory

### Components, their state and operations

| Component | State | Operations | Here |
|---|---|---|---|
| Plugin action registry (`internal/plugin/registry.go`, `inbox.go`, `storage/plugins.go`) | table `plugin_actions` (status, expiry, `updated_at`), table `plugin_accounts`, inbox directories | Dispatch, preview, holdForKick, Approve, LoginAndResume, Cancel, RecoverStale, Expire, Connect, disconnect | `PluginActions` |
| Approvals in the bot, janitor (`internal/bot/plugins.go`) | decisions in progress, prompts' messages | buttons, text decisions, forms, the janitor's tick | janitor and order of calls in `PluginActions`, queued prompts in `BotRequests` |
| MCP client (`plugin/mcpstdio/client.go`) | session, its `done` channel, tool list, closed flag | Call with one retry, current, restart, refreshTools, Close | `McpClient` |
| DaouOffice runtime and guard (`runtime.mjs`, `guard.mjs`, `db.mjs` previews) | table of preview digests, per-call guard flags | preview, execute, assertPreviewed, assertExecute, markSent | `PreviewedWrites` |
| DaouOffice session pool (`sessions.mjs`) | contexts, slots, waiters, per-account locks, idle and expiry timers | withSession, verify, withScratchContext, forget, park, trim | `SessionPool` |
| DaouOffice tools and web client (`tools/`, `dao/`) | none of their own | forms, amounts, card matching, browser steps | not modelled |
| Slack connector, sync scheduler, sync manager | sync cursor, event queue, channel name cache | events, Sync, FullSync, Stop | `SlackSync` (names left out) |
| Discord connector | one cursor for all channels | events, Sync | `DiscordSync` |
| Google connector (`google/connector.go`, `drive.go`) | change token | Sync (all files, or changes) | `DriveSync` |
| Notion connector | visited pages of a walk | Sync | `NotionCrawl` |
| Scheduled messages (`worker/jobscheduler.go`, `tools/scheduler_manager.go`) | table `scheduled_jobs` | ScheduleMessage, CreateRecurringJob, CancelJob, poll | `ScheduledJobs` |
| Bot (`bot/handler.go`) | requests, count of running work, closing flag | respond, the tool loop, Shutdown | `BotRequests` |
| Platforms (`bot/slack_platform.go`, `discord_platform.go`) | caches of threads | IsTrackedThread, TrackThread, cleanupCaches, PostReply | `ChatThreads` |
| Tool executor (`tools/executor.go`, `outbox.go`) | last capture; a request's outgoing files | Declarations, Execute, PopScreenshot, attachFile | `ToolTable`, `BotRequests` |
| Writers (`tools/google_writer.go`, `notion_writer.go`) | none; Google's and Notion's documents | tools that read and write | `Workspace` |
| Knowledge repository (`kbrepo`) | files of a git checkout | Pull, SaveFact, BuildContext | `KnowledgeFiles` (SaveFact, Pull) |
| Knowledge engine and storage | documents, attachments, sync state | Index, Search, RenameChannel, migrations | Index and sync state in the syncs' modules |
| REST API (`internal/api`) | login sessions, syncs it started | CRUD, search, trigger a sync | triggered syncs in `SlackSync` |
| Model client, extractor, kb-gen, scripts | none that outlives a call | pure I/O | not modelled (`kb-gen-run.sh`'s commits in `KnowledgeFiles`) |

`PROJECT.json` lists all of them with every source file and the reason for what
is left out.

### How they interact

* A message for the bot becomes a request to the model; a tool call goes through
  the executor to `Registry.Dispatch`. A read tool runs at once; a write tool is
  called in mode *preview*, its preview stored as a `pending` row, and a prompt
  with buttons posted after the reply.
* A button press or the word for yes runs `Registry.Approve` in a goroutine of
  the bot: an UPDATE with a condition on the status claims the row, the plugin
  is called in mode *execute*, and a second UPDATE writes the outcome. Another
  goroutine, the janitor, changes rows at any time.
* A call crosses to the plugin over stdio. The client repeats a preview once if
  the process went away, never an execute. In the plugin the runtime compares
  what is about to be written with the digest stored by the preview, and the
  guard refuses any write without that comparison.
* Inside the plugin each call runs under its account's lock with a browser
  context of the pool.
* Slack events and syncs both end in `Engine.Index`; they share the documents
  table, and concurrent syncs share one row of sync state. The other connectors
  do the same with rows of their own.
* Each platform has a bot, an executor, a job scheduler and a reader of the
  knowledge repository of its own; the schedulers share one table, the readers
  one checkout, and all conversations of a bot one executor.
* A reply that is worth remembering ends in `SaveFact`, in the background.
* On SIGTERM all parts stop side by side, each within a limit; the plugins close
  last. A crash or kill may come at any step; the service manager restarts.

### What is hard here

Decisions race with each other and with the janitor; calls outlive the deadline
of those who wait for them; rows, attachment directories and digests are written
in separate steps with a crash possible in between; a preview may be approved
half an hour and a restart later in a changed world; parking and timers of the
pool work across awaits on state that a call may have taken; a cursor moves over
messages nobody has read; a process is replaced while calls use it; a post is made
and recorded in two steps; what was read from a document or a cache is used after
somebody changed it; two programs commit in one checkout, and two readers make the
same list; one request of several fails and the rest goes on as if nothing had
happened (a nested block, one file's contents, one upload, one prompt). `PROJECT.json` lists
these at their lines under `hazards`, with the properties that cover them or the
reason why none does.

### What makes each part correct

* Registry: one claim at a time, at most one submission per action, none for an
  action that is offered, cancelled or expired; attachments live as long as they
  are needed; every action ends.
* Guard and digests: a write is what a preview planned, a preview is good for
  one write, a retry is offered only if nothing was written.
* Pool: slots are neither lost nor exceeded, a context in use is not closed, no
  caller waits while it need not, no context is forgotten, every call ends.
* Sync: a message behind the cursor is indexed, or there is a known reason why
  not; a full backfill is complete, but for threads that a bot began.
* Scheduled messages: one post for each due time, no due time passed over, and
  silence after a cancellation.
* Plugin client: one process, an execute sent once, the tools of the session that
  is in use.
* Bot: every message gets some answer, what was promised goes out, and a drain
  leaves nothing behind.
* Threads: a thread the bot is known in is never turned down.
* Writers: a change is not made twice unless an error was reported of it, an edit
  keeps what it did not touch as long as no other overlaps it.
* Discord, Drive: nothing behind the cursor or token was never read, unless its
  request failed. Notion: a walk leaves out nothing that a page it read holds within
  the depth it found that page at, but for blocks it could not read.
* Knowledge repository: a fact reported as saved is in the remote, and in the lists
  unless another save made them anew.

## 2. Modules

    ActionLifecycle           what an action's owner may rely on (abstract)
       ^ implemented by
    PluginActions             registry, table, janitor, inbox directories
       ^ proofs: PluginActions_proofs     instance: MCPluginActions
    PreviewedWrites           registry's calls x runtime, guard and digests
       ^ proofs: PreviewedWrites_proofs   instance: MCPreviewedWrites
    SessionPool               the browser contexts below the runtime
       ^ proofs: SessionPool_proofs       instance: MCSessionPool
    SlackSync                 events, syncs, cursor, process
       ^ proofs: SlackSync_proofs         instance: MCSlackSync
    ScheduledJobs             the job schedulers and their table
    McpClient                 the plugin's process, session and tool list
       ^ proofs: McpClient_proofs
    ToolTable                 what is declared and what each tool needs
       ^ extended by
    BotRequests               messages, tool rounds, replies, the drain
                                          instance: MCBotRequests
    ChatThreads               the caches of threads
    Workspace                 writes to Google and Notion
    DiscordSync, DriveSync, NotionCrawl   the other connectors
       ^ proofs: DiscordSync_proofs
    KnowledgeFiles            facts in the git checkout
                                          sum of these: MCServices

    BotServices_proofs        ScheduledJobs, BotRequests, ChatThreads, Workspace
    Sources_proofs            DriveSync, NotionCrawl, KnowledgeFiles, MCServices

### PluginActions

State: one record per row spread over `status`, `left` (time to `expires_at`)
and `age` (time since `updated_at`); `account` and `inbox` are the rest of what
is stored; `pc`, `op`, `on`, `did`, `out`, `due` and `drop` are the goroutines
in registry operations; `jpc` and `batch` the janitor. `performed` counts, for
each action, what really happened in DaouOffice, and `lost` holds calls that
still run although their caller gave up or died. None of these two is visible to
the code: the properties are about them.

Each database statement, plugin call and directory removal is one step, so that
others may come in between. The conditional UPDATE is
`TransitionPluginAction(a, from, to)`; the janitor's `UPDATE ... RETURNING` may
change rows and fail to report them (`BulkUpdate`). Time is relative (`Tick`), so
no horizon is needed. A plugin call may change DaouOffice at any moment before
it returns, and a call whose deadline passed may do so afterwards
(`LostCallEnds`). The ids of actions are never used twice, like UUIDs.

What the model takes from outside `src/internal`: a plugin call that answers
AUTH_FAILED, NOT_CONNECTED or DUPLICATE_SESSION has done nothing
(`CallRefused`). `PreviewedWrites` shows that the plugin keeps that promise.

`ActionLifecycle` is the promise itself: the moves between statuses, and that an
action is performed at most once and only after it was claimed.

### PreviewedWrites

State: `stored`, `planned` and `usedBy` are the digests (a digest stands for the
preview that stored it; digests of equal plans are equal); `status`, `tries` and
`shown` the registry's and client's side of a call; `run` the plugin's side;
`written` what reached DaouOffice; `world` its contents.

A handler is *any* program over the runtime's interface: it may build its plan,
compare, write and throw in any order and any number of times. What holds here
holds for every tool. The account's lock is left out, which only adds
interleavings. Digests may expire and processes exit or restart at any step.

### SessionPool

State: `entries` (the map of accounts to contexts), `ctx` (each context's flags
and timers), `active`, `waiters`, `queue` (the promise chain of each account),
`parks` (parks past their first await), `call`. The code is single-threaded: a
step runs from one await to the next, and work whose promise has resolved runs
before any new event (`Busy`), as microtasks do. Closing a context or page takes
any time. The browser may die, a login be refused, an answer be a 401.

### SlackSync

State: `posts` (what Slack has), `documents` (what the index has), `queue`
(events acknowledged but not handled), `cursor`, `sync` (each pass in progress:
cursor it read, channels left, messages in hand), `process`. `blind` collects,
as history, the messages for which there is a reason to be missed: their request
failed, they were posted behind a pass that will not look again, or they reply
in a thread that a pass does not visit. It is only written, never read, by
the actions.

A message is a person's or a bot's (`bot`). Those of bots are neither indexed nor
looked below: `conversations.history` lists the message that began a thread, and
`syncChannel` skips it before it asks for the replies, so a person's reply there comes
by its event or not at all (`BotBegan`, the third reason in `GapsExplained`).

Time is Slack's: message *n* is posted at time *n*, and a cursor is a number of
messages. The host's clock is taken to agree with Slack's. Each request to Slack
may be refused (a failure counts against `MaxFaults`) or cut off, when the
program stops or an API sync's 30 minutes are over.

### ScheduledJobs

State: `jobState` and `nextRun` are the table, `poll` each platform's scheduler:
the time its poll began, the jobs it has read and the one it has posted without
recording it. `service` is the program. Posts and statements fail, posts may
arrive all the same, the program stops or crashes anywhere. `sent`, `unsure`,
`through` and `late` count for the properties what happened to each run.

### McpClient

State: `state` of each process, `session` and `ended` (whose end the client has
noticed, some time after it happened), `mutex`, `closed`; for each call where it
is and which session it uses; the list of tools and the refreshes in progress. A
process may break its pipes or die at any step.

### ToolTable, BotRequests

`ToolTable` is pure: for each tool the service it needs, the arguments its
declaration requires and those its branch of `dispatch` refuses to go without.
`BotRequests` is one message after the other or side by side: `request` (where
`respond` is), `iteration`, `outbox`, `answer`, `prompts`; shared by all
`screenshot`, `listed` (the plugin's tools) and `background` (what `goTracked`
runs); `botClosing` and `botDrained`. The model's answers are chosen freely from
what the instance allows, and any call may fail or panic. A prompt that cannot be
posted is logged and forgotten (`PostPrompts`): its action expires in the registry.
Files go up from messages that have some attached (`WithFiles`).

### ChatThreads

`tracked` and `notBot` are the two caches, `botPosts` what Slack knows, `check`
the lookups in progress (the steps of `IsTrackedThread`, with the request to
Slack between them). A thread may grow past what a lookup reads (`buried`), a post
may arrive though its answer is lost, the caches are halved, the program restarts.

### Workspace

A tool is one of a few shapes: one request; a check and a request; make and then
fill; read and then write. Each of the executor's writing tools is put into its
shape, and those that read something first (AppendDoc, AddSlide, MoveFile,
EditEvent, AddAttendees, EditTask, ...) are modelled with what they read. Requests
fail before or after their effect, and the model may ask again. `upload_to_drive`
without a file's name is a loop (`StartUploads`, `UploadFile`, `UploadsEnd`): the
attached files go up in any order, and an answer that is no error lists which of them
failed. `lostUploads` and `spoiled` count why a file may be uploaded again: its own
upload was reported as an error, or another's was in the same answer. A refusal of a
stale edit by Google is one of the ways in which any request may be refused.

### DiscordSync, DriveSync, NotionCrawl

`DiscordSync`: messages of a few channels by id, the cursor, and syncs at once, each
with its channel and how far it has read; events index messages too, and a full
sync resets the cursor under syncs in progress. `DriveSync`: files with versions,
the list of changes, the stored token, and two syncs with what they have fetched;
contents that cannot be had are replaced by the file's description without an error
(`ContentsFail`), which overwrites what was indexed before.
`NotionCrawl`: a stack of frames for the recursion, over any graph of child pages
and databases, with cycles. A page that is read may lack any part of what it holds
when nested blocks fail (`found` in `Visit`), and lacks what is nested more than five
levels deep (`Buried`); it is stored and its walk goes on all the same.

### KnowledgeFiles

Four trees (checkout, index, last commit, remote), a save's next command, the
mutex of each reader. Two readers and `kb-gen-run.sh` take turns after every
command; commands fail, the remote moves on, the program crashes. A list is looked
for, made (which truncates what somebody else has made meanwhile) and appended to in
three steps (`LookForList`, `MakeList`, `AppendToList`); `erased` remembers what was in
a list that was made anew.

## 3. Runs

Every run's cfg gives constants values and nothing else.

| Run | Instance | What it shows |
|---|---|---|
| `actions_safety` | a submission and a login_kick of one person, 2 callers, 1 failure, 1 crash, TTL 2 | the safety properties, and the refinement of `ActionLifecycle` |
| `actions_liveness` | a submission and a disconnect, 1 caller, 1 failure, 1 crash | every stored action ends, also after a crash or a lost status write |
| `preview_safety` | 2 actions of one call and one attachment, 2 worlds, 2 changes, 2 failures | what is written was previewed, once, and an offered action is unwritten |
| `preview_shown` (violated) | the same, 1 change | the write need not be what *its own* prompt showed |
| `pool_safety` | 2 accounts, 3 calls at once (4 in all) of every kind, 1 slot, 1 parked, 1 failure | slots, contexts in use, waiters and forgotten contexts |
| `pool_liveness` | 2 accounts, 3 session calls, 1 slot, 1 failure | every call ends although no queue timeout is assumed to fire |
| `pool_trim` (violated) | no parked contexts allowed, 2 slots | trimming loses track of a slot |
| `pool_expiry` (violated) | 2 calls at once, no failures | a timer closes a live session |
| `slack_safety` | 2 channels, the scheduler's sync and an API sync, 2 messages of people or bots, 1 failure | gaps are explained, a clean backfill is complete but for threads of bots |
| `slack_cutoff` (violated) | 1 channel, 1 sync, no failures | a sync that is cut off loses what it had not read |
| `services` | `MCServices`, below | the invariants of the nine modules from `ScheduledJobs` to `KnowledgeFiles` |
| `screenshots` (violated) | 2 messages | one conversation uploads the capture of another |

`MCServices` chooses one component at the start and runs it while the variables
of the others stay as they are. The components share no variable, so its states
are the sum of theirs (1.49 million), and an invariant holds there exactly when it
holds of the component alone (that each component behaves as its own specification
says is proved: `EachRunsAsItself`). Its instances: 2 jobs, one recurring, both on
Slack, with both platforms polling, times up to 2; 2 calls, one of them an
execute, 2 processes, 1 change of the tool list; 2 messages (one that may be
skipped, one that has files attached), 2 rounds of tools, room for 1 of 2 files; 2 threads, 1 handler, caches
for 1 entry each, times up to 2; 2 requests of any kind with 2 files attached, each asked twice; 2 channels, 2
messages, pages of 1, 2 syncs; 2 files, 2 syncs, 2 changes, pages of 1; 4 pages with a cycle,
a database and a page nested too deep, depth 2, 2 walks; 2 facts under one name, from
2 readers, with the lists there or not, 1 push or script run elsewhere. Each has one failure, crash or stop (the Notion walk
two).

`slack_safety` and `services` are run under a view (`Relevant` in `MCSlackSync` and
`MCServices`). TLC then takes two states for one when they differ only in what
no action and no property looks at: messages that are indexed, which they stay
for good, in the ghosts that say why a message is *not* indexed (`blind`, the
`due` of a sync, `passedBy`), and in `services` the variables of the components
that do not run. `slack_safety` also takes the two channels for alike.

**Why these bounds are enough to be interesting.** Two callers, or one caller
and the janitor, are what a race over one row needs; a third decision behaves as
the second. One submission and the kick it turns into share their attachments,
which two unrelated actions do not. One crash and one failure already combine
with each other. TTL 2 with a stale limit above the call timeout leaves a tick on either side of
each deadline. For the digests, two actions under one key are the only way to
confuse them. Three calls on one slot make a queue of two, so that handover
order matters. Two channels make a sync that has read one and not the other, two
syncs one that overtakes; two messages are a thread and its reply, or a message
on each side of a cursor. Pages smaller than what there is to read, caches smaller
than the number of threads and fewer slots for files than files make the limits
bite that are 100 messages, 1000 threads and 5 files in the code. A second
process is needed for a restart, a second platform to fight over a job. What the bounds do not cover, the theorems do: they
hold for any number of callers, actions, keys, channels, syncs, messages,
failures and crashes.

`CHECK_DEADLOCK FALSE` is set where a bounded number of calls or actions is used
up in the end; `PluginActions` and `SlackSync` are checked for deadlock. The
components of `services` are checked for safety only, and no fairness is assumed
of them.

**Fairness.**
`PluginActions!FairSpec`: goroutines are scheduled and their calls return by the
deadline of their context; the janitor's ticker fires and time passes; the start
of the plugin succeeds or fails; systemd restarts the process
(`configs/xylolabs-kb.service`, `Restart=always`). Nobody is assumed to press a
button.
`SessionPool!FairSpec`: resolved promises continue, and browser and network
calls end, each having a timeout of its own; neither timers nor the queue
timeout are assumed.

### Findings

* `pool_trim`: `#trimParked` chooses victims, awaits, and closes them without
  looking again; a call may have resumed one meanwhile. In `pool_safety` this
  cannot be seen: with two accounts and one slot at most one context more than
  allowed is parked. With room for none the count goes wrong.
* `pool_expiry`: the expiry timer of a context is armed after an await, for a
  session that a call may have renewed.
* `preview_shown`: digests are kept per owner, tool and arguments. Of two
  previews of the same call the later one's digest counts, so the first prompt's
  approval writes what the second showed. `runtime.mjs` says that execute does
  exactly what the preview showed; it does what *a* preview showed
  (`WrittenAsPreviewed`, which holds).
* `slack_cutoff`: after a stop each remaining channel fails at once and the
  cursor is stored all the same.
* `screenshots`: the executor keeps one capture for all conversations.

Without a run of their own, seen while modelling and listed in `PROJECT.json`. The
first five are exceptions in the properties of `slack_safety` and `services`; stated
without it, TLC finds each of these properties violated:

* A message of a bot is skipped with its thread. The data source guide calls the sync
  a safety net that catches anything that was missed; replies to a bot are not caught
  (`BotBegan` in `GapsExplained` and `BackfillIsComplete`).
* EditEvent, EditTask and AddAttendees write back all of what they read. EditEvent's
  comment says that only non-empty fields are updated (`overlapped` in
  `EditsKeepOtherFields`).
* A document's end is read first and the text inserted there later (`ahead`, in
  `AppendedTextsFollow`, is emptied when somebody writes in between).
* A page of Notion is marked visited at the depth it is met first, so a shorter way to
  it, from another root page for one, is not taken. Sync's comment says that it
  discovers all child pages (`depthOf` in `WalkIsComplete` is the depth of that first
  meeting).
* The lists of facts are made without a lock common to the two Readers, and with a
  truncating write: of two first saves at once one erases the other's entry (`erased` in
  `SavedFactsArrive`).
* Slack's cursor is the time at the end of a pass; what was posted after its
  channel was read is behind it (part of `GapsExplained`'s reasons).
* SaveFact's clean-up after a failed commit looks at `args[1]`, which is `-C`, and
  never runs. `KnowledgeFiles` follows the code: what was staged stays.
* On Discord the bot's request gets a context that is cancelled as soon as the
  event handler returns, and replies outside threads go to a channel whose id is
  a message's.
* Discord's first sync reads the newest 100 messages of a channel and no others.
* A thread the bot answered with a file alone may be ignored for five minutes;
  long threads are given to the model from their beginning; `parseStartColumn`
  does not do what its comment says.

## 4. Proofs

Every invariant that a passing run checks is also a theorem, for every value of
the constants the assumptions allow; two of them (`InUseKept`, `SlotsAccounted`)
of the behaviours without one kind of step, given below. All proofs are checked by TLAPS, from the
named assumptions on constants (`...Assumption`, one or two in each module that
declares constants), which TLC also evaluates in every run. Each follows the same
plan: a strengthened invariant, one lemma for each action or group of actions that
it is kept, and the properties as consequences.

**PluginActions_proofs.** `IInv` is `TypeInv /\ ClaimsInv /\ EffectsInv /\
FilesInv`. That a claimed row is not failed by the janitor is not inductive by
itself: one has to know how old the row can be while somebody holds it.
`ClaimsInv` ties the row's age to the caller's remaining deadline; with
`ExecuteTimeout + StateWriteTimeout < StaleAfter` (the code's 5 minutes and 10
seconds against 10 minutes) it gives `OneClaim`. `EffectsInv` says that
an effect, done or still to come, needs a row that is running or failed, and
that a call still in progress and a lost one do not share an action:
`AtMostOnce`, `NothingDone` and the refinement `Implements` follow. `FilesInv`
says who may still remove which directory: `FilesKept`.

**PreviewedWrites_proofs.** `IInv` is `TypeOK /\ RunInv /\ DigestInv /\ UseInv /\
Unwritten`. The digest a run carries was stored by a preview under its own key
and has been taken by that run and no other (`UseInv`); a digest that is still
stored has been taken by nobody (`DigestInv`). So a write has the plan of its
digest, and two actions never share one. `Unwritten` needs that an answer that
reads as "refused" comes only from a run that has not written. The proof also
covers tools that do not compare, for which only `OfferedUnwritten` speaks.

**SlackSync_proofs.** `IInv` is `TypeOK`, `PostsInv`, `ExplainedTo(cursor)`,
`HandInv` for each sync, `PassInv` and `DueInv`. "Missing behind the cursor means
blind, or below a bot's message" is not inductive: the cursor jumps to the present when a pass ends, so
each pass needs the same statement for what it has read, with what it still holds
excepted, and for the older cursor it began with. The delicate step is a reply
posted while its thread is in hand or not yet read: it is not blind, and is read
with its thread. `CompleteBackfill` is the same argument for what was posted
before the pass was called (`DueInv`).

**SessionPool_proofs.** The code has no lock but the promise chain of an account,
and none of the properties is inductive without saying what follows from it.
`PoolInv` does: a call past its turn is at the head of its account's chain
(`LocksHeld`), so that no two calls share a context (`AtInv`), a call that will
register a context finds its account without one (`RoomForNew`), a registered
context is open and its account's (`RegInv`), and whoever awaits a park waits for
that one only (`ParksInv`). From these:

* `NobodyWaitsForNothing` needs little more than that slots are handed over.
* `NothingForgotten` needs `TimersInv`: an idle context with a page has its idle
  timer or the timer's task in the chain, a parked one its expiry timer, its task,
  or the park that arms it.
* `SlotsAccounted` and `InUseKept` need `SlotInv`: an open context has a slot
  unless it is parked and no call is about to give it a page, no call has a
  context that is closing (`KeptInv`), and the count is that of two finite sets
  (`Counted`). One step breaks `KeptInv`: `#trimParked` closes a context it chose
  before an await and a call has taken since (`TrimsUnderACall`), the finding of
  `pool_trim`. The theorems say that it is the only one:
  `Spec /\ [][~TrimsUnderACall]_vars` implies the two invariants, for any number of
  accounts, calls and parked contexts, with trimming across awaits, parks, timers and
  failures in any order. Nothing is assumed of the constants. Without that
  hypothesis the two properties are false, as the run shows.

**BotServices_proofs.** Four components, an invariant each.

* *Scheduled messages* (`JobsInv`). A row is in the hands of at most one poll, that of
  its platform, which knows its time before it posts (`PollInv`); a row that nobody
  has posted was posted no more often than posts went unrecorded (`RowInv`). Then
  `PostedOncePerRun`. `NoRunLost` needs that `Cron`'s next time is the least one
  after now, `CancelledFallsSilent` that a cancelled row in a poll's list has not
  been posted since.
* *Requests* (`BotInv`). `MessageInv` follows one message through `respond`:
  up to the reply, the outbox holds the last version of each file the model was told
  of; from then on each is uploaded, still there, or its author was told of trouble
  (or a call to the platform failed, which excuses the message).
  `CapturesInv`: a capture is kept by the executor, by one piece of background work,
  or posted to one message. `DrainInv`: when the drain is over nothing is left, and
  nothing begins. That a complete call is not turned down is a fact about the tables
  of `ToolTable`, which are sets of pairs so that it can be read off row by row.
* *Threads* (`ChatInv`). A lookup that began before the bot's message may store
  a negative answer after it; `CheckInv` and `NegativeInv` bound how late: an entry is
  dated at most one tick after the message it denies. Hence `OldThreadsAreFound`.
* *Writers* (`WorkInv`). A call that may be made again was performed no more often than
  it went unanswered (`CountInv`), and a file of a shared upload no more often than
  an error was reported of it or of its neighbours (`UploadsInv`). An edit's copy of an entry equals the entry unless edits
  overlapped (`EntriesInv`); a text that is still to be written is nowhere in the
  document yet, and its tool knows the document's end unless somebody wrote (`DocInv`).

**Sources_proofs.** Three components and the sum of nine.

* *Drive* (`DriveInv`). What is stored of a file is as new as the changes before the
  token, and as those before the place where each sync stands, excepted what that
  sync has still to store, or what a known cause left out of date (`SyncInv`). Two syncs may store a token one
  behind the other's work, which the second clause allows.
* *Notion* (`NotionInv`). The recursion is a stack; each frame is one deeper than the
  page it is below (`WellStacked`), and whatever a page holds that was read in full, but
  for what is nested too deep, was begun or waits in a frame below that page (`BelowInv`). At the end the stack is empty: `WalkIsComplete`.
* *Knowledge repository* (`FilesInv`). What the remote has the last commit has, that is
  staged, and that is in the files, up to later writes of the same name and to what was
  erased with a list made anew (`Within`); `SaveInv`
  gives for each step of a save what it has achieved and nobody takes away. Commits of
  other saves and of the script can only help: they take along what was staged.
* *The sum*. `StepOfEach`: a step of `MCServices` is a step of each component or
  leaves it alone. So `EachRunsAsItself`: the whole implements each component's
  specification, and all theorems about the components hold beside each other.

**McpClient_proofs.** `ClientInv` is `SessionInv /\ ArrivedSoFar /\
ListOfThisSession`. A process that runs is the session's or the one the holder of
the mutex starts (`OnlyTheSession`), and while one starts there is no session
(`MutexHeld`), so `OneProcess`. That a write is sent once is not inductive: how
often a request can have arrived depends on the step its call has reached, and an
executing call never reaches the steps before a second request (`ArrivedSoFar`).

**DiscordSync_proofs.** `DiscordInv` is `DiscordTypeOK`, nothing lost behind the cursor,
and `RunInv` for each sync: nothing is lost behind the cursor it began with, in the
channels it has read, and in the one it reads up to where it is. Each sync keeps
its part whatever the others store, and the cursor it stores last may be set back
or reset. The step that reads a page rests on `PageFacts`: a page has no hole, and
one that is not full is the last; it is proved from the counting that defines a page.

**What proving changed.** The queue timeout of `SessionPool` now runs all of
`#afterUse`, also for a context whose session ended or which is closing; on the small
instance this made no difference to any property. `NothingBehindTheToken` is stated while syncs run and not
only between them. Assumptions that the code takes for granted were made explicit:
sets of names are disjoint where they share a map, page sizes are positive, the
times of a cron expression are known up to the horizon.

**Only model-checked.** Liveness (`EveryActionEnds`, `EveryCallEnds`), which is out
of the prover's reach under fairness. What the violated runs show is a
counterexample, and those properties are false.

## 5. Left out

* `SessionPool`: `close()`, launching the browser, the login limiter's count
  (it may refuse any login), the least-recently-used order of victims (any order).
* `PluginActions`: wording, statements and outputs; which message a prompt is.
* `PreviewedWrites`: what plans and digests consist of.
* `SlackSync`: direct messages, which are not indexed; edits, since whether their
  event carries the new text depends on the Slack library; channel names; the
  size of pages (a history may fail after any message); attachments.
* `ScheduledJobs`: time zones and the parsing of dates and cron expressions (a
  time may be any); texts cut into pieces.
* `McpClient`: the deadline of a call, which is the caller's; how results are
  converted.
* `BotRequests`: downloads, links, history and prompts for the model; decisions
  of people, which are the registry's. Rounds are bounded by the code (13) and
  here by 2.
* `ChatThreads`: Discord's lookups, which differ only in what they ask.
* `Workspace`: how text becomes blocks, requests and mails; time zones.
* `DiscordSync`, `DriveSync`, `NotionCrawl`: what documents say; the rate limit.
  Discord's interactions. A first Discord sync is modelled as it is.
* `KnowledgeFiles`: conflicts of a rebase with somebody else's changes to the same
  lists; the caches of 30 seconds and the choice of files for a question.
* Accounts of plugins (a disconnect or a preview meets whatever account there is
  when it is confirmed) and decisions in progress in the bot.
* Search ranking, message formats, document conversion, the model's client and its
  retries, configuration, deployment scripts, kb-gen and the console: no state, or
  no protocol.

## 6. Plan

Done: 1. `ActionLifecycle`, `PluginActions`; 2. `SessionPool`;
3. `PreviewedWrites`; 4. `SlackSync`; 5. the services; each with runs, and with proofs
of all invariants. Next, in this order:

6. The pool's refinement: an abstract pool of slots (granted to a caller, given
   back, never more than there are) that `SessionPool` implements in the behaviours
   without `TrimsUnderACall`.
7. `PluginAccounts`: connect, disconnect, `markInvalid` and `openAccount` of one
   person; what is deleted, marked or used is the account it was meant for.
8. `BotDecisions`: the decisions in progress and the order of the whole stop, over
   the abstract `ActionLifecycle`.

Runs are few on purpose: components that share nothing share a run. Proof modules
are few as well: components that the bot runs share one, and so do the sources.
