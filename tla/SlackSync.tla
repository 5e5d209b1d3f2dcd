------------------------------ MODULE SlackSync ------------------------------
(***************************************************************************)
(* How messages of Slack reach the knowledge base (internal/slack).  Each  *)
(* message has two ways in: the event Slack sends when it is posted, which *)
(* a worker indexes, and a sync, which reads the history of every channel  *)
(* since the stored cursor.  Syncs run on the scheduler's interval, and on *)
(* request of the API next to it; a full one resets the cursor first.  A   *)
(* stop cancels the scheduled sync, a timeout an API one; an exit ends     *)
(* everything that runs.                                                   *)
(*                                                                         *)
(* Messages of bots are not indexed, with one exception: a sync indexes    *)
(* the replies of bots in the threads it reads.  It does not read the      *)
(* threads that bots began, whoever replied in them.                       *)
(*                                                                         *)
(* Left out: direct messages (never indexed), edits, channel names, and    *)
(* the size of pages: a history may end in an error after any message.     *)
(***************************************************************************)
EXTENDS Naturals

CONSTANTS
  Channels,     \* the channels of the workspace
  Syncs,        \* what may run Sync at once: the scheduler and API requests
  Scheduled,    \* the scheduler's, which never runs twice at once
  MaxPosts,     \* how many messages are ever posted
  MaxFaults     \* how many requests to Slack and statements of SQLite fail

ASSUME SlackAssumption ==
  /\ Scheduled \in Syncs
  /\ MaxPosts \in Nat
  /\ MaxFaults \in Nat

VARIABLES
  now,          \* Slack's clock: the timestamp of the last message
  posts,        \* the messages
  documents,    \* those that are indexed
  queue,        \* acknowledged events that no worker has indexed yet
  cursor,       \* sync_state.cursor, 0 when it is empty or there is no row
  sync,         \* what each Sync in progress does
  process,      \* the program: "up", "stopping" or "down"
  faults,       \* failures so far
  blind         \* messages that some sync did not see and will not be read again

vars == <<now, posts, documents, queue, cursor, sync, process, faults, blind>>

Time == 0 .. MaxPosts

\* A message, its time, and the time of the message that began its thread,
\* which is its own unless it is a reply.  bot: its author is no person.
Message == [at : Time, channel : Channels, thread : Time, bot : BOOLEAN]

Stages == {"idle", "reset", "read", "list", "channels"}

\* A call of Sync: the cursor it read, the channels it has not read, the
\* messages of the last one it has still to index and those of them that had
\* replies.  due is what had been posted when it was called, or nothing once a
\* request of it failed.
Pass == [pc : Stages, oldest : Time, channels : SUBSET Channels,
         page : SUBSET Message, threads : SUBSET Message,
         due : SUBSET Message, timedOut : BOOLEAN]

Idle == [pc |-> "idle", oldest |-> 0, channels |-> {}, page |-> {}, threads |-> {},
         due |-> {}, timedOut |-> FALSE]

Init ==
  /\ now = 0
  /\ posts = {}
  /\ documents = {}
  /\ queue = {}
  /\ cursor = 0
  /\ sync = [s \in Syncs |-> Idle]
  /\ process = "down"
  /\ faults = 0
  /\ blind = {}

Fault == /\ faults < MaxFaults
         /\ faults' = faults + 1

\* The context of s is cancelled: the program stops, or an API sync has run for
\* 30 minutes.
Cut(s) == IF s = Scheduled THEN process # "up" ELSE sync[s].timedOut

\* A request to Slack fails: it is refused, or the context is cancelled.
Refused(s) == IF Cut(s) THEN UNCHANGED faults ELSE Fault

\* What s owes after a failure: nothing any more, unless it was cut off.
Owed(s) == IF Cut(s) THEN sync[s].due ELSE {}

-----------------------------------------------------------------------------
(* What Slack answers. *)

\* A history whose cursor is rounded up to the next second.
HistoryRounded(c, oldest) == {m \in posts : m.channel = c /\ m.thread = m.at /\ m.at > oldest + 1}

\* conversations.history: the messages after `oldest` that are no replies.
History(c, oldest) == {m \in posts : m.channel = c /\ m.thread = m.at /\ m.at > oldest}

\* conversations.replies
Replies(m) == {r \in posts : r.channel = m.channel /\ r.thread = m.at /\ r.at # m.at}

WithReplies(M) == M \cup UNION {Replies(m) : m \in M}

OfPeople(M) == {m \in M : ~ m.bot}

\* m is the first message of a bot, or a reply below one.
BotBegan(m) == \E r \in posts : r.bot /\ r.at = m.thread /\ r.channel = m.channel

-----------------------------------------------------------------------------
(* Messages and their events. *)

\* No sync in progress will read m, and none after it either: its thread is
\* behind the cursor, or its channel was read before it was posted.
Behind(m) ==
  \/ m.thread <= cursor
  \/ \E s \in Syncs :
       /\ sync[s].pc \in {"list", "channels"}
       /\ \/ m.thread <= sync[s].oldest
          \/ /\ sync[s].pc = "channels"
             /\ m.channel \notin sync[s].channels
             /\ \A t \in sync[s].threads : t.at # m.thread

\* A person or a bot posts in channel c: a message, or a reply in one of its threads.
Post(c) ==
  /\ now < MaxPosts
  /\ now' = now + 1
  /\ \E thread \in {now + 1} \cup {m.at : m \in History(c, 0)}, bot \in BOOLEAN :
       LET m == [at |-> now + 1, channel |-> c, thread |-> thread, bot |-> bot] IN
       /\ posts' = posts \cup {m}
       /\ blind' = IF Behind(m) THEN blind \cup {m} ELSE blind
  /\ UNCHANGED <<documents, queue, cursor, sync, process, faults>>

\* Slack's event for m comes, at once or late, or never if the socket was down
\* for too long; the connector acknowledges it before anything else.  One that
\* comes twice changes nothing: a document is stored under its message.  Nor does
\* a bot's: the worker drops it.
ProcessEvent(m) ==
  /\ process = "up"
  /\ ~ m.bot
  /\ m \notin documents \cup queue
  /\ queue' = queue \cup {m}
  /\ UNCHANGED <<now, posts, documents, cursor, sync, process, faults, blind>>

\* One of the workers indexes an event of the queue; they take no turns.
HandleEvent(m) ==
  /\ process # "down"
  /\ m \in queue
  /\ queue' = queue \ {m}
  /\ \/ /\ documents' = documents \cup {m}
        /\ UNCHANGED faults
     \/ /\ Fault
        /\ UNCHANGED documents
  /\ UNCHANGED <<now, posts, cursor, sync, process, blind>>

-----------------------------------------------------------------------------
(* Sync. *)

\* The scheduler's interval is over, or the API was asked for a sync; only the
\* API asks for a full one.
Begin(s) ==
  /\ process = "up"
  /\ sync[s].pc = "idle"
  /\ \E pc \in IF s = Scheduled THEN {"read"} ELSE {"read", "reset"} :
       sync' = [sync EXCEPT ![s] = [Idle EXCEPT !.pc = pc, !.due = posts]]
  /\ UNCHANGED <<now, posts, documents, queue, cursor, process, faults, blind>>

\* A step that fails before any channel was read ends the sync.
Abort(s) ==
  /\ sync[s].pc \in {"reset", "read", "list"}
  /\ IF sync[s].pc = "list" THEN Refused(s) ELSE Fault
  /\ sync' = [sync EXCEPT ![s] = Idle]
  /\ UNCHANGED <<now, posts, documents, queue, cursor, process, blind>>

\* FullSync empties the cursor, then calls Sync.
Reset(s) ==
  /\ sync[s].pc = "reset"
  /\ cursor' = 0
  /\ sync' = [sync EXCEPT ![s].pc = "read"]
  /\ UNCHANGED <<now, posts, documents, queue, process, faults, blind>>

ReadCursor(s) ==
  /\ sync[s].pc = "read"
  /\ sync' = [sync EXCEPT ![s].pc = "list", ![s].oldest = cursor]
  /\ UNCHANGED <<now, posts, documents, queue, cursor, process, faults, blind>>

ListChannels(s) ==
  /\ sync[s].pc = "list"
  /\ ~ Cut(s)
  /\ sync' = [sync EXCEPT ![s].pc = "channels", ![s].channels = Channels]
  /\ UNCHANGED <<now, posts, documents, queue, cursor, process, faults, blind>>

\* No message is in hand: the next channel, or the end.
BetweenChannels(s) == sync[s].pc = "channels" /\ sync[s].page = {}

\* A message of a bot is passed over, and its thread with it.
FetchHistory(s, c) ==
  /\ BetweenChannels(s)
  /\ c \in sync[s].channels
  /\ ~ Cut(s)
  /\ LET page == OfPeople(History(c, sync[s].oldest)) IN
     sync' = [sync EXCEPT ![s].channels = @ \ {c}, ![s].page = page,
                          ![s].threads = {m \in page : Replies(m) # {}}]
  /\ UNCHANGED <<now, posts, documents, queue, cursor, process, faults, blind>>

\* The history of c cannot be read: a warning, and the next channel.
SkipChannel(s, c) ==
  /\ BetweenChannels(s)
  /\ c \in sync[s].channels
  /\ Refused(s)
  /\ sync' = [sync EXCEPT ![s].channels = @ \ {c}, ![s].due = Owed(s)]
  /\ blind' = blind \cup WithReplies(History(c, sync[s].oldest))
  /\ UNCHANGED <<now, posts, documents, queue, cursor, process>>

\* The next message of a history, newest first.
Newest(s, m) == m \in sync[s].page /\ \A n \in sync[s].page : n.at <= m.at

\* The message is indexed and its thread forgotten.
IndexMessageAlone(s, m) ==
  /\ Newest(s, m)
  /\ documents' = documents \cup {m}
  /\ sync' = [sync EXCEPT ![s].page = @ \ {m}, ![s].threads = @ \ {m}]
  /\ UNCHANGED <<now, posts, queue, cursor, process, faults, blind>>

\* The message is indexed, and if it had replies so are they.
IndexMessage(s, m) ==
  /\ Newest(s, m)
  /\ Cut(s) => m \notin sync[s].threads
  /\ documents' = documents \cup {m} \cup (IF m \in sync[s].threads THEN Replies(m) ELSE {})
  /\ sync' = [sync EXCEPT ![s].page = @ \ {m}, ![s].threads = @ \ {m}]
  /\ UNCHANGED <<now, posts, queue, cursor, process, faults, blind>>

\* The message cannot be stored, and its replies are not asked for.
IndexFails(s, m) ==
  /\ Newest(s, m)
  /\ Fault
  /\ sync' = [sync EXCEPT ![s].page = @ \ {m}, ![s].threads = @ \ {m}, ![s].due = Owed(s)]
  /\ blind' = blind \cup WithReplies({m})
  /\ UNCHANGED <<now, posts, documents, queue, cursor, process>>

\* The message is indexed, but only some of its replies.
ThreadFails(s, m) ==
  /\ Newest(s, m)
  /\ m \in sync[s].threads
  /\ Refused(s)
  /\ \E some \in SUBSET Replies(m) : documents' = documents \cup {m} \cup some
  /\ sync' = [sync EXCEPT ![s].page = @ \ {m}, ![s].threads = @ \ {m}, ![s].due = Owed(s)]
  /\ blind' = blind \cup Replies(m)
  /\ UNCHANGED <<now, posts, queue, cursor, process>>

\* The next page of the history cannot be read: the channel is given up.
PageFails(s) ==
  /\ sync[s].page # {}
  /\ Refused(s)
  /\ sync' = [sync EXCEPT ![s].page = {}, ![s].threads = {}, ![s].due = Owed(s)]
  /\ blind' = blind \cup WithReplies(sync[s].page)
  /\ UNCHANGED <<now, posts, documents, queue, cursor, process>>

\* Every channel was read or given up.
Finished(s) == BetweenChannels(s) /\ sync[s].channels = {}

\* The cursor is taken from a clock ahead of Slack's.
SetSyncStateAhead(s) ==
  /\ Finished(s)
  /\ cursor' = now + 1
  /\ sync' = [sync EXCEPT ![s] = Idle]
  /\ UNCHANGED <<now, posts, documents, queue, process, faults, blind>>

\* The time becomes the cursor, whatever failed and whatever was posted since.
\* The host's clock is taken to agree with Slack's.
SetSyncState(s) ==
  /\ Finished(s)
  /\ cursor' = now
  /\ sync' = [sync EXCEPT ![s] = Idle]
  /\ UNCHANGED <<now, posts, documents, queue, process, faults, blind>>

SetSyncStateFails(s) ==
  /\ Finished(s)
  /\ Fault
  /\ sync' = [sync EXCEPT ![s] = Idle]
  /\ UNCHANGED <<now, posts, documents, queue, cursor, process, blind>>

-----------------------------------------------------------------------------
(* The process. *)

Start ==
  /\ process = "down"
  /\ process' = "up"
  /\ UNCHANGED <<now, posts, documents, queue, cursor, sync, faults, blind>>

\* A signal: the socket closes and the scheduler cancels its job.
Stop ==
  /\ process = "up"
  /\ process' = "stopping"
  /\ UNCHANGED <<now, posts, documents, queue, cursor, sync, faults, blind>>

\* An API sync has run for 30 minutes.
TimeOut(s) ==
  /\ s # Scheduled
  /\ sync[s].pc # "idle"
  /\ ~ Cut(s)
  /\ sync' = [sync EXCEPT ![s].timedOut = TRUE]
  /\ UNCHANGED <<now, posts, documents, queue, cursor, process, faults, blind>>

\* The process ends, after a stop (every step of which has a limit) or without.
Exit ==
  /\ process # "down"
  /\ process' = "down"
  /\ queue' = {}
  /\ sync' = [s \in Syncs |-> Idle]
  /\ UNCHANGED <<now, posts, documents, cursor, faults, blind>>

SyncStep(s) ==
  \/ Begin(s) \/ Abort(s) \/ Reset(s) \/ ReadCursor(s) \/ ListChannels(s)
  \/ \E c \in Channels : FetchHistory(s, c) \/ SkipChannel(s, c)
  \/ \E m \in sync[s].page : IndexMessage(s, m) \/ IndexFails(s, m) \/ ThreadFails(s, m)
  \/ PageFails(s) \/ SetSyncState(s) \/ SetSyncStateFails(s) \/ TimeOut(s)

Next ==
  \/ \E c \in Channels : Post(c)
  \/ \E m \in posts : ProcessEvent(m)
  \/ \E m \in queue : HandleEvent(m)
  \/ \E s \in Syncs : SyncStep(s)
  \/ Start \/ Stop \/ Exit

Spec == Init /\ [][Next]_vars

-----------------------------------------------------------------------------
(* Properties. *)

TypeOK ==
  /\ now \in Time
  /\ posts \subseteq Message
  /\ documents \subseteq posts
  /\ queue \subseteq posts
  /\ cursor \in 0 .. now
  /\ sync \in [Syncs -> Pass]
  /\ process \in {"up", "stopping", "down"}
  /\ faults \in 0 .. MaxFaults
  /\ blind \subseteq posts

\* A message behind the cursor is in the knowledge base unless the syncs were
\* blind to it: a request for it failed, it was posted behind a sync's back, it
\* is a reply in a thread behind the cursor, or a bot began its thread.  Syncs
\* that run at once, resets and restarts in any order add no other way to lose
\* one.
GapsExplained ==
  \A m \in posts : m.at <= cursor /\ m \notin documents => m \in blind \/ BotBegan(m)

Stores(s) == Finished(s) /\ cursor' = now /\ sync'[s].pc = "idle"

\* A sync that found no cursor, and in which nothing failed, has indexed every
\* message and every reply that was posted before it was called in the threads
\* people began, whatever other syncs had missed.
BackfillIsComplete ==
  [][\A s \in Syncs : Stores(s) /\ sync[s].oldest = 0 /\ ~ Cut(s) =>
       \A m \in sync[s].due : m \in documents' \/ BotBegan(m)]_vars

\* "A sync that is still running is cut off; the next start picks it up again":
\* it leaves no message it was called to read behind the cursor.
CutOffIsPickedUp ==
  [][\A s \in Syncs : Stores(s) /\ Cut(s) =>
       \A m \in OfPeople(sync[s].due) : m.at > sync[s].oldest /\ m.thread = m.at =>
         m \in documents' \/ m.at > cursor']_vars

=============================================================================
