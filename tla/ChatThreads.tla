------------------------------ MODULE ChatThreads ------------------------------
(***************************************************************************)
(* Which replies in a thread the bot takes for itself: the caches behind   *)
(* IsTrackedThread (internal/bot/slack_platform.go, discord_platform.go)   *)
(* and the events that consult and fill them (handleEventsAPI and          *)
(* handleMessageCreate of the two connectors).                             *)
(*                                                                         *)
(* One platform; the two differ in which messages of a thread a lookup     *)
(* returns, the oldest or the newest.  Time is counted in steps of the     *)
(* negative cache's five minutes.                                          *)
(***************************************************************************)
EXTENDS Naturals, FiniteSets

CONSTANTS
  Thread,
  Worker,          \* handlers of events, which run at once
  MaxTracked,      \* threads the positive cache may keep
  MaxNotBot,       \* and the negative one
  NotBotTTL,       \* steps for which a negative entry is believed
  LastTick,        \* bound: the last time
  MaxChatFaults    \* bound: lookups that fail, posts whose answer is lost

ASSUME ChatAssumption ==
  /\ MaxTracked \in Nat /\ MaxNotBot \in Nat /\ MaxChatFaults \in Nat
  /\ NotBotTTL \in Nat /\ LastTick \in Nat

VARIABLES
  tick,
  tracked,        \* trackedThreads
  notBot,         \* notBotThreads: entries [thread, at]
  botPosts,       \* threads that hold a message of the bot, as the platform has them
  buried,         \* threads whose lookup does not reach the bot's messages any more
  posting,        \* threads in which a text was posted and is not yet recorded
  check,          \* [Worker -> the check it is in]
  chatFaults,
  (* kept for the properties *)
  recorded,       \* threads recorded since the start and not dropped
  since,          \* [Thread -> when the bot first posted there]
  missed          \* replies turned down in a thread that was "known" or "old"

chatVars == <<tick, tracked, notBot, botPosts, buried, posting, check, chatFaults, recorded, since,
              missed>>

Ticks == 0 .. LastTick
NoCheck == [on |-> "none"]
Checking(t, recordedThen) ==
  [on |-> "tracked", thread |-> t, began |-> tick, safe |-> recordedThen]

ChatTypeOK ==
  /\ tick \in Ticks
  /\ tracked \subseteq Thread /\ recorded \subseteq Thread
  /\ notBot \subseteq [thread : Thread, at : Ticks]
  /\ botPosts \subseteq Thread /\ buried \subseteq botPosts /\ posting \subseteq botPosts
  /\ \A w \in Worker :
       check[w] = NoCheck \/
       check[w] \in [on : {"tracked", "negative", "lookup", "store"}, thread : Thread,
                     began : Ticks, safe : BOOLEAN]
  /\ chatFaults \in 0 .. MaxChatFaults
  /\ since \in [Thread -> Ticks]
  /\ missed \subseteq {"known", "old"}

ChatInit ==
  /\ tick = 0
  /\ tracked = {} /\ notBot = {} /\ recorded = {}
  /\ botPosts = {} /\ buried = {} /\ posting = {}
  /\ check = [w \in Worker |-> NoCheck]
  /\ chatFaults = 0
  /\ since = [t \in Thread |-> 0]
  /\ missed = {}

ChatFault ==
  /\ chatFaults < MaxChatFaults
  /\ chatFaults' = chatFaults + 1

-----------------------------------------------------------------------------
(* The bot posts. *)

Posted(t) ==
  /\ botPosts' = botPosts \cup {t}
  /\ since' = IF t \in botPosts THEN since ELSE [since EXCEPT ![t] = tick]

\* A text or a prompt.
PostText(t) ==
  /\ Posted(t)
  /\ posting' = posting \cup {t}
  /\ UNCHANGED <<tick, tracked, notBot, buried, check, chatFaults, recorded, missed>>

\* A file on its own does not record the thread, nor a text whose answer is lost
\* or of which only the first piece arrived.
PostUntracked(t) ==
  /\ Posted(t)
  /\ ChatFault
  /\ UNCHANGED <<tick, tracked, notBot, buried, posting, check, recorded, missed>>

TrackThread(t) ==
  /\ t \in posting
  /\ posting' = posting \ {t}
  /\ tracked' = tracked \cup {t}
  /\ recorded' = recorded \cup {t}
  /\ UNCHANGED <<tick, notBot, botPosts, buried, check, chatFaults, since, missed>>

\* Others write on, until a lookup's limit is reached before the bot's message.
Bury(t) ==
  /\ t \in botPosts \ buried
  /\ ChatFault
  /\ buried' = buried \cup {t}
  /\ UNCHANGED <<tick, tracked, notBot, botPosts, posting, check, recorded, since, missed>>

-----------------------------------------------------------------------------
(* A reply in a thread arrives, without a mention: is it for the bot? *)

\* A reply that is not for the bot, it seems.  The thread is known when it was
\* recorded before the check began and has not been dropped; it is old when the
\* bot had been there for more than the negative cache's time, and its message
\* could be found.
TurnDown(w, failed) ==
  LET c == check[w] IN
  /\ check' = [check EXCEPT ![w] = NoCheck]
  /\ LET old == /\ c.thread \in botPosts \ buried
                /\ c.began > since[c.thread] + NotBotTTL
                /\ ~ failed
     IN missed' = missed \cup (IF c.safe THEN {"known"} ELSE {}) \cup (IF old THEN {"old"} ELSE {})

ReplyArrives(w, t) ==
  /\ check[w] = NoCheck
  /\ check' = [check EXCEPT ![w] = Checking(t, t \in recorded)]
  /\ UNCHANGED <<tick, tracked, notBot, botPosts, buried, posting, chatFaults, recorded, since,
                 missed>>

Goes(w, stage) == check' = [check EXCEPT ![w].on = stage]

Fresh(t) == \E n \in notBot : n.thread = t /\ tick - n.at < NotBotTTL

\* The negative cache is asked first.
CheckNegativeFirst(w) ==
  /\ check[w].on = "tracked"
  /\ IF Fresh(check[w].thread) THEN TurnDown(w, FALSE)
     ELSE /\ IF check[w].thread \in tracked THEN check' = [check EXCEPT ![w] = NoCheck]
             ELSE Goes(w, "negative")
          /\ UNCHANGED missed
  /\ UNCHANGED <<tick, tracked, notBot, botPosts, buried, posting, chatFaults, recorded, since>>

CheckTracked(w) ==
  /\ check[w].on = "tracked"
  /\ IF check[w].thread \in tracked THEN check' = [check EXCEPT ![w] = NoCheck]
     ELSE Goes(w, "negative")
  /\ UNCHANGED <<tick, tracked, notBot, botPosts, buried, posting, chatFaults, recorded, since,
                 missed>>

\* An entry is believed however old it is, until the next cleanup.
CheckNegativeForEver(w) ==
  /\ check[w].on = "negative"
  /\ IF \E n \in notBot : n.thread = check[w].thread THEN TurnDown(w, FALSE)
     ELSE Goes(w, "lookup") /\ UNCHANGED missed
  /\ UNCHANGED <<tick, tracked, notBot, botPosts, buried, posting, chatFaults, recorded, since>>

CheckNegative(w) ==
  /\ check[w].on = "negative"
  /\ IF Fresh(check[w].thread) THEN TurnDown(w, FALSE)
     ELSE Goes(w, "lookup") /\ UNCHANGED missed
  /\ UNCHANGED <<tick, tracked, notBot, botPosts, buried, posting, chatFaults, recorded, since>>

\* The thread's messages are fetched: the answer is remembered either way, unless
\* the lookup failed.
Lookup(w) ==
  /\ check[w].on = "lookup"
  /\ IF check[w].thread \in botPosts \ buried
     THEN /\ tracked' = tracked \cup {check[w].thread}
          /\ recorded' = recorded \cup {check[w].thread}
          /\ check' = [check EXCEPT ![w] = NoCheck]
     ELSE Goes(w, "store") /\ UNCHANGED <<tracked, recorded>>
  /\ UNCHANGED <<tick, notBot, botPosts, buried, posting, chatFaults, since, missed>>

LookupFails(w) ==
  /\ check[w].on = "lookup"
  /\ ChatFault
  /\ TurnDown(w, TRUE)
  /\ UNCHANGED <<tick, tracked, notBot, botPosts, buried, posting, recorded, since>>

StoreNegative(w) ==
  /\ check[w].on = "store"
  /\ notBot' = {n \in notBot : n.thread # check[w].thread}
               \cup {[thread |-> check[w].thread, at |-> tick]}
  /\ TurnDown(w, FALSE)
  /\ UNCHANGED <<tick, tracked, botPosts, buried, posting, chatFaults, recorded, since>>

-----------------------------------------------------------------------------
(* Time, cleanup, restarts. *)

\* Of a cache above its limit any half is dropped.
Halved(cache, limit) ==
  IF Cardinality(cache) <= limit THEN {cache}
  ELSE {kept \in SUBSET cache : Cardinality(kept) = Cardinality(cache) - Cardinality(cache) \div 2}

CleanupCaches ==
  /\ \E kept \in Halved(tracked, MaxTracked) : tracked' = kept
  /\ \E kept \in Halved({n \in notBot : tick - n.at <= NotBotTTL}, MaxNotBot) : notBot' = kept
  /\ recorded' = recorded \cap tracked'
  /\ check' = [w \in Worker |-> IF check[w] # NoCheck /\ check[w].thread \notin tracked'
                                THEN [check[w] EXCEPT !.safe = FALSE] ELSE check[w]]
  /\ UNCHANGED <<tick, botPosts, buried, posting, chatFaults, since, missed>>

\* Both caches live in memory.
RestartBot ==
  /\ ChatFault
  /\ tracked' = {} /\ notBot' = {} /\ recorded' = {} /\ posting' = {}
  /\ check' = [w \in Worker |-> NoCheck]
  /\ UNCHANGED <<tick, botPosts, buried, since, missed>>

\* Bound: a lookup does not outlast a step.
ClockTicks ==
  /\ tick < LastTick
  /\ \A w \in Worker : check[w] # NoCheck => check[w].began = tick
  /\ tick' = tick + 1
  /\ UNCHANGED <<tracked, notBot, botPosts, buried, posting, check, chatFaults, recorded, since,
                 missed>>

ChatNext ==
  \/ \E t \in Thread : PostText(t) \/ PostUntracked(t) \/ TrackThread(t) \/ Bury(t)
  \/ \E w \in Worker : \/ \E t \in Thread : ReplyArrives(w, t)
                       \/ CheckTracked(w) \/ CheckNegative(w)
                       \/ Lookup(w) \/ LookupFails(w) \/ StoreNegative(w)
  \/ CleanupCaches \/ RestartBot \/ ClockTicks

ChatSpec == ChatInit /\ [][ChatNext]_chatVars

-----------------------------------------------------------------------------
(* Properties. *)

\* A thread the bot is known to take part in is never turned down, although the
\* negative cache may hold it too: a check that found nothing stores its answer
\* after the bot has replied.  Only dropping it from the positive cache, while
\* the check runs, may hide it.
KnownThreadsAreTaken == "known" \notin missed

\* Where no record was made, or it was lost, a reply is turned down only while a
\* negative answer from before the bot's message, or from a lookup that was under
\* way, is believed, or if the lookup failed or could not reach that message.
OldThreadsAreFound == "old" \notin missed

=============================================================================
