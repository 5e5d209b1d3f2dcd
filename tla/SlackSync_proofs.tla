--------------------------- MODULE SlackSync_proofs ---------------------------
(***************************************************************************)
(* Proofs that a message behind the cursor is missing only where some sync *)
(* was blind to it, and that a sync from an empty cursor in which nothing  *)
(* failed is a complete backfill: for any channels, any number of syncs at *)
(* once, and any number of posts, failures, stops and crashes.             *)
(*                                                                         *)
(* What makes them inductive: what a pass has read is indexed, in its hand *)
(* or known to be missing (PassInv), and so is everything behind the       *)
(* cursor, thread by thread: a reply is missed with its thread, not with   *)
(* its own time (ExplainedTo).                                             *)
(***************************************************************************)
EXTENDS SlackSync, TLAPS

\* Messages have times of their own, and replies a thread in their channel.
PostsInv ==
  /\ \A m \in posts :
       /\ m.at \in 1 .. now
       /\ m.thread <= m.at
       /\ \E root \in posts :
            root.at = m.thread /\ root.thread = root.at /\ root.channel = m.channel
  /\ \A m, n \in posts : m.at = n.at => m = n

\* What is missing from the threads that began at `bound` or before.
ExplainedTo(bound) ==
  \A m \in posts : m.thread <= bound /\ m \notin documents => m \in blind \/ BotBegan(m)

\* s has m in hand: as a message of its page, or as a reply to one.
InHand(s, m) ==
  \E t \in sync[s].page : t.at = m.thread /\ (m = t \/ t \in sync[s].threads)

\* A pass holds messages that were posted, while it reads channels, and none is
\* left when the process is down.
HandInv(s) ==
  /\ sync[s].page \subseteq {m \in posts : m.thread = m.at}
  /\ sync[s].threads \subseteq sync[s].page
  /\ sync[s].due \subseteq posts
  /\ sync[s].pc # "channels" => sync[s].page = {}
  /\ process = "down" => sync[s].pc = "idle"

\* What is missing from the channels a pass has read.
PassInv(s) ==
  /\ sync[s].pc \in {"list", "channels"} => ExplainedTo(sync[s].oldest)
  /\ sync[s].pc = "channels" =>
       \A m \in posts : m.channel \notin sync[s].channels /\ m \notin documents =>
         m \in blind \/ BotBegan(m) \/ InHand(s, m)

\* What a backfill still owes is in a channel it has not read, or in hand.
DueInv(s) ==
  sync[s].pc = "channels" /\ sync[s].oldest = 0 /\ ~ Cut(s) =>
    \A m \in sync[s].due : m.channel \notin sync[s].channels /\ m \notin documents =>
      BotBegan(m) \/ InHand(s, m)

IInv ==
  /\ TypeOK
  /\ PostsInv
  /\ ExplainedTo(cursor)
  /\ \A s \in Syncs : HandInv(s)
  /\ \A s \in Syncs : PassInv(s)
  /\ \A s \in Syncs : DueInv(s)

-----------------------------------------------------------------------------
\* Every update of a pass keeps its type.
LEMMA PassTypes ==
  /\ Idle \in Pass
  /\ \A pc \in Stages, due \in SUBSET Message : [Idle EXCEPT !.pc = pc, !.due = due] \in Pass
  /\ \A p \in Pass : \A pc \in Stages : [p EXCEPT !.pc = pc] \in Pass
  /\ \A p \in Pass : \A pc \in Stages : \A t \in Time :
       [p EXCEPT !.pc = pc, !.oldest = t] \in Pass
  /\ \A p \in Pass : \A pc \in Stages : \A C \in SUBSET Channels :
       [p EXCEPT !.pc = pc, !.channels = C] \in Pass
  /\ \A p \in Pass : \A C \in SUBSET Channels : \A M, T \in SUBSET Message :
       [p EXCEPT !.channels = C, !.page = M, !.threads = T] \in Pass
  /\ \A p \in Pass : \A C \in SUBSET Channels : \A D \in SUBSET Message :
       [p EXCEPT !.channels = C, !.due = D] \in Pass
  /\ \A p \in Pass : \A M, T \in SUBSET Message :
       [p EXCEPT !.page = M, !.threads = T] \in Pass
  /\ \A p \in Pass : \A M, T, D \in SUBSET Message :
       [p EXCEPT !.page = M, !.threads = T, !.due = D] \in Pass
  /\ \A p \in Pass : [p EXCEPT !.timedOut = TRUE] \in Pass
<1> USE SlackAssumption DEF Pass
<1>1. Idle \in Pass
  BY DEF Idle, Stages, Time
<1> HIDE DEF Message, Stages, Time
<1>2. \A pc \in Stages, due \in SUBSET Message : [Idle EXCEPT !.pc = pc, !.due = due] \in Pass
  BY <1>1
<1>3. \A p \in Pass : \A pc \in Stages : [p EXCEPT !.pc = pc] \in Pass
  OBVIOUS
<1>4. \A p \in Pass : \A pc \in Stages : \A t \in Time :
        [p EXCEPT !.pc = pc, !.oldest = t] \in Pass
  OBVIOUS
<1>5. \A p \in Pass : \A pc \in Stages : \A C \in SUBSET Channels :
        [p EXCEPT !.pc = pc, !.channels = C] \in Pass
  OBVIOUS
<1>6. \A p \in Pass : \A C \in SUBSET Channels : \A M, T \in SUBSET Message :
        [p EXCEPT !.channels = C, !.page = M, !.threads = T] \in Pass
  OBVIOUS
<1>7. \A p \in Pass : \A C \in SUBSET Channels : \A D \in SUBSET Message :
        [p EXCEPT !.channels = C, !.due = D] \in Pass
  OBVIOUS
<1>8. \A p \in Pass : \A M, T \in SUBSET Message :
        [p EXCEPT !.page = M, !.threads = T] \in Pass
  OBVIOUS
<1>9. \A p \in Pass : \A M, T, D \in SUBSET Message :
        [p EXCEPT !.page = M, !.threads = T, !.due = D] \in Pass
  OBVIOUS
<1>10. \A p \in Pass : [p EXCEPT !.timedOut = TRUE] \in Pass
  OBVIOUS
<1>11. QED
  BY <1>1, <1>2, <1>3, <1>4, <1>5, <1>6, <1>7, <1>8, <1>9, <1>10

\* What Slack answers is made of messages that were posted.
LEMMA Answers ==
  /\ \A c, t : History(c, t) \in SUBSET posts
  /\ \A m : Replies(m) \in SUBSET posts
  /\ \A M \in SUBSET posts : WithReplies(M) \in SUBSET posts
BY DEF History, Replies, WithReplies

\* A failure counts, and a cancelled request costs nothing.
LEMMA FaultsBounded ==
  ASSUME TypeOK
  PROVE  /\ Fault => faults' \in 0 .. MaxFaults
         /\ \A s : Refused(s) => faults' \in 0 .. MaxFaults
BY SlackAssumption DEF TypeOK, Fault, Refused

\* Type correctness: every step keeps each variable in its type.
LEMMA TypeInvariance ==
  ASSUME TypeOK, \A s \in Syncs : HandInv(s), [Next]_vars
  PROVE  TypeOK'
<1> USE SlackAssumption DEF TypeOK
<1> SUFFICES ASSUME Next PROVE TypeOK'
  BY DEF vars
<1>1. ASSUME NEW c \in Channels, Post(c) PROVE TypeOK'
  <2>1. PICK thread \in {now + 1} \cup {m.at : m \in History(c, 0)}, bot \in BOOLEAN :
          LET m == [at |-> now + 1, channel |-> c, thread |-> thread, bot |-> bot] IN
          /\ posts' = posts \cup {m}
          /\ blind' = IF Behind(m) THEN blind \cup {m} ELSE blind
    BY <1>1 DEF Post
  <2>2. thread \in Time /\ now + 1 \in Time /\ now' = now + 1
    BY <1>1, Answers DEF Post, Time, Message
  <2>3. [at |-> now + 1, channel |-> c, thread |-> thread, bot |-> bot] \in Message
    BY <2>2 DEF Message
  <2> HIDE DEF Behind
  <2>4. QED
    BY <1>1, <2>1, <2>2, <2>3 DEF Post, Time
<1>2. ASSUME NEW m \in posts, ProcessEvent(m) PROVE TypeOK'
  BY <1>2 DEF ProcessEvent
<1>3. ASSUME NEW m \in queue, HandleEvent(m) PROVE TypeOK'
  BY <1>3 DEF HandleEvent, Fault
<1>4. ASSUME Start \/ Stop \/ Exit PROVE TypeOK'
  BY <1>4, PassTypes DEF Start, Stop, Exit
<1>5. ASSUME NEW s \in Syncs, SyncStep(s) PROVE TypeOK'
  <2> DEFINE p == sync[s]
  <2>1. /\ p \in Pass
        /\ p.pc \in Stages /\ p.oldest \in Time /\ p.channels \subseteq Channels
        /\ p.page \subseteq posts /\ p.threads \subseteq posts /\ p.due \subseteq posts
        /\ Owed(s) \in SUBSET Message /\ cursor \in Time /\ now \in 0 .. now
    BY DEF HandInv, Pass, Owed, Time
  <2>2. \A M \in SUBSET posts : M \in SUBSET Message
    OBVIOUS
  <2>3. ASSUME Begin(s) PROVE TypeOK'
    <3>1. PICK pc \in {"read", "reset"} :
            sync' = [sync EXCEPT ![s] = [Idle EXCEPT !.pc = pc, !.due = posts]]
      BY <2>3 DEF Begin
    <3>2. [Idle EXCEPT !.pc = pc, !.due = posts] \in Pass
      BY PassTypes DEF Stages
    <3>3. QED
      BY <2>3, <3>1, <3>2 DEF Begin
  <2>4. ASSUME Abort(s) PROVE TypeOK'
    <3>1. faults' \in 0 .. MaxFaults
      BY <2>4, FaultsBounded DEF Abort
    <3>2. QED
      BY <2>4, <3>1, PassTypes DEF Abort
  <2>5. ASSUME Reset(s) PROVE TypeOK'
    <3>1. [p EXCEPT !.pc = "read"] \in Pass
      BY <2>1, PassTypes DEF Stages
    <3>2. QED
      BY <2>1, <2>5, <3>1 DEF Reset
  <2>6. ASSUME ReadCursor(s) PROVE TypeOK'
    <3>1. [p EXCEPT !.pc = "list", !.oldest = cursor] \in Pass
      BY <2>1, PassTypes DEF Stages
    <3>2. QED
      BY <2>6, <3>1 DEF ReadCursor
  <2>7. ASSUME ListChannels(s) PROVE TypeOK'
    <3>1. [p EXCEPT !.pc = "channels", !.channels = Channels] \in Pass
      BY <2>1, PassTypes DEF Stages
    <3>2. QED
      BY <2>7, <3>1 DEF ListChannels
  <2>8. ASSUME NEW c \in Channels, FetchHistory(s, c) PROVE TypeOK'
    <3> DEFINE page == OfPeople(History(c, p.oldest))
               threads == {m \in page : Replies(m) # {}}
    <3>1. page \in SUBSET Message /\ threads \in SUBSET Message /\ p.channels \ {c} \in SUBSET Channels
      BY <2>1, Answers DEF OfPeople
    <3>2. [p EXCEPT !.channels = p.channels \ {c}, !.page = page, !.threads = threads] \in Pass
      <4> HIDE DEF page, threads, TypeOK
      <4>1. QED
        BY <2>1, <3>1, PassTypes
    <3>3. sync' = [sync EXCEPT ![s] = [p EXCEPT !.channels = p.channels \ {c}, !.page = page, !.threads = threads]]
      BY <2>8 DEF FetchHistory
    <3> HIDE DEF page, threads
    <3>4. QED
      BY ZenonT(30), <2>8, <3>2, <3>3 DEF FetchHistory
  <2>9. ASSUME NEW c \in Channels, SkipChannel(s, c) PROVE TypeOK'
    <3>1. [p EXCEPT !.channels = p.channels \ {c}, !.due = Owed(s)] \in Pass
      BY <2>1, PassTypes
    <3>2. blind' \subseteq posts
      BY <2>9, Answers DEF SkipChannel
    <3>3. QED
      BY <2>9, <3>1, <3>2 DEF SkipChannel, Refused, Fault
  <2>10. ASSUME NEW m \in p.page, IndexMessage(s, m) PROVE TypeOK'
    <3>1. [p EXCEPT !.page = p.page \ {m}, !.threads = p.threads \ {m}] \in Pass
      BY <2>1, PassTypes
    <3>2. documents' \subseteq posts
      BY <2>1, <2>10, Answers DEF IndexMessage
    <3>3. QED
      BY <2>10, <3>1, <3>2 DEF IndexMessage
  <2>11. ASSUME NEW m \in p.page, IndexFails(s, m) PROVE TypeOK'
    <3>1. [p EXCEPT !.page = p.page \ {m}, !.threads = p.threads \ {m}, !.due = Owed(s)] \in Pass
      BY <2>1, PassTypes
    <3>2. blind' \subseteq posts
      <4>1. WithReplies({m}) \subseteq posts
        BY <2>1, Answers
      <4>2. QED
        BY <2>11, <4>1 DEF IndexFails
    <3>3. faults' \in 0 .. MaxFaults
      BY <2>11, FaultsBounded DEF IndexFails
    <3>4. QED
      BY <2>11, <3>1, <3>2, <3>3 DEF IndexFails
  <2>12. ASSUME NEW m \in p.page, ThreadFails(s, m) PROVE TypeOK'
    <3>1. [p EXCEPT !.page = p.page \ {m}, !.threads = p.threads \ {m}, !.due = Owed(s)] \in Pass
      BY <2>1, PassTypes
    <3>2. blind' \subseteq posts /\ documents' \subseteq posts
      BY <2>1, <2>12, Answers DEF ThreadFails
    <3>3. QED
      BY <2>12, <3>1, <3>2 DEF ThreadFails, Refused, Fault
  <2>13. ASSUME PageFails(s) PROVE TypeOK'
    <3>1. [p EXCEPT !.page = {}, !.threads = {}, !.due = Owed(s)] \in Pass
      BY <2>1, PassTypes
    <3>2. blind' \subseteq posts
      BY <2>1, <2>13, Answers DEF PageFails
    <3>3. faults' \in 0 .. MaxFaults
      BY <2>13, FaultsBounded DEF PageFails
    <3>4. QED
      BY <2>13, <3>1, <3>2, <3>3 DEF PageFails
  <2>14. ASSUME SetSyncState(s) \/ SetSyncStateFails(s) PROVE TypeOK'
    <3>1. faults' \in 0 .. MaxFaults /\ cursor' \in 0 .. now
      BY <2>1, <2>14, FaultsBounded DEF SetSyncState, SetSyncStateFails
    <3>2. QED
      BY <2>14, <3>1, PassTypes DEF SetSyncState, SetSyncStateFails
  <2>15. ASSUME TimeOut(s) PROVE TypeOK'
    <3>1. [p EXCEPT !.timedOut = TRUE] \in Pass
      BY <2>1, PassTypes
    <3>2. QED
      BY <2>15, <3>1 DEF TimeOut
  <2> HIDE DEF TypeOK, p
  <2>16. QED
    BY <1>5, <2>3, <2>4, <2>5, <2>6, <2>7, <2>8, <2>9, <2>10, <2>11, <2>12, <2>13, <2>14, <2>15 DEF SyncStep, p
<1> HIDE SlackAssumption DEF TypeOK
<1>6. QED
  BY <1>1, <1>2, <1>3, <1>4, <1>5 DEF Next

-----------------------------------------------------------------------------
\* A step of a sync is its own: the others go on as they were.
LEMMA OwnStep ==
  ASSUME TypeOK, NEW s \in Syncs, SyncStep(s)
  PROVE  /\ posts' = posts /\ now' = now /\ queue' = queue /\ process' = process
         /\ documents \subseteq documents' /\ blind \subseteq blind'
         /\ \A q \in Syncs : q # s => sync'[q] = sync[q]
         /\ \A m : BotBegan(m)' <=> BotBegan(m)
<1>1. posts' = posts /\ now' = now /\ queue' = queue /\ process' = process
  BY DEF SyncStep, Begin, Abort, Reset, ReadCursor, ListChannels, FetchHistory,
         SkipChannel, IndexMessage, IndexFails, ThreadFails, PageFails, SetSyncState,
         SetSyncStateFails, TimeOut
<1>2. documents \subseteq documents'
  BY DEF SyncStep, Begin, Abort, Reset, ReadCursor, ListChannels, FetchHistory,
         SkipChannel, IndexMessage, IndexFails, ThreadFails, PageFails, SetSyncState,
         SetSyncStateFails, TimeOut
<1>3. blind \subseteq blind'
  BY DEF SyncStep, Begin, Abort, Reset, ReadCursor, ListChannels, FetchHistory,
         SkipChannel, IndexMessage, IndexFails, ThreadFails, PageFails, SetSyncState,
         SetSyncStateFails, TimeOut
<1>4. \A q \in Syncs : q # s => sync'[q] = sync[q]
  BY DEF TypeOK, SyncStep, Begin, Abort, Reset, ReadCursor, ListChannels, FetchHistory,
         SkipChannel, IndexMessage, IndexFails, ThreadFails, PageFails, SetSyncState,
         SetSyncStateFails, TimeOut
<1>5. \A m : BotBegan(m)' <=> BotBegan(m)
  BY <1>1 DEF BotBegan
<1>6. QED
  BY <1>1, <1>2, <1>3, <1>4, <1>5

\* Only Post adds messages; no step takes one, or a document, away.
LEMMA OnlyPostPosts ==
  ASSUME TypeOK, [Next]_vars
  PROVE  (posts' = posts /\ now' = now) \/ \E c \in Channels : Post(c)
BY OwnStep DEF Next, vars, ProcessEvent, HandleEvent, Start, Stop, Exit

\* The sets of messages and documents only grow.
LEMMA Grows ==
  ASSUME TypeOK, [Next]_vars
  PROVE  /\ posts \subseteq posts' /\ documents \subseteq documents' /\ blind \subseteq blind'
         /\ \A m : BotBegan(m) => BotBegan(m)'
<1>1. posts \subseteq posts' /\ documents \subseteq documents' /\ blind \subseteq blind'
  BY OwnStep DEF Next, vars, Post, ProcessEvent, HandleEvent, Start, Stop, Exit
<1>2. QED
  BY <1>1 DEF BotBegan

\* What Post adds: one message, later than all the others.
LEMMA NewPost ==
  ASSUME TypeOK, NEW c \in Channels, Post(c)
  PROVE  \E thread \in {now + 1} \cup {r.at : r \in History(c, 0)}, bot \in BOOLEAN :
           LET m == [at |-> now + 1, channel |-> c, thread |-> thread, bot |-> bot] IN
           /\ posts' = posts \cup {m}
           /\ Behind(m) => m \in blind'
           /\ blind \subseteq blind'
           /\ now' = now + 1
BY DEF Post

\* Every step keeps what is known of the messages themselves.
LEMMA PostsPreserved ==
  ASSUME TypeOK, PostsInv, [Next]_vars
  PROVE  PostsInv'
<1>1. CASE posts' = posts /\ now' = now
  BY <1>1 DEF PostsInv
<1>2. ASSUME NEW c \in Channels, Post(c) PROVE PostsInv'
  <2>1. PICK thread \in {now + 1} \cup {r.at : r \in History(c, 0)}, bot \in BOOLEAN :
          /\ posts' = posts \cup {[at |-> now + 1, channel |-> c, thread |-> thread, bot |-> bot]}
          /\ now' = now + 1
    BY <1>2, NewPost
  <2> DEFINE m == [at |-> now + 1, channel |-> c, thread |-> thread, bot |-> bot]
  <2>2. now \in Nat /\ \A n \in posts : n.at \in 1 .. now /\ n.at \in 1 .. now' /\ n.at # now + 1
    BY <2>1, SlackAssumption DEF PostsInv, TypeOK, Time
  <2>3. m.at \in 1 .. now' /\ m.thread <= m.at
    BY <2>1, <2>2 DEF History
  <2>4. \E root \in posts' : root.at = m.thread /\ root.thread = root.at /\ root.channel = m.channel
    <3>1. CASE thread = now + 1
      BY <2>1, <3>1
    <3>2. CASE thread # now + 1
      BY <2>1, <3>2 DEF History
    <3>3. QED
      BY <3>1, <3>2
  <2>5. \A n \in posts' : /\ n.at \in 1 .. now'
                          /\ n.thread <= n.at
                          /\ \E root \in posts' :
                               root.at = n.thread /\ root.thread = root.at /\ root.channel = n.channel
    <3> TAKE n \in posts'
    <3>1. CASE n = m
      BY <3>1, <2>3, <2>4
    <3>2. CASE n \in posts
      BY <3>2, <2>1, <2>2 DEF PostsInv
    <3> HIDE DEF m
    <3>3. QED
      BY <2>1, <3>1, <3>2 DEF m
  <2>6. \A n, o \in posts' : n.at = o.at => n = o
    BY <2>1, <2>2 DEF PostsInv
  <2>7. QED
    BY <2>5, <2>6 DEF PostsInv
<1>3. QED
  BY <1>1, <1>2, OnlyPostPosts

\* A pass in hand: each step leaves it as it was or takes from it.
LEMMA HandsPreserved ==
  ASSUME TypeOK, \A s \in Syncs : HandInv(s), [Next]_vars
  PROVE  \A s \in Syncs : HandInv(s)'
<1> SUFFICES ASSUME NEW q \in Syncs PROVE HandInv(q)'
  OBVIOUS
<1>1. HandInv(q) /\ posts \subseteq posts'
  BY Grows
<1>2. CASE UNCHANGED <<sync, process>>
  BY <1>1, <1>2 DEF HandInv
<1>3. CASE Start \/ Stop
  BY <1>1, <1>3 DEF HandInv, Start, Stop
<1>4. CASE Exit
  BY <1>1, <1>4 DEF HandInv, Exit, Idle
<1>5. ASSUME NEW s \in Syncs, SyncStep(s) PROVE HandInv(q)'
  <2>1. sync \in [Syncs -> Pass] /\ process' = process
    BY <1>5, OwnStep DEF TypeOK
  <2>2. CASE q # s
    <3>1. sync'[q] = sync[q]
      BY <1>5, <2>2, OwnStep
    <3>2. QED
      BY <1>1, <2>1, <3>1 DEF HandInv
  <2>3. CASE q = s
    <3>1. CASE Begin(s)
      BY <1>1, <2>1, <2>3, <3>1 DEF HandInv, Begin, Idle
    <3>2. CASE Abort(s) \/ SetSyncState(s) \/ SetSyncStateFails(s)
      BY <1>1, <2>1, <2>3, <3>2 DEF HandInv, Abort, SetSyncState, SetSyncStateFails, Idle
    <3>3. CASE Reset(s) \/ ReadCursor(s) \/ ListChannels(s) \/ TimeOut(s)
      BY <1>1, <2>1, <2>3, <3>3 DEF HandInv, Reset, ReadCursor, ListChannels, TimeOut, Pass
    <3>4. ASSUME NEW c \in Channels, FetchHistory(s, c) PROVE HandInv(q)'
      <4>1. /\ sync'[s].page = OfPeople(History(c, sync[s].oldest))
            /\ sync'[s].threads \subseteq sync'[s].page
            /\ sync'[s].due = sync[s].due /\ sync'[s].pc = sync[s].pc
        BY <2>1, <3>4 DEF FetchHistory, Pass
      <4>2. OfPeople(History(c, sync[s].oldest)) \subseteq {m \in posts : m.thread = m.at}
        BY DEF History, OfPeople
      <4>3. QED
        BY ZenonT(30), <1>1, <2>1, <2>3, <3>4, <4>1, <4>2, OwnStep, <1>5 DEF HandInv, FetchHistory, BetweenChannels
    <3>5. ASSUME NEW c \in Channels, SkipChannel(s, c) PROVE HandInv(q)'
      BY <1>1, <2>1, <2>3, <3>5 DEF HandInv, SkipChannel, BetweenChannels, Pass, Owed
    <3>6. ASSUME NEW m \in sync[s].page, IndexMessage(s, m) \/ IndexFails(s, m) \/ ThreadFails(s, m)
          PROVE HandInv(q)'
      BY <1>1, <2>1, <2>3, <3>6 DEF HandInv, IndexMessage, IndexFails, ThreadFails, Pass, Owed
    <3>7. CASE PageFails(s)
      BY <1>1, <2>1, <2>3, <3>7 DEF HandInv, PageFails, Pass, Owed
    <3> HIDE DEF HandInv
    <3>8. QED
      BY <1>5, <3>1, <3>2, <3>3, <3>4, <3>5, <3>6, <3>7 DEF SyncStep
  <2>4. QED
    BY <2>2, <2>3
<1>6. QED
  BY <1>2, <1>3, <1>4, <1>5 DEF Next, vars, Post, ProcessEvent, HandleEvent

-----------------------------------------------------------------------------
\* A message is the one that began its thread, or one of its replies.
LEMMA InThread ==
  ASSUME PostsInv, NEW n \in posts, NEW t \in posts, t.thread = t.at, t.at = n.thread
  PROVE  n = t \/ n \in Replies(t)
<1>1. PICK root \in posts : root.at = n.thread /\ root.thread = root.at /\ root.channel = n.channel
  BY DEF PostsInv
<1>2. root = t
  BY <1>1 DEF PostsInv
<1>3. n.at = t.at => n = t
  BY DEF PostsInv
<1>4. QED
  BY <1>1, <1>2, <1>3 DEF Replies

\* A history has the beginning of every thread that began after its cursor.
LEMMA ThreadRead ==
  ASSUME PostsInv, NEW n \in posts, NEW t \in Nat, ~ (n.thread <= t)
  PROVE  \E root \in History(n.channel, t) : root.at = n.thread
<1>1. PICK root \in posts : root.at = n.thread /\ root.thread = root.at /\ root.channel = n.channel
  BY DEF PostsInv
<1>2. root.at > t
  BY <1>1 DEF PostsInv
<1>3. QED
  BY <1>1, <1>2 DEF History

\* With it, every message of such a thread is the history's or a reply to it.
LEMMA ThreadCovered ==
  ASSUME PostsInv, NEW n \in posts, NEW t \in Nat, ~ (n.thread <= t)
  PROVE  /\ n \in WithReplies(History(n.channel, t))
         /\ \E root \in History(n.channel, t) :
              root.at = n.thread /\ (n = root \/ n \in Replies(root))
<1>1. PICK root \in History(n.channel, t) : root.at = n.thread
  BY ThreadRead
<1>2. root \in posts /\ root.thread = root.at
  BY <1>1 DEF History
<1>3. n = root \/ n \in Replies(root)
  BY <1>1, <1>2, InThread
<1>4. QED
  BY <1>1, <1>3 DEF WithReplies

\* A new message that no sync will read is known to be missing.
LEMMA PostExplained ==
  ASSUME TypeOK, ExplainedTo(cursor), NEW q \in Syncs, HandInv(q), PassInv(q), DueInv(q),
         NEW c \in Channels, Post(c)
  PROVE  ExplainedTo(cursor)' /\ PassInv(q)' /\ DueInv(q)'
<1>1. PICK thread \in {now + 1} \cup {r.at : r \in History(c, 0)}, bot \in BOOLEAN :
        LET m == [at |-> now + 1, channel |-> c, thread |-> thread, bot |-> bot] IN
        /\ posts' = posts \cup {m}
        /\ Behind(m) => m \in blind'
        /\ blind \subseteq blind'
  BY NewPost
<1> DEFINE m == [at |-> now + 1, channel |-> c, thread |-> thread, bot |-> bot]
<1>2. /\ posts' = posts \cup {m}
      /\ Behind(m) => m \in blind'
      /\ blind \subseteq blind'
  BY <1>1
<1> HIDE DEF m
<1>3. UNCHANGED <<documents, cursor, sync, process>>
  BY DEF Post
<1>9. \A n : BotBegan(n) => BotBegan(n)'
  BY <1>2 DEF BotBegan
<1>4. ExplainedTo(cursor)'
  BY <1>2, <1>3, <1>9 DEF ExplainedTo, Behind
<1>5. \A n : InHand(q, n)' <=> InHand(q, n)
  BY <1>3 DEF InHand
<1>6. PassInv(q)'
  <2>1. sync[q].pc \in {"list", "channels"} => ExplainedTo(sync[q].oldest)'
    BY <1>2, <1>3, <1>9 DEF PassInv, ExplainedTo, Behind
  <2>2. ASSUME sync[q].pc = "channels", NEW n \in posts', n.channel \notin sync[q].channels,
               n \notin documents
        PROVE  n \in blind' \/ BotBegan(n)' \/ InHand(q, n)
    <3>1. CASE n \in posts
      BY <2>2, <3>1, <1>2, <1>9 DEF PassInv
    <3>2. CASE n = m
      <4>1. CASE \A t \in sync[q].threads : t.at # m.thread
        BY <2>2, <3>2, <4>1, <1>2 DEF Behind
      <4>2. CASE \E t \in sync[q].threads : t.at = m.thread
        BY <3>2, <4>2 DEF InHand, HandInv
      <4>3. QED
        BY <4>1, <4>2
    <3>3. QED
      BY <3>1, <3>2, <1>2
  <2>3. QED
    BY <2>1, <2>2, <1>3, <1>5 DEF PassInv
<1>7. DueInv(q)'
  BY <1>3, <1>5, <1>9 DEF DueInv, Cut
<1>8. QED
  BY <1>4, <1>6, <1>7

\* A step elsewhere leaves what a pass has explained and owes explained.
LEMMA OthersKept ==
  ASSUME NEW q \in Syncs, PassInv(q), DueInv(q), posts' = posts, sync'[q] = sync[q],
         documents \subseteq documents', blind \subseteq blind', Cut(q) => Cut(q)'
  PROVE  PassInv(q)' /\ DueInv(q)'
<1>1. \A n : (InHand(q, n)' <=> InHand(q, n)) /\ (BotBegan(n)' <=> BotBegan(n))
  BY DEF InHand, BotBegan
<1>2. PassInv(q)'
  BY <1>1 DEF PassInv, ExplainedTo
<1>3. DueInv(q)'
  BY <1>1 DEF DueInv
<1>4. QED
  BY <1>2, <1>3

\* What leaves the hand is indexed or known to be missing.
LEMMA FromHand ==
  ASSUME PostsInv, TypeOK, NEW s \in Syncs, HandInv(s), NEW m \in sync[s].page,
         sync'[s].page = sync[s].page \ {m}, sync'[s].threads = sync[s].threads \ {m},
         NEW n \in posts, InHand(s, n)
  PROVE  InHand(s, n)' \/ n = m \/ (m \in sync[s].threads /\ n \in Replies(m))
<1>1. PICK t \in sync[s].page : t.at = n.thread /\ (n = t \/ t \in sync[s].threads)
  BY DEF InHand
<1>2. CASE t = m
  <2>1. m \in posts /\ m.thread = m.at
    BY DEF HandInv
  <2>2. n = m \/ n \in Replies(m)
    BY <1>1, <1>2, <2>1, InThread
  <2>3. QED
    BY <1>1, <1>2, <2>2
<1>3. CASE t # m
  BY <1>1, <1>3 DEF InHand
<1>4. QED
  BY <1>2, <1>3

-----------------------------------------------------------------------------
\* A step that moves on before the channels, or ends the pass.
LEMMA EarlySteps ==
  ASSUME TypeOK, PostsInv, ExplainedTo(cursor), NEW s \in Syncs, HandInv(s), PassInv(s), SyncStep(s),
         \/ Begin(s) \/ Abort(s) \/ Reset(s) \/ ReadCursor(s) \/ ListChannels(s)
         \/ SetSyncState(s) \/ SetSyncStateFails(s)
  PROVE  PassInv(s)' /\ DueInv(s)'
<1>1. /\ sync \in [Syncs -> Pass]
      /\ posts' = posts /\ documents \subseteq documents' /\ blind \subseteq blind'
      /\ \A m : BotBegan(m)' <=> BotBegan(m)
  BY OwnStep DEF TypeOK
<1>2. CASE Begin(s) \/ Abort(s) \/ Reset(s) \/ SetSyncState(s) \/ SetSyncStateFails(s)
  <2>1. sync'[s].pc \notin {"list", "channels"}
    <3>1. Begin(s) => sync'[s].pc \in {"read", "reset"}
      BY <1>1 DEF Begin, Idle
    <3>2. Reset(s) => sync'[s].pc = "read"
      BY <1>1 DEF Reset, Pass
    <3>3. Abort(s) \/ SetSyncState(s) \/ SetSyncStateFails(s) => sync'[s].pc = "idle"
      BY <1>1 DEF Abort, SetSyncState, SetSyncStateFails, Idle
    <3>4. QED
      BY <1>2, <3>1, <3>2, <3>3
  <2>2. QED
    BY <2>1 DEF PassInv, DueInv
<1>3. CASE ReadCursor(s)
  <2>1. sync'[s].pc = "list" /\ sync'[s].oldest = cursor /\ documents' = documents
    BY <1>1, <1>3 DEF ReadCursor, Pass
  <2>2. QED
    BY <1>1, <2>1 DEF PassInv, DueInv, ExplainedTo
<1>4. CASE ListChannels(s)
  <2>1. /\ sync[s].pc = "list" /\ sync'[s].pc = "channels"
        /\ sync'[s].oldest = sync[s].oldest /\ sync'[s].channels = Channels
        /\ sync'[s].due = sync[s].due
    BY <1>1, <1>4 DEF ListChannels, Pass
  <2>2. \A n \in posts : n.channel \in Channels
    BY DEF TypeOK, Message
  <2>3. ExplainedTo(sync[s].oldest)'
    BY <1>1, <2>1 DEF PassInv, ExplainedTo
  <2>4. PassInv(s)'
    BY <1>1, <2>1, <2>2, <2>3 DEF PassInv, ExplainedTo
  <2>5. DueInv(s)'
    BY <1>1, <2>1, <2>2 DEF DueInv, HandInv
  <2>6. QED
    BY <2>4, <2>5
<1>5. QED
  BY <1>2, <1>3, <1>4

\* While it reads the channels, what a pass has read is indexed, in its hand or
\* known to be missing.
LEMMA ChannelSteps ==
  ASSUME TypeOK, PostsInv, NEW s \in Syncs, HandInv(s), PassInv(s), SyncStep(s),
         \/ \E c \in Channels : FetchHistory(s, c) \/ SkipChannel(s, c)
         \/ \E m \in sync[s].page : IndexMessage(s, m) \/ IndexFails(s, m) \/ ThreadFails(s, m)
         \/ PageFails(s) \/ TimeOut(s)
  PROVE  PassInv(s)'
<1>1. /\ sync \in [Syncs -> Pass] /\ posts' = posts
      /\ documents \subseteq documents' /\ blind \subseteq blind'
      /\ \A m : BotBegan(m)' <=> BotBegan(m)
  BY OwnStep DEF TypeOK
<1>2. sync'[s].pc = sync[s].pc /\ sync'[s].oldest = sync[s].oldest
  <2> DEFINE Goal == sync'[s].pc = sync[s].pc /\ sync'[s].oldest = sync[s].oldest
  <2>1. ASSUME NEW c \in Channels, FetchHistory(s, c) PROVE Goal
    BY <1>1, <2>1 DEF FetchHistory, Pass
  <2>2. ASSUME NEW c \in Channels, SkipChannel(s, c) PROVE Goal
    BY <1>1, <2>2 DEF SkipChannel, Pass
  <2>3. ASSUME NEW m \in sync[s].page, IndexMessage(s, m) PROVE Goal
    BY <1>1, <2>3 DEF IndexMessage, Pass
  <2>4. ASSUME NEW m \in sync[s].page, IndexFails(s, m) PROVE Goal
    BY <1>1, <2>4 DEF IndexFails, Pass
  <2>5. ASSUME NEW m \in sync[s].page, ThreadFails(s, m) PROVE Goal
    BY <1>1, <2>5 DEF ThreadFails, Pass
  <2>6. ASSUME PageFails(s) \/ TimeOut(s) PROVE Goal
    BY <1>1, <2>6 DEF PageFails, TimeOut, Pass
  <2> HIDE DEF Goal
  <2>7. Goal
    BY <2>1, <2>2, <2>3, <2>4, <2>5, <2>6
  <2>8. QED
    BY <2>7 DEF Goal
<1>3. sync[s].pc \in {"list", "channels"} => ExplainedTo(sync[s].oldest)'
  BY <1>1, <1>2 DEF PassInv, ExplainedTo
<1>4. sync[s].oldest \in Nat
  BY <1>1, SlackAssumption DEF Pass, Time
<1> SUFFICES ASSUME sync[s].pc = "channels", NEW n \in posts,
                    n.channel \notin sync'[s].channels, n \notin documents'
             PROVE  n \in blind' \/ BotBegan(n) \/ InHand(s, n)'
  BY <1>1, <1>2, <1>3 DEF PassInv
<1>5. n \notin documents /\ (n.thread <= sync[s].oldest => n \in blind' \/ BotBegan(n))
  BY <1>1 DEF PassInv, ExplainedTo
<1>6. ASSUME NEW c \in Channels, FetchHistory(s, c) PROVE n \in blind' \/ BotBegan(n) \/ InHand(s, n)'
  <2>1. /\ sync[s].page = {} /\ sync'[s].channels = sync[s].channels \ {c}
        /\ sync'[s].page = OfPeople(History(c, sync[s].oldest))
        /\ sync'[s].threads = {m \in sync'[s].page : Replies(m) # {}}
    BY <1>1, <1>6 DEF FetchHistory, BetweenChannels, Pass
  <2>2. CASE n.channel # c
    BY <1>1, <1>5, <2>1, <2>2 DEF PassInv, InHand
  <2>3. CASE n.channel = c /\ ~ (n.thread <= sync[s].oldest)
    <3>1. PICK root \in History(c, sync[s].oldest) :
            root.at = n.thread /\ (n = root \/ n \in Replies(root))
      BY <1>4, <2>3, ThreadCovered
    <3>2. CASE root.bot
      BY <2>3, <3>1, <3>2 DEF BotBegan, History
    <3>3. CASE ~ root.bot
      BY <2>1, <3>1, <3>3 DEF InHand, OfPeople
    <3>4. QED
      BY <3>2, <3>3
  <2>4. QED
    BY <1>5, <2>2, <2>3
<1>7. ASSUME NEW c \in Channels, SkipChannel(s, c) PROVE n \in blind' \/ BotBegan(n) \/ InHand(s, n)'
  <2>1. /\ sync[s].page = {} /\ sync'[s].channels = sync[s].channels \ {c}
        /\ WithReplies(History(c, sync[s].oldest)) \subseteq blind'
    BY <1>1, <1>7 DEF SkipChannel, BetweenChannels, Pass
  <2>2. CASE n.channel # c
    BY <1>1, <1>5, <2>1, <2>2 DEF PassInv, InHand
  <2>3. CASE n.channel = c /\ ~ (n.thread <= sync[s].oldest)
    BY <1>4, <2>1, <2>3, ThreadCovered
  <2>4. QED
    BY <1>5, <2>2, <2>3
<1>8. CASE sync'[s].channels = sync[s].channels /\ ~ InHand(s, n)
  BY <1>1, <1>5, <1>8 DEF PassInv
<1>9. ASSUME NEW m \in sync[s].page, IndexMessage(s, m) \/ IndexFails(s, m) \/ ThreadFails(s, m)
      PROVE  n \in blind' \/ BotBegan(n) \/ InHand(s, n)'
  <2>1. /\ sync'[s].channels = sync[s].channels
        /\ sync'[s].page = sync[s].page \ {m} /\ sync'[s].threads = sync[s].threads \ {m}
    BY ZenonT(30), <1>1, <1>9 DEF IndexMessage, IndexFails, ThreadFails, Pass
  <2>2. CASE InHand(s, n)
    <3>1. InHand(s, n)' \/ n = m \/ (m \in sync[s].threads /\ n \in Replies(m))
      BY <2>1, <2>2, FromHand
    <3>2. n = m \/ (m \in sync[s].threads /\ n \in Replies(m)) => n \in documents' \cup blind'
      <4>1. CASE IndexMessage(s, m)
        BY <4>1 DEF IndexMessage
      <4>2. CASE IndexFails(s, m)
        BY <4>2 DEF IndexFails, WithReplies
      <4>3. CASE ThreadFails(s, m)
        BY <4>3 DEF ThreadFails
      <4>4. QED
        BY <1>9, <4>1, <4>2, <4>3
    <3>3. QED
      BY <3>1, <3>2
  <2>3. QED
    BY <1>8, <2>1, <2>2
<1>10. CASE PageFails(s)
  <2>1. sync'[s].channels = sync[s].channels /\ WithReplies(sync[s].page) \subseteq blind'
    BY <1>1, <1>10 DEF PageFails, Pass
  <2>2. CASE InHand(s, n)
    <3>1. PICK t \in sync[s].page : t.at = n.thread
      BY <2>2 DEF InHand
    <3>2. n = t \/ n \in Replies(t)
      BY <3>1, InThread DEF HandInv
    <3>3. QED
      BY <2>1, <3>1, <3>2 DEF WithReplies
  <2>3. QED
    BY <1>8, <2>1, <2>2
<1>11. CASE TimeOut(s)
  <2>1. /\ sync'[s].channels = sync[s].channels
        /\ sync'[s].page = sync[s].page /\ sync'[s].threads = sync[s].threads
    BY <1>1, <1>11 DEF TimeOut, Pass
  <2>2. InHand(s, n) => InHand(s, n)'
    BY <2>1 DEF InHand
  <2>3. QED
    BY <1>8, <2>1, <2>2
<1>12. QED
  BY <1>6, <1>7, <1>9, <1>10, <1>11

\* While it reads the channels, what a backfill owes of those it has read is
\* indexed or in its hand: it owes nothing after a failure.
LEMMA DueSteps ==
  ASSUME TypeOK, PostsInv, NEW s \in Syncs, HandInv(s), DueInv(s), SyncStep(s),
         \/ \E c \in Channels : FetchHistory(s, c) \/ SkipChannel(s, c)
         \/ \E m \in sync[s].page : IndexMessage(s, m) \/ IndexFails(s, m) \/ ThreadFails(s, m)
         \/ PageFails(s) \/ TimeOut(s)
  PROVE  DueInv(s)'
<1>1. /\ sync \in [Syncs -> Pass] /\ posts' = posts /\ process' = process
      /\ documents \subseteq documents'
      /\ \A m : BotBegan(m)' <=> BotBegan(m)
  BY OwnStep DEF TypeOK
<1>2. /\ sync[s] \in Pass /\ sync[s].due \subseteq posts
      /\ \A n \in posts : ~ (n.thread <= 0)
  BY <1>1 DEF HandInv, PostsInv
<1>3. ASSUME NEW c \in Channels, FetchHistory(s, c) PROVE DueInv(s)'
  <2>1. /\ sync[s].page = {} /\ sync'[s].channels = sync[s].channels \ {c}
        /\ sync'[s].page = OfPeople(History(c, sync[s].oldest))
        /\ sync'[s].threads = {m \in sync'[s].page : Replies(m) # {}}
        /\ sync'[s].pc = "channels" /\ sync[s].pc = "channels"
        /\ sync'[s].oldest = sync[s].oldest
        /\ sync'[s].due = sync[s].due /\ sync'[s].timedOut = sync[s].timedOut
    BY <1>1, <1>3 DEF FetchHistory, BetweenChannels, Pass
  <2> SUFFICES ASSUME sync[s].oldest = 0, ~ Cut(s), NEW n \in sync[s].due,
                      n.channel \notin sync'[s].channels, n \notin documents'
               PROVE  BotBegan(n) \/ InHand(s, n)'
    BY <1>1, <2>1 DEF DueInv, Cut
  <2>2. n \notin documents
    BY <1>1
  <2>3. CASE n.channel # c
    BY <2>1, <2>2, <2>3 DEF DueInv, InHand
  <2>4. CASE n.channel = c
    <3>1. PICK root \in History(c, 0) : root.at = n.thread /\ (n = root \/ n \in Replies(root))
      BY <1>2, <2>4, ThreadCovered
    <3>2. CASE root.bot
      BY <2>4, <3>1, <3>2 DEF BotBegan, History
    <3>3. CASE ~ root.bot
      BY <2>1, <3>1, <3>3 DEF InHand, OfPeople
    <3>4. QED
      BY <3>2, <3>3
  <2>5. QED
    BY <2>3, <2>4
<1>4. ASSUME sync'[s].due = Owed(s), sync'[s].timedOut = sync[s].timedOut PROVE DueInv(s)'
  <2>1. Cut(s)' <=> Cut(s)
    BY <1>1, <1>4 DEF Cut
  <2>2. ~ Cut(s) => sync'[s].due = {}
    BY <1>4 DEF Owed
  <2>3. QED
    BY <2>1, <2>2 DEF DueInv
<1>5. ASSUME NEW c \in Channels, SkipChannel(s, c) PROVE DueInv(s)'
  BY <1>1, <1>4, <1>5 DEF SkipChannel, Pass
<1>6. ASSUME NEW m \in sync[s].page, IndexMessage(s, m) PROVE DueInv(s)'
  <2>1. /\ sync'[s].channels = sync[s].channels /\ sync'[s].oldest = sync[s].oldest
        /\ sync'[s].page = sync[s].page \ {m} /\ sync'[s].threads = sync[s].threads \ {m}
        /\ sync'[s].pc = sync[s].pc
        /\ sync'[s].due = sync[s].due /\ sync'[s].timedOut = sync[s].timedOut
    BY <1>1, <1>6 DEF IndexMessage, Pass
  <2> SUFFICES ASSUME sync[s].pc = "channels", sync[s].oldest = 0, ~ Cut(s), NEW n \in sync[s].due,
                      n.channel \notin sync[s].channels, n \notin documents'
               PROVE  BotBegan(n) \/ InHand(s, n)'
    BY <1>1, <2>1 DEF DueInv, Cut
  <2>2. BotBegan(n) \/ InHand(s, n)
    BY <1>1 DEF DueInv
  <2>3. BotBegan(n) \/ InHand(s, n)' \/ n = m \/ (m \in sync[s].threads /\ n \in Replies(m))
    BY <1>2, <2>1, <2>2, FromHand
  <2>4. QED
    BY <1>6, <2>3 DEF IndexMessage
<1>7. ASSUME NEW m \in sync[s].page, IndexFails(s, m) PROVE DueInv(s)'
  BY <1>1, <1>4, <1>7 DEF IndexFails, Pass
<1>8. ASSUME NEW m \in sync[s].page, ThreadFails(s, m) PROVE DueInv(s)'
  BY <1>1, <1>4, <1>8 DEF ThreadFails, Pass
<1>9. CASE PageFails(s)
  BY <1>1, <1>4, <1>9 DEF PageFails, Pass
<1>10. CASE TimeOut(s)
  BY <1>1, <1>10 DEF TimeOut, Pass, DueInv, Cut
<1>11. QED
  BY <1>3, <1>5, <1>6, <1>7, <1>8, <1>9, <1>10

\* What is missing behind the cursor is known to be missing.
LEMMA CursorSteps ==
  ASSUME TypeOK, PostsInv, ExplainedTo(cursor), NEW s \in Syncs, PassInv(s), SyncStep(s)
  PROVE  ExplainedTo(cursor)'
<1>1. /\ posts' = posts /\ documents \subseteq documents' /\ blind \subseteq blind'
      /\ \A m : BotBegan(m)' <=> BotBegan(m)
  BY OwnStep
<1>2. CASE cursor' = cursor
  BY <1>1, <1>2 DEF ExplainedTo
<1>3. CASE Reset(s)
  BY <1>1, <1>3 DEF Reset, ExplainedTo, PostsInv
<1>4. CASE SetSyncState(s)
  <2>1. sync[s].pc = "channels" /\ sync[s].channels = {} /\ sync[s].page = {}
    BY <1>4 DEF SetSyncState, Finished, BetweenChannels
  <2>2. \A n \in posts : n \notin documents => n \in blind \/ BotBegan(n)
    BY <2>1 DEF PassInv, InHand
  <2>3. QED
    BY <1>1, <2>2 DEF ExplainedTo
<1>5. QED
  BY <1>2, <1>3, <1>4 DEF SyncStep, Begin, Abort, ReadCursor, ListChannels, FetchHistory,
     SkipChannel, IndexMessage, IndexFails, ThreadFails, PageFails, SetSyncStateFails, TimeOut

\* The strengthened invariant is inductive.
LEMMA InitHolds == Init => IInv
<1>1. ASSUME Init PROVE TypeOK
  <2>1. sync \in [Syncs -> Pass]
    BY <1>1, PassTypes DEF Init
  <2>2. QED
    BY <1>1, <2>1, SlackAssumption DEF Init, TypeOK, Time
<1>2. ASSUME Init PROVE PostsInv /\ ExplainedTo(cursor)
  BY <1>2 DEF Init, PostsInv, ExplainedTo
<1>3. ASSUME Init, NEW s \in Syncs PROVE HandInv(s) /\ PassInv(s) /\ DueInv(s)
  BY <1>3 DEF Init, Idle, HandInv, PassInv, DueInv
<1>4. QED
  BY <1>1, <1>2, <1>3 DEF IInv

\* Every step of the system, or of its environment, keeps the invariant.
LEMMA Step == IInv /\ [Next]_vars => IInv'
<1> SUFFICES ASSUME IInv, [Next]_vars PROVE IInv'
  OBVIOUS
<1>1. /\ TypeOK /\ PostsInv /\ ExplainedTo(cursor)
      /\ \A q \in Syncs : HandInv(q) /\ PassInv(q) /\ DueInv(q)
  BY DEF IInv
<1>2. TypeOK' /\ PostsInv' /\ \A q \in Syncs : HandInv(q)'
  BY <1>1, TypeInvariance, PostsPreserved, HandsPreserved
<1>3. /\ posts \subseteq posts' /\ documents \subseteq documents' /\ blind \subseteq blind'
      /\ \A m : BotBegan(m) => BotBegan(m)'
  BY <1>1, Grows
<1>4. ASSUME ExplainedTo(cursor)', \A q \in Syncs : PassInv(q)' /\ DueInv(q)' PROVE IInv'
  BY <1>2, <1>4 DEF IInv
<1>5. ASSUME NEW c \in Channels, Post(c) PROVE IInv'
  <2>1. ExplainedTo(cursor)'
    BY <1>1, <1>5, PostExplained, SlackAssumption
  <2>2. \A q \in Syncs : PassInv(q)' /\ DueInv(q)'
    BY <1>1, <1>5, PostExplained
  <2>3. QED
    BY <1>4, <2>1, <2>2
<1>6. ASSUME UNCHANGED <<posts, cursor, sync>>, \A q \in Syncs : Cut(q) => Cut(q)' PROVE IInv'
  <2>1. ExplainedTo(cursor)'
    BY <1>1, <1>3, <1>6 DEF ExplainedTo
  <2>2. \A q \in Syncs : PassInv(q)' /\ DueInv(q)'
    BY <1>1, <1>3, <1>6, OthersKept
  <2>3. QED
    BY <1>4, <2>1, <2>2
<1>7. ASSUME UNCHANGED <<posts, cursor>>, \A q \in Syncs : sync'[q].pc = "idle" PROVE IInv'
  <2>1. ExplainedTo(cursor)'
    BY <1>1, <1>3, <1>7 DEF ExplainedTo
  <2>2. \A q \in Syncs : PassInv(q)' /\ DueInv(q)'
    BY <1>7 DEF PassInv, DueInv
  <2>3. QED
    BY <1>4, <2>1, <2>2
<1>8. ASSUME NEW s \in Syncs, SyncStep(s) PROVE IInv'
  <2>1. ExplainedTo(cursor)'
    BY <1>1, <1>8, CursorSteps
  <2>2. ASSUME NEW q \in Syncs PROVE PassInv(q)' /\ DueInv(q)'
    <3>1. CASE q # s
      <4>1. sync'[q] = sync[q] /\ posts' = posts /\ process' = process
        BY <1>1, <1>8, <3>1, OwnStep
      <4>2. Cut(q) => Cut(q)'
        BY <4>1 DEF Cut
      <4>3. QED
        BY <1>1, <1>3, <4>1, <4>2, OthersKept
    <3>2. CASE q = s
      <4>1. CASE \/ Begin(s) \/ Abort(s) \/ Reset(s) \/ ReadCursor(s) \/ ListChannels(s)
                 \/ SetSyncState(s) \/ SetSyncStateFails(s)
        BY <1>1, <1>8, <3>2, <4>1, EarlySteps
      <4>2. CASE \/ \E c \in Channels : FetchHistory(s, c) \/ SkipChannel(s, c)
                 \/ \E m \in sync[s].page :
                      IndexMessage(s, m) \/ IndexFails(s, m) \/ ThreadFails(s, m)
                 \/ PageFails(s) \/ TimeOut(s)
        BY <1>1, <1>8, <3>2, <4>2, ChannelSteps, DueSteps
      <4>3. QED
        BY <1>8, <4>1, <4>2 DEF SyncStep
    <3>3. QED
      BY <3>1, <3>2
  <2>3. QED
    BY <1>4, <2>1, <2>2
<1>9. ASSUME NEW m \in posts, ProcessEvent(m) PROVE IInv'
  BY <1>6, <1>9 DEF ProcessEvent, Cut
<1>10. ASSUME NEW m \in queue, HandleEvent(m) PROVE IInv'
  BY <1>6, <1>10 DEF HandleEvent, Cut
<1>11. CASE Start
  BY <1>1, <1>7, <1>11 DEF Start, HandInv
<1>12. CASE Stop
  BY <1>6, <1>12 DEF Stop, Cut
<1>13. CASE Exit
  BY <1>7, <1>13 DEF Exit, Idle
<1>14. CASE UNCHANGED vars
  BY <1>6, <1>14 DEF vars, Cut
<1>15. QED
  BY <1>5, <1>8, <1>9, <1>10, <1>11, <1>12, <1>13, <1>14 DEF Next

\* The strengthened invariant holds in every reachable state.
THEOREM SyncInvariance == Spec => []IInv
<1>1. QED
  BY InitHolds, Step, PTL DEF Spec

\* The variables have their types in every state.
THEOREM TypeCorrect == Spec => []TypeOK
<1>1. IInv => TypeOK
  BY DEF IInv
<1>2. QED
  BY <1>1, SyncInvariance, PTL

\* A message behind the cursor that is not indexed is one the syncs were blind
\* to, or in the thread of a bot, however many of them run, fail and are cut off.
THEOREM NoOtherGaps == Spec => []GapsExplained
<1>1. IInv => GapsExplained
  <2> SUFFICES ASSUME IInv, NEW m \in posts, m.at <= cursor, m \notin documents
               PROVE  m \in blind \/ BotBegan(m)
    BY DEF GapsExplained
  <2>1. m.at \in Nat /\ m.thread \in Nat /\ cursor \in Nat /\ m.thread <= m.at
    BY SlackAssumption DEF IInv, TypeOK, PostsInv, Message, Time
  <2>2. m.thread <= cursor
    BY <2>1
  <2>3. QED
    BY <2>2 DEF IInv, ExplainedTo
<1>2. QED
  BY <1>1, SyncInvariance, PTL

\* A sync from an empty cursor in which nothing failed has indexed everything
\* that was posted before it was called in the threads people began.
THEOREM CompleteBackfill == Spec => BackfillIsComplete
<1>1. ASSUME IInv, [Next]_vars, NEW s \in Syncs, Stores(s), sync[s].oldest = 0, ~ Cut(s)
      PROVE  \A m \in sync[s].due : m \in documents' \/ BotBegan(m)
  <2>1. sync[s].pc = "channels" /\ sync[s].channels = {} /\ sync[s].page = {}
    BY <1>1 DEF Stores, Finished, BetweenChannels
  <2>2. \A m \in sync[s].due : m \in documents \/ BotBegan(m)
    BY <1>1, <2>1 DEF IInv, DueInv, InHand
  <2>3. QED
    BY <1>1, <2>2, Grows DEF IInv
<1>2. IInv /\ [Next]_vars =>
        [\A s \in Syncs : Stores(s) /\ sync[s].oldest = 0 /\ ~ Cut(s) =>
           \A m \in sync[s].due : m \in documents' \/ BotBegan(m)]_vars
  BY <1>1
<1>3. QED
  BY <1>2, SyncInvariance, PTL DEF Spec, BackfillIsComplete

=============================================================================
