---------------------------- MODULE DiscordSync ----------------------------
(***************************************************************************)
(* How messages of Discord reach the knowledge base (internal/discord/     *)
(* connector.go): the gateway announces each one while it is connected,     *)
(* and Sync reads every text channel after one cursor, the largest id any   *)
(* channel had indexed when the last sync ended.  Ids grow over the whole   *)
(* guild, so a message is its number.  Messages of bots, which neither way  *)
(* indexes, are left out, and so are direct messages.                       *)
(***************************************************************************)
EXTENDS Naturals, FiniteSets, FiniteSetsExt, Sequences

CONSTANTS
    Room,            \* the guild's text channels
    DiscordRun,      \* the scheduler's syncs, one after the other, and triggered ones
    PageOf,          \* messages in a full page (100)
    MaxSaid,         \* how many messages are ever posted
    MaxRoomFaults    \* how often a request or an indexing fails

ASSUME DiscordAssumption ==
    /\ PageOf \in Nat \ {0}
    /\ MaxSaid \in Nat
    /\ MaxRoomFaults \in Nat

VARIABLES
    room,       \* message -> the channel it was posted in
    indexed,    \* the messages in the knowledge base
    announced,  \* messages the gateway has still to hand over
    gateway,    \* the gateway is connected
    mark,       \* sync_state.cursor, 0 when there is none
    pass,       \* [DiscordRun -> the sync in progress]
    roomFaults,
    passedBy    \* ghost: messages one of the known causes keeps out

discordVars == <<room, indexed, announced, gateway, mark, pass, roomFaults, passedBy>>

Said == 1..Len(room)
In(c) == {m \in Said : room[m] = c}

(* A sync: the cursor it began with, the channels it has not begun, the one it
   reads, how far, the last message indexed there and the largest of all. *)
NoPass == [on |-> FALSE, after |-> 0, left |-> {}, reading |-> {}, from |-> 0,
           last |-> 0, latest |-> 0, failed |-> {}]

IdsSoFar == 0..Len(room)

PassOfSync ==
    [on : BOOLEAN, after : IdsSoFar, left : SUBSET Room, reading : SUBSET Room, from : IdsSoFar,
     last : IdsSoFar, latest : IdsSoFar, failed : SUBSET Room]

DiscordTypeOK ==
    /\ room \in Seq(Room)
    /\ Len(room) <= MaxSaid
    /\ indexed \cup announced \cup passedBy \subseteq Said
    /\ gateway \in BOOLEAN
    /\ mark \in IdsSoFar
    /\ pass \in [DiscordRun -> PassOfSync]
    /\ roomFaults \in 0..MaxRoomFaults

DiscordInit ==
    /\ room = <<>>
    /\ indexed = {} /\ announced = {} /\ passedBy = {}
    /\ gateway = FALSE
    /\ mark = 0
    /\ pass = [s \in DiscordRun |-> NoPass]
    /\ roomFaults = 0

RoomFault == roomFaults < MaxRoomFaults /\ roomFaults' = roomFaults + 1

-----------------------------------------------------------------------------
HasRead(s, c) == pass[s].on /\ c \notin pass[s].left \cup pass[s].reading

(* A message posted in a channel a sync has read, with nobody listening, is
   behind the cursor that sync will store. *)
Say(c) ==
    /\ Len(room) < MaxSaid
    /\ room' = Append(room, c)
    /\ announced' = IF gateway THEN announced \cup {Len(room')} ELSE announced
    /\ passedBy' = IF ~gateway /\ \E s \in DiscordRun : HasRead(s, c)
                   THEN passedBy \cup {Len(room')} ELSE passedBy
    /\ UNCHANGED <<indexed, gateway, mark, pass, roomFaults>>

(* handleMessageCreate: one goroutine per event, so in any order. *)
HandleMessageCreate(m) ==
    /\ m \in announced
    /\ announced' = announced \ {m}
    /\ \/ /\ indexed' = indexed \cup {m}
          /\ UNCHANGED <<roomFaults, passedBy>>
       \/ /\ RoomFault
          /\ passedBy' = passedBy \cup {m}
          /\ UNCHANGED indexed
    /\ UNCHANGED <<room, gateway, mark, pass>>

(* The program starts and stops; events and the syncs in progress are lost. *)
Connect ==
    /\ ~gateway
    /\ gateway' = TRUE
    /\ UNCHANGED <<room, indexed, announced, mark, pass, roomFaults, passedBy>>

Disconnect ==
    /\ gateway
    /\ gateway' = FALSE
    /\ announced' = {}
    /\ passedBy' = passedBy \cup announced
    /\ pass' = [s \in DiscordRun |-> NoPass]
    /\ UNCHANGED <<room, indexed, mark, roomFaults>>

-----------------------------------------------------------------------------
(* FullSync resets the cursor and begins a sync, which may fail at once; syncs in
   progress go on from the cursor they have read. *)
ResetMark ==
    /\ mark # 0
    /\ mark' = 0
    /\ UNCHANGED <<room, indexed, announced, gateway, pass, roomFaults, passedBy>>

(* One that cannot read its cursor or list the channels ends before this. *)
Sync(s) ==
    /\ ~pass[s].on
    /\ pass' = [pass EXCEPT ![s] = [NoPass EXCEPT !.on = TRUE, !.after = mark, !.left = Room]]
    /\ UNCHANGED <<room, indexed, announced, gateway, mark, roomFaults, passedBy>>

BetweenRooms(s) == pass[s].on /\ pass[s].reading = {}
OpenRoom(s, c) == [pass[s] EXCEPT !.left = @ \ {c}, !.reading = {c}]

NextRoomFromLatest(s, c) ==
    /\ BetweenRooms(s) /\ c \in pass[s].left
    /\ pass' = [pass EXCEPT ![s] =
                  [OpenRoom(s, c) EXCEPT !.from = Max({pass[s].after, pass[s].latest})]]
    /\ UNCHANGED <<room, indexed, announced, gateway, mark, roomFaults, passedBy>>

NextRoom(s, c) ==
    /\ BetweenRooms(s) /\ c \in pass[s].left
    /\ pass' = [pass EXCEPT ![s] = [OpenRoom(s, c) EXCEPT !.from = pass[s].after]]
    /\ UNCHANGED <<room, indexed, announced, gateway, mark, roomFaults, passedBy>>

(* ChannelMessages: the messages next after an id, or the newest of all. *)
Page(c, after) ==
    LET behind == {m \in In(c) : m > after}
    IN {m \in behind : Cardinality({n \in behind : IF after = 0 THEN n > m ELSE n < m}) < PageOf}

Largest(a, S) == Max({a} \cup S)

Leave(p, latest) == [p EXCEPT !.reading = {}, !.from = 0, !.last = 0, !.latest = latest]

EndRoom(p) == Leave(p, Largest(p.latest, {p.last}))

(* The next page continues after the oldest message of this one, and a page
   that is not full is the last. *)
Continue(p, page, stored) ==
    [p EXCEPT !.from = Min(page), !.last = Largest(@, stored)]
LastPage(p, page, stored) ==
    Leave(p, Largest(p.latest, stored \cup {p.last}))
AfterPage(p, page, stored) ==
    IF Cardinality(page) = PageOf THEN Continue(p, page, stored) ELSE LastPage(p, page, stored)

ReadPage(s, c) ==
    /\ pass[s].on /\ c \in pass[s].reading
    /\ LET page == Page(c, pass[s].from) IN
       \/ /\ page = {}
          /\ pass' = [pass EXCEPT ![s] = EndRoom(@)]
          /\ UNCHANGED <<indexed, roomFaults, passedBy>>
       \/ /\ page # {}
          /\ \E bad \in {{}} \cup {{m} : m \in page} :
                /\ IF bad = {} THEN UNCHANGED roomFaults ELSE RoomFault
                /\ indexed' = indexed \cup (page \ bad)
                /\ pass' = [pass EXCEPT ![s] = AfterPage(@, page, page \ bad)]
                /\ passedBy' = passedBy \cup bad \cup
                      (IF pass[s].from = 0 THEN In(c) \ page ELSE {})
    /\ UNCHANGED <<room, announced, gateway, mark>>

(* A channel that fails is left out: what it had indexed does not count. *)
RoomFails(s, c) ==
    /\ pass[s].on /\ c \in pass[s].reading
    /\ RoomFault
    /\ pass' = [pass EXCEPT ![s] = [Leave(pass[s], pass[s].latest) EXCEPT !.failed = @ \cup {c}]]
    /\ UNCHANGED <<room, indexed, announced, gateway, mark, passedBy>>

(* The cursor moves for all channels at once, when anything was indexed: over
   what another sync has stored meanwhile, be it forward or back. *)
SyncEnds(s) ==
    /\ BetweenRooms(s) /\ pass[s].left = {}
    /\ pass' = [pass EXCEPT ![s] = NoPass]
    /\ \/ /\ mark' = IF pass[s].latest = 0 THEN mark ELSE pass[s].latest
          /\ UNCHANGED roomFaults
       \/ RoomFault /\ mark' = mark
    /\ passedBy' = passedBy \cup {m \in Said : m <= mark' /\ room[m] \in pass[s].failed}
    /\ UNCHANGED <<room, indexed, announced, gateway>>

DiscordNext ==
    \/ \E c \in Room : Say(c)
    \/ \E m \in announced : HandleMessageCreate(m)
    \/ \E s \in DiscordRun : Sync(s) \/ SyncEnds(s)
    \/ \E s \in DiscordRun, c \in Room : NextRoom(s, c) \/ ReadPage(s, c) \/ RoomFails(s, c)
    \/ Connect \/ Disconnect \/ ResetMark

DiscordSpec == DiscordInit /\ [][DiscordNext]_discordVars

-----------------------------------------------------------------------------
(* One cursor serves all channels, so a message behind it is never read again.
   Each one is in the knowledge base, or is on its way from the gateway, or one
   of the known causes kept it out: it could not be indexed, its channel failed
   in the sync that moved the cursor past it, it came while nobody listened to
   a channel that sync had done with, or it was older than the first page of
   the very first sync, which is the only page of a channel that one reads. *)
BehindTheCursor ==
    \A m \in Said : m <= mark => m \in indexed \cup announced \cup passedBy

=============================================================================
