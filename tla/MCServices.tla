----------------------------- MODULE MCServices -----------------------------
(* The components that share no variable with each other, checked in one     *)
(* run. A behaviour is a behaviour of one of them, chosen at the start,      *)
(* while the variables of the others keep their first values. The states are *)
(* so the sum of the components' states and not their product, and an        *)
(* invariant of a component holds here exactly when it holds of it alone.    *)
EXTENDS ScheduledJobs, McpClient, MCBotRequests, ChatThreads, Workspace,
        DiscordSync, DriveSync, NotionCrawl, KnowledgeFiles

CONSTANTS j1, j2, slack, discord, r1, r2, n1, n2, n3, n4, f1, f2, day1

VARIABLE part    \* the component that runs

Parts == {"jobs", "client", "bot", "chat", "work", "discord", "drive", "notion", "files"}

AllOnSlack == [j \in {j1, j2} |-> slack]
TwoTimes == [j \in {j1, j2} |-> {1, 2}]
AnyWork == [r \in {r1, r2} |-> WorkKind]
PagesBelow == n1 :> {n3} @@ n2 :> {n4} @@ n3 :> {n1} @@ n4 :> {n3}
PagesTooNested == n1 :> {} @@ n2 :> {} @@ n3 :> {} @@ n4 :> {n3}
PagesInDatabases == n1 :> {} @@ n2 :> {n3} @@ n3 :> {n4} @@ n4 :> {}

FactsOfADay == [f \in {f1, f2} |-> day1]
FactsOfReaders == f1 :> slack @@ f2 :> discord

\* The component p runs and the others do not.
Only(p) ==
  /\ part = p
  /\ part' = part
  /\ p # "jobs" => UNCHANGED jobsVars
  /\ p # "client" => UNCHANGED clientVars
  /\ p # "bot" => UNCHANGED botVars
  /\ p # "chat" => UNCHANGED chatVars
  /\ p # "work" => UNCHANGED workVars
  /\ p # "discord" => UNCHANGED discordVars
  /\ p # "drive" => UNCHANGED driveVars
  /\ p # "notion" => UNCHANGED notionVars
  /\ p # "files" => UNCHANGED fileVars

Init ==
  /\ part \in Parts
  /\ JobsInit /\ ClientInit /\ BotInit /\ ChatInit
  /\ WorkInit /\ DiscordInit /\ DriveInit /\ NotionInit /\ FilesInit
  /\ \/ work = OnlyLists({})
     \/ part = "files" /\ work = OnlyLists(Listing)

Next ==
  \/ Only("jobs") /\ JobsNext
  \/ Only("client") /\ ClientNext
  \/ Only("bot") /\ BotNext
  \/ Only("chat") /\ ChatNext
  \/ Only("work") /\ WorkNext
  \/ Only("discord") /\ DiscordNext
  \/ Only("drive") /\ DriveNext
  \/ Only("notion") /\ NotionNext
  \/ Only("files") /\ FilesNext

Spec == Init /\ [][Next]_<<part, jobsVars, clientVars, botVars, chatVars,
                           workVars, discordVars, driveVars, notionVars,
                           fileVars>>

\* Every variable of a component that runs keeps the values its program can give
\* it: the rows and polls of the schedulers, the client's session, the caches of
\* the platforms, the cursors and tokens of the syncs, the steps of the saves.
ServicesTypeOK ==
  /\ part = "jobs" => JobsTypeOK
  /\ part = "client" => ClientTypeOK
  /\ part = "bot" => BotTypeOK
  /\ part = "chat" => ChatTypeOK
  /\ part = "work" => WorkTypeOK
  /\ part = "discord" => DiscordTypeOK
  /\ part = "drive" => DriveTypeOK
  /\ part = "notion" => NotionTypeOK
  /\ part = "files" => FilesTypeOK

\* A state is told from another by the variables of the component that runs: the
\* others have their first values.  In DiscordSync a message that is indexed
\* stays so, and no invariant looks at one in `passedBy` that is.
Relevant ==
  <<part, CASE part = "jobs" -> jobsVars
            [] part = "client" -> clientVars
            [] part = "bot" -> botVars
            [] part = "chat" -> chatVars
            [] part = "work" -> workVars
            [] part = "discord" -> <<room, indexed, announced, gateway, mark, pass,
                                     roomFaults, passedBy \ indexed>>
            [] part = "drive" -> driveVars
            [] part = "notion" -> notionVars
            [] part = "files" -> fileVars>>

=============================================================================
