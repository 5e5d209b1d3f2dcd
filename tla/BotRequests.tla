------------------------------ MODULE BotRequests ------------------------------
(***************************************************************************)
(* How the bot answers messages (internal/bot/handler.go, plugins.go):     *)
(* the loop of model calls and tool calls, the files tools leave behind    *)
(* (internal/tools/outbox.go, executor.go), what is posted and the work in *)
(* the background that a shutdown waits for.  Several messages are         *)
(* answered at once, and they share the tool executor.                     *)
(*                                                                         *)
(* Left out: the context given to the model, which models are used, the    *)
(* formatting of answers, clicks on buttons, the first contact with a new  *)
(* person.  A tool's effect outside the bot is left out too, except for    *)
(* the two tools that leave a file.                                        *)
(***************************************************************************)
EXTENDS ToolTable, Naturals, Sequences, FiniteSets

CONSTANTS
  Message,
  Skippable,      \* replies in a thread that do not mention the bot
  WithFiles,      \* messages that have files attached, or follow one in their thread
  Configured,     \* the services the built-in tools find configured
  PluginTool,     \* names a plugin may list
  OutgoingName,   \* names of files
  MaxOutgoing,    \* files attached to one reply
  MaxIterations,  \* rounds of tool calls after the first
  MayCall,        \* bound: [Message -> [round -> the kinds of tools it may call]]
  MayAnswer,      \* bound: [Message -> what its last answer may be made of]
  MaxBotFaults    \* bound: failed calls, panics, restarts of a plugin

ToolKind == {"built_in", "screenshot_url", "attach_file", "plugin"}
AnswerPart == {"text", "learn", "react"}

ASSUME BotAssumption ==
  /\ Skippable \subseteq Message /\ WithFiles \subseteq Message
  /\ Configured \subseteq (DOMAIN Declares) \cup {"sender"}
  /\ MayCall \in [Message -> [0 .. MaxIterations -> SUBSET ToolKind]]
  /\ \A m \in Message : MayAnswer[m] \subseteq (SUBSET AnswerPart) \cup {{"skip"}}
  /\ MaxOutgoing \in Nat /\ MaxIterations \in Nat /\ MaxBotFaults \in Nat

VARIABLES
  request,     \* [Message -> where its handler is]
  iteration,   \* [Message -> model calls made that asked for a tool]
  offered,     \* [Message -> the plugin tools in its declarations]
  outbox,      \* [Message -> the files to upload with the reply, in order]
  answer,      \* [Message -> what the model's last answer is made of]
  prompts,     \* [Message -> "none", "queued", "posted" or "failed"]
  screenshot,  \* the executor's screenshotData: at most one capture
  listed,      \* the tools the plugins list now
  background,  \* work that goTracked started
  botClosing,  \* Shutdown has begun
  botDrained,  \* and has reported that everything finished
  botFaults,
  (* kept for the properties *)
  said,        \* [Message -> what its author saw: an answer, news of trouble]
  excused,     \* messages for which a platform call failed or was not made
  promised,    \* [Message -> [OutgoingName -> the version last attached]]
  uploaded,    \* [Message -> the files uploaded with the reply]
  delivered,   \* captures that were posted, with the message they were posted to
  turnedDown   \* complete calls of offered built-in tools that were refused,
               \* each with the message it was made for

botGhosts == <<said, excused, promised, uploaded, delivered, turnedDown>>
botShared == <<screenshot, listed, background, botClosing, botDrained>>
botVars == <<request, iteration, offered, outbox, answer, prompts, botShared, botFaults, botGhosts>>

Phases == {"new", "asking", "calling", "forced", "answered", "replying", "uploading", "after",
           "done"}
File == OutgoingName \X (1 .. MaxIterations + 1)
Capture == [by : Message, at : 0 .. MaxIterations]
Work == [kind : {"screenshot", "learn", "react"}, for : Message, shot : SUBSET Capture]
Seen == {"answer", "trouble"}

BotTypeOK ==
  /\ request \in [Message -> Phases]
  /\ iteration \in [Message -> 0 .. MaxIterations + 1]
  /\ offered \in [Message -> SUBSET PluginTool]
  /\ \A m \in Message : outbox[m] \in Seq(File) /\ Len(outbox[m]) <= MaxOutgoing
  /\ answer \in [Message -> SUBSET (AnswerPart \cup {"skip"})]
  /\ prompts \in [Message -> {"none", "queued", "posted", "failed"}]
  /\ screenshot \in SUBSET Capture /\ Cardinality(screenshot) <= 1
  /\ listed \in SUBSET PluginTool
  /\ background \subseteq Work
  /\ botClosing \in BOOLEAN /\ botDrained \in BOOLEAN
  /\ botFaults \in 0 .. MaxBotFaults
  /\ said \in [Message -> SUBSET Seen]
  /\ excused \in SUBSET Message
  /\ promised \in [Message -> [OutgoingName -> 0 .. MaxIterations + 1]]
  /\ uploaded \in [Message -> SUBSET File]
  /\ delivered \in SUBSET [shot : Capture, to : Message]
  /\ turnedDown \in SUBSET (KnownTools \X Message)

BotInit ==
  /\ request = [m \in Message |-> "new"]
  /\ iteration = [m \in Message |-> 0]
  /\ offered = [m \in Message |-> {}]
  /\ outbox = [m \in Message |-> <<>>]
  /\ answer = [m \in Message |-> {}]
  /\ prompts = [m \in Message |-> "none"]
  /\ screenshot = {}
  /\ listed = PluginTool
  /\ background = {}
  /\ botClosing = FALSE /\ botDrained = FALSE
  /\ botFaults = 0
  /\ said = [m \in Message |-> {}]
  /\ excused = {}
  /\ promised = [m \in Message |-> [n \in OutgoingName |-> 0]]
  /\ uploaded = [m \in Message |-> {}]
  /\ delivered = {}
  /\ turnedDown = {}

BotFault ==
  /\ botFaults < MaxBotFaults
  /\ botFaults' = botFaults + 1

\* A call to the platform: the author sees something of this kind, or it fails.
Tell(m, kind) ==
  \/ /\ said' = [said EXCEPT ![m] = @ \cup {kind}]
     /\ UNCHANGED <<excused, botFaults>>
  \/ /\ BotFault
     /\ excused' = excused \cup {m}
     /\ UNCHANGED said

-----------------------------------------------------------------------------
(* Work in the background. *)

\* Started even though a shutdown has begun.
GoTrackedAlways(work) ==
  /\ background' = background \cup {work}
  /\ UNCHANGED excused

\* Once a shutdown has begun nothing more is started.
GoTracked(work) ==
  IF botClosing
  THEN /\ excused' = excused \cup {work.for}
       /\ UNCHANGED background
  ELSE /\ background' = background \cup {work}
       /\ UNCHANGED excused

For(kind, m) == [kind |-> kind, for |-> m, shot |-> {}]

-----------------------------------------------------------------------------
(* The loop of model calls. *)

\* The request to the model: its prompt, the thread so far, the tools there are
\* now; the tools of a plugin that changes later stay in it.
GenerateRequest(m) == [offered EXCEPT ![m] = listed]

\* The message is prepared: its files, the links in it, and the request.
Receive(m) ==
  /\ request[m] = "new"
  /\ request' = [request EXCEPT ![m] = "asking"]
  /\ offered' = GenerateRequest(m)
  /\ UNCHANGED <<iteration, outbox, answer, prompts, botShared, botFaults, botGhosts>>

\* The model answers, asks for a tool, or fails: the error is posted, and
\* nothing of what the tools left is sent.
Generate(m) ==
  /\ request[m] \in {"asking", "forced"}
  /\ \/ /\ request[m] = "asking"
        /\ MayCall[m][iteration[m]] # {}
        /\ request' = [request EXCEPT ![m] = "calling"]
        /\ UNCHANGED <<said, excused, botFaults>>
     \/ /\ request' = [request EXCEPT ![m] = "answered"]
        /\ UNCHANGED <<said, excused, botFaults>>
     \/ /\ botFaults < MaxBotFaults
        /\ request' = [request EXCEPT ![m] = "after"]
        /\ Tell(m, "trouble")
  /\ UNCHANGED <<iteration, offered, outbox, answer, prompts, botShared, promised, uploaded, delivered,
                 turnedDown>>

\* After the last round the model is asked once more, without tools.
NextRound(m, kind) ==
  /\ request[m] = "calling"
  /\ kind \in MayCall[m][iteration[m]]
  /\ iteration' = [iteration EXCEPT ![m] = @ + 1]
  /\ request' = [request EXCEPT ![m] = IF iteration[m] = MaxIterations THEN "forced" ELSE "asking"]

\* A built-in tool without an effect on the answer.
CallBuiltIn(m) ==
  /\ NextRound(m, "built_in")
  /\ turnedDown' = turnedDown \cup
       {t \in OfferedTools(Configured) :
          Refused(t, DeclaredArgs(t), Configured, m \in WithFiles)} \X {m}
  /\ UNCHANGED <<offered, outbox, answer, prompts, botShared, botFaults, said, excused, promised,
                 uploaded, delivered>>

\* The last capture is kept for whoever answers next.
ScreenshotURL(m) ==
  /\ "screenshots" \in Configured
  /\ NextRound(m, "screenshot_url")
  /\ screenshot' = {[by |-> m, at |-> iteration[m]]}
  /\ UNCHANGED <<offered, outbox, answer, prompts, listed, background, botClosing, botDrained,
                 botFaults, botGhosts>>

Names(files) == {files[i][1] : i \in DOMAIN files}

\* A file is added behind the ones there are, whatever their names.
AddBehind(files, f) == IF Len(files) < MaxOutgoing THEN Append(files, f) ELSE files

\* A new file is taken however many there are.
AddWithoutLimit(files, f) ==
  IF f[1] \in Names(files)
  THEN [i \in DOMAIN files |-> IF files[i][1] = f[1] THEN f ELSE files[i]]
  ELSE Append(files, f)

\* A file takes the place of an earlier one with its name; a new one is refused
\* when there are too many.
Add(files, f) ==
  IF f[1] \in Names(files)
  THEN [i \in DOMAIN files |-> IF files[i][1] = f[1] THEN f ELSE files[i]]
  ELSE IF Len(files) < MaxOutgoing THEN Append(files, f) ELSE files

AttachFile(m) ==
  /\ NextRound(m, "attach_file")
  /\ \E n \in OutgoingName :
       LET f == <<n, promised[m][n] + 1>> IN
       /\ outbox' = [outbox EXCEPT ![m] = Add(@, f)]
       /\ promised' = IF n \in Names(outbox[m]) \/ Len(outbox[m]) < MaxOutgoing
                      THEN [promised EXCEPT ![m][n] = f[2]] ELSE promised
  /\ UNCHANGED <<offered, answer, prompts, botShared, botFaults, said, excused, uploaded, delivered,
                 turnedDown>>

\* A plugin's tool that was offered may have left its plugin's list since then.
CallPlugin(m) ==
  /\ NextRound(m, "plugin")
  /\ \E t \in offered[m] :
       \/ t \in listed /\ prompts' = [prompts EXCEPT ![m] = "queued"]
       \/ UNCHANGED prompts
  /\ UNCHANGED <<offered, outbox, answer, botShared, botFaults, botGhosts>>

-----------------------------------------------------------------------------
(* The reply. *)

\* Whatever is in the store is taken, and uploaded to the thread of this message.
PopScreenshot(m) ==
  /\ request[m] = "answered"
  /\ request' = [request EXCEPT ![m] = "replying"]
  /\ screenshot' = {}
  /\ IF screenshot = {} THEN UNCHANGED <<background, excused>>
     ELSE GoTracked([kind |-> "screenshot", for |-> m, shot |-> screenshot])
  /\ UNCHANGED <<iteration, offered, outbox, answer, prompts, listed, botClosing, botDrained,
                 botFaults, said, promised, uploaded, delivered, turnedDown>>

Skipped(m) == m \in Skippable /\ answer[m] = {"skip"}

\* Without text the bot apologises, unless a reaction or a file says something.
\* A block that only teaches a fact counts as text here.
NeedsFallbackEarly(parts, files) == parts \cap AnswerPart = {} /\ files = <<>>

\* What is left when the blocks are stripped: without text, a reaction or a
\* file, the bot apologises.
NeedsFallback(parts, files) == parts \cap {"text", "react"} = {} /\ files = <<>>

\* The model's last text is taken apart.  A message may be skipped; facts to
\* learn are saved in the background, and the text is posted.
Reply(m) ==
  /\ request[m] = "replying"
  /\ \E parts \in MayAnswer[m] :
       /\ answer' = [answer EXCEPT ![m] = parts]
       /\ IF m \in Skippable /\ parts = {"skip"}
          THEN /\ request' = [request EXCEPT ![m] = "after"]
               /\ UNCHANGED <<background, said, excused, botFaults>>
          ELSE /\ request' = [request EXCEPT ![m] = "uploading"]
               /\ background' = IF "learn" \in parts /\ ~ botClosing
                                THEN background \cup {For("learn", m)} ELSE background
               /\ IF "text" \in parts THEN Tell(m, "answer")
                  ELSE IF NeedsFallback(parts, outbox[m]) THEN Tell(m, "answer")
                  ELSE UNCHANGED <<said, excused, botFaults>>
  /\ UNCHANGED <<iteration, offered, outbox, prompts, screenshot, listed, botClosing,
                 botDrained, promised, uploaded, delivered, turnedDown>>

\* The files follow one by one.  If one fails, a notice names it, unless the
\* notice fails too.
UploadNext(m) ==
  /\ request[m] = "uploading"
  /\ outbox[m] # <<>>
  /\ \/ /\ uploaded' = [uploaded EXCEPT ![m] = @ \cup {Head(outbox[m])}]
        /\ said' = [said EXCEPT ![m] = @ \cup {"answer"}]
        /\ UNCHANGED <<botFaults, excused>>
     \/ /\ BotFault
        /\ \/ /\ said' = [said EXCEPT ![m] = @ \cup {"trouble"}]
              /\ UNCHANGED excused
           \/ /\ excused' = excused \cup {m}
              /\ UNCHANGED said
        /\ UNCHANGED uploaded
  /\ outbox' = [outbox EXCEPT ![m] = Tail(@)]
  /\ UNCHANGED <<request, iteration, offered, answer, prompts, botShared, promised, delivered,
                 turnedDown>>

\* The reaction is added in the background.
React(m) ==
  /\ request[m] = "uploading"
  /\ outbox[m] = <<>>
  /\ request' = [request EXCEPT ![m] = "after"]
  /\ IF "react" \in answer[m] THEN GoTracked(For("react", m))
     ELSE UNCHANGED <<background, excused>>
  /\ UNCHANGED <<iteration, offered, outbox, answer, prompts, screenshot, listed, botClosing,
                 botDrained, botFaults, said, promised, uploaded, delivered, turnedDown>>

\* The prompts that were queued are posted.  One that cannot be is only logged:
\* it is not tried again, and nobody is told.
PostPrompts(m, outcome) ==
  prompts' = [prompts EXCEPT ![m] = IF @ = "queued" THEN outcome ELSE @]

\* However the handler returns, the prompts its plugins queued go out.
AfterReply(m) ==
  /\ request[m] = "after"
  /\ request' = [request EXCEPT ![m] = "done"]
  /\ \/ PostPrompts(m, "posted") /\ UNCHANGED botFaults
     \/ PostPrompts(m, "failed") /\ BotFault
  /\ UNCHANGED <<iteration, offered, outbox, answer, botShared, botGhosts>>

\* A panic is recovered from; the deferred prompts come before its message.
Panics(m) ==
  /\ request[m] \in {"asking", "calling", "forced"}
  /\ BotFault
  /\ request' = [request EXCEPT ![m] = "done"]
  /\ PostPrompts(m, "posted") \/ PostPrompts(m, "failed")
  /\ said' = [said EXCEPT ![m] = @ \cup {"trouble"}]
  /\ UNCHANGED <<iteration, offered, outbox, answer, botShared, excused, promised, uploaded, delivered, turnedDown>>

-----------------------------------------------------------------------------
(* Work in the background ends; the bot is shut down. *)

WorkEnds(w) ==
  /\ w \in background
  /\ background' = background \ {w}
  /\ CASE w.kind = "screenshot" ->
            /\ \/ /\ delivered' = delivered \cup {[shot |-> s, to |-> w.for] : s \in w.shot}
                  /\ UNCHANGED <<botFaults, excused>>
               \/ /\ BotFault
                  /\ excused' = excused \cup {w.for}
                  /\ UNCHANGED delivered
            /\ UNCHANGED said
       [] w.kind = "react" -> Tell(w.for, "answer") /\ UNCHANGED delivered
       [] OTHER -> UNCHANGED <<delivered, botFaults, excused, said>>
  /\ UNCHANGED <<request, iteration, offered, outbox, answer, prompts, screenshot, listed,
                 botClosing, botDrained, promised, uploaded, turnedDown>>

Shutdown ==
  /\ ~ botClosing
  /\ botClosing' = TRUE
  /\ UNCHANGED <<request, iteration, offered, outbox, answer, prompts, screenshot, listed,
                 background, botDrained, botFaults, botGhosts>>

\* The plugins are closed next; messages that are being answered go on.
Drained ==
  /\ botClosing /\ ~ botDrained
  /\ background = {}
  /\ botDrained' = TRUE
  /\ UNCHANGED <<request, iteration, offered, outbox, answer, prompts, screenshot, listed,
                 background, botClosing, botFaults, botGhosts>>

\* A plugin's server starts again with another list.
PluginsChange ==
  /\ BotFault
  /\ \E tools \in SUBSET PluginTool : tools # listed /\ listed' = tools
  /\ UNCHANGED <<request, iteration, offered, outbox, answer, prompts, screenshot, background,
                 botClosing, botDrained, botGhosts>>

Handle(m) ==
  \/ Receive(m) \/ Generate(m)
  \/ CallBuiltIn(m) \/ ScreenshotURL(m) \/ AttachFile(m) \/ CallPlugin(m)
  \/ PopScreenshot(m) \/ Reply(m) \/ UploadNext(m) \/ React(m) \/ AfterReply(m) \/ Panics(m)

BotNext ==
  \/ \E m \in Message : Handle(m)
  \/ \E w \in background : WorkEnds(w)
  \/ Shutdown \/ Drained \/ PluginsChange

BotSpec == BotInit /\ [][BotNext]_botVars

-----------------------------------------------------------------------------
(* Properties. *)

\* Nobody is left without an answer: whatever the model returned, a message that
\* was handled got a reply, an apology, an error, a file or a reaction that is
\* still on its way, unless it was skipped or the platform failed.
AlwaysSaysSomething ==
  \A m \in Message :
    request[m] = "done" /\ said[m] = {} =>
      Skipped(m) \/ m \in excused \/ For("react", m) \in background

\* The files that go out with a reply are the ones the model was told are
\* attached, each in its last version; none is left out without a word.  A
\* capture goes to one conversation only, however many wait for one.
PromisedFilesGoOut ==
  /\ \A d, e \in delivered : d.shot = e.shot => d = e
  /\ \A m \in Message :
       LET last == {<<n, promised[m][n]>> : n \in {k \in OutgoingName : promised[m][k] > 0}} IN
       /\ uploaded[m] \subseteq last
       /\ request[m] = "done" /\ uploaded[m] # last =>
            "trouble" \in said[m] \/ Skipped(m) \/ m \in excused

\* What a plugin wants to ask is posted in the end, whichever way the answer
\* went, unless the platform refused it, and nothing runs in the background once
\* the shutdown reports that everything finished.
NothingIsCutOff ==
  /\ \A m \in Message : request[m] = "done" => prompts[m] # "queued"
  /\ botDrained => background = {}

\* A tool that was offered, called with everything its declaration asks for, is
\* not refused.  Two are offered that cannot be carried out: an email without a
\* sender, and an upload of the files of a message that has none.
CompleteCallsAreTaken ==
  \A call \in turnedDown :
    \/ call[1] = "send_email" /\ "sender" \notin Configured
    \/ call[1] = "upload_to_drive" /\ call[2] \notin WithFiles

\* What the tool's answer says: the capture is sent with the response.
ScreenshotsGoHome == \A d \in delivered : d.shot.by = d.to

=============================================================================
