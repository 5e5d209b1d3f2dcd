---------------------------- MODULE MCBotRequests ----------------------------
(* BotRequests for two messages. The first may be left unanswered and may    *)
(* attach files, make a screenshot and call the plugin's tool; the second    *)
(* only makes a screenshot or calls another built-in tool.                   *)
EXTENDS BotRequests, TLC

CONSTANTS m1, m2

CallTools ==
  m1 :> (0 :> {"attach_file", "screenshot_url"} @@ 1 :> {"attach_file", "plugin"})
    @@ m2 :> (0 :> {"screenshot_url", "built_in"} @@ 1 :> {})

AnswerWith == m1 :> {{}, {"learn"}, {"react"}, {"skip"}} @@ m2 :> {{"text"}}
=============================================================================
