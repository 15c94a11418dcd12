--------------------------- MODULE MCTranscriptLines ---------------------------
(***************************************************************************)
(* A session and its subagent: a response on two lines with tool calls on  *)
(* both, a prompt, a tool result, a line of the agent in the main          *)
(* transcript, a summary, an ai-title and a broken line.                   *)
(***************************************************************************)
EXTENDS TranscriptLines

MCMaxLines == [f \in {"main", "agent"} |-> IF f = "main" THEN 3 ELSE 1]
MCParent == [a \in {"agent"} |-> "main"]

Blank == [type |-> "malformed", message |-> FALSE, id |-> "none", content |-> {},
          tools |-> {}, cwd |-> "none", agent |-> "none", name |-> "none", ts |-> 0]

Reply(id, tools, dir, ts) ==
    [Blank EXCEPT !.type = "assistant", !.message = TRUE, !.id = id, !.content = {"text"},
                  !.tools = tools, !.cwd = dir, !.ts = ts]
Text(id, content, dir, agent) ==
    [Blank EXCEPT !.type = "user", !.message = TRUE, !.id = id, !.content = content,
                  !.cwd = dir, !.agent = agent, !.ts = 2]
Named(type, name) == [Blank EXCEPT !.type = type, !.name = name]

MCLinesOf ==
    [main  |-> {Reply("m1", {"t1"}, "none", 3), Reply("m1", {"t1", "t2"}, "home", 5),
                Text("u1", {"string"}, "work", "none"), Text("u2", {"text"}, "none", "agent"),
                Text("u4", {"tool_result"}, "none", "none"),
                Named("summary", "one"), Named("ai-title", "two"),
                Blank},
     agent |-> {Text("u3", {"string"}, "tree", "none")}]
=============================================================================
