------------------------------ MODULE StdioServer ------------------------------
(***************************************************************************)
(* The stdio MCP server (mcp_server.py): one thread that reads a line of   *)
(* JSON-RPC, handles it to its end and reads the next.  The client writes  *)
(* ahead and closes its end when it likes.  Nothing around a line catches  *)
(* an exception but that of json.loads, so whatever else raises ends the   *)
(* server, with the lines behind it unread.                                *)
(*                                                                         *)
(* What a tools/call decides is Executor's matter; here it lets a handler  *)
(* run, simulates it, refuses, or raises.                                  *)
(***************************************************************************)
EXTENDS Naturals, Sequences

CONSTANT MaxInput         \* bound: lines the client sends

ASSUME MaxInputAssumption == MaxInput \in Nat

VARIABLES
  input,      \* lines the client has written
  eof,        \* it has closed its end
  read,       \* number of lines read
  handling,   \* inside executor.execute for line number read
  server,     \* "runs", "ended" or "raised"
  replies,    \* lines written to stdout
  effects     \* history: numbers of the lines for which a handler was entered

stdioVars == <<input, eof, read, handling, server, replies, effects>>

(* "object": the line parses to an object with this method; "scalar": to   *)
(* something else.  "badcall" is a tools/call whose params are a non-empty *)
(* list or scalar.                                                         *)
Methods == {"initialized", "initialize", "list", "call", "badcall", "other"}
InputLines ==
  [form : {"blank", "malformed", "scalar"}, method : {"other"}, id : {FALSE}]
    \cup [form : {"object"}, method : Methods, id : BOOLEAN]

Content == {"result", "isError", "notFound"}
StdioReplies == [line : 1..MaxInput, id : BOOLEAN, content : Content]

StdioTypeOK ==
  /\ input \in Seq(InputLines) /\ Len(input) <= MaxInput
  /\ eof \in BOOLEAN
  /\ read \in 0..Len(input)
  /\ handling \in BOOLEAN
  /\ server \in {"runs", "ended", "raised"}
  /\ replies \in Seq(StdioReplies)
  /\ effects \subseteq 1..read

-----------------------------------------------------------------------------
StdioInit ==
  /\ input = << >>
  /\ eof = FALSE
  /\ read = 0
  /\ handling = FALSE
  /\ server = "runs"
  /\ replies = << >>
  /\ effects = {}

ClientWrites(line) ==
  /\ ~eof
  /\ Len(input) < MaxInput
  /\ input' = Append(input, line)
  /\ UNCHANGED <<eof, read, handling, server, replies, effects>>

ClientCloses ==
  /\ ~eof
  /\ eof' = TRUE
  /\ UNCHANGED <<input, read, handling, server, replies, effects>>

AtLine == server = "runs" /\ ~handling /\ read < Len(input)
NextLine == input[read + 1]
Skipped(line) == line.form \in {"blank", "malformed"} \/ line.method = "initialized"
Raising(line) == line.form = "scalar" \/ line.method = "badcall"

(* _respond and _error write the id of the request, null if it has none.   *)
ReplyTo(n, content) == Append(replies, [line |-> n, id |-> input[n].id, content |-> content])

SkipLine ==
  /\ AtLine
  /\ Skipped(NextLine)
  /\ read' = read + 1
  /\ UNCHANGED <<input, eof, handling, server, replies, effects>>

(* req.get on what is no object, params.get on what is none.               *)
LineRaises ==
  /\ AtLine
  /\ Raising(NextLine)
  /\ read' = read + 1
  /\ server' = "raised"
  /\ UNCHANGED <<input, eof, handling, replies, effects>>

AnswerLine ==
  /\ AtLine
  /\ NextLine.form = "object"
  /\ NextLine.method \in {"initialize", "list", "other"}
  /\ read' = read + 1
  /\ replies' = ReplyTo(read + 1, IF NextLine.method = "other" THEN "notFound" ELSE "result")
  /\ UNCHANGED <<input, eof, handling, server, effects>>

BeginToolCall ==
  /\ AtLine
  /\ NextLine.form = "object" /\ NextLine.method = "call"
  /\ read' = read + 1
  /\ handling' = TRUE
  /\ UNCHANGED <<input, eof, server, replies, effects>>

EnterToolHandler ==
  /\ handling
  /\ read \notin effects
  /\ effects' = effects \cup {read}
  /\ UNCHANGED <<input, eof, read, handling, server, replies>>

\* Deliberate error: a call may also be refused once its tool has run.
ToolCallRefusedLate ==
  /\ handling
  /\ handling' = FALSE
  /\ replies' = ReplyTo(read, "isError")
  /\ UNCHANGED <<input, eof, read, server, effects>>

(* ALLOW, after the handler or with the effect simulated.                  *)
ToolCallAllowed ==
  /\ handling
  /\ handling' = FALSE
  /\ replies' = ReplyTo(read, "result")
  /\ UNCHANGED <<input, eof, read, server, effects>>

(* DENY, ABSENT, ASK: decided before a handler is entered.                 *)
ToolCallRefused ==
  /\ handling
  /\ read \notin effects
  /\ handling' = FALSE
  /\ replies' = ReplyTo(read, "isError")
  /\ UNCHANGED <<input, eof, read, server, effects>>

(* The handler, the engine or the append to the log raises.                *)
ToolCallRaises ==
  /\ handling
  /\ handling' = FALSE
  /\ server' = "raised"
  /\ UNCHANGED <<input, eof, read, replies, effects>>

InputEnds ==
  /\ server = "runs" /\ ~handling /\ eof
  /\ read = Len(input)
  /\ server' = "ended"
  /\ UNCHANGED <<input, eof, read, handling, replies, effects>>

StdioNext ==
  \/ \E line \in InputLines : ClientWrites(line)
  \/ ClientCloses
  \/ SkipLine
  \/ LineRaises
  \/ AnswerLine
  \/ BeginToolCall
  \/ EnterToolHandler
  \/ ToolCallAllowed
  \/ ToolCallRefused
  \/ ToolCallRaises
  \/ InputEnds

(* The thread runs and tools return or raise; the client owes nothing.     *)
StdioFairness ==
  WF_stdioVars(\/ SkipLine \/ LineRaises \/ AnswerLine \/ BeginToolCall
               \/ ToolCallAllowed \/ ToolCallRefused \/ ToolCallRaises \/ InputEnds)

StdioSpec == StdioInit /\ [][StdioNext]_stdioVars /\ StdioFairness

-----------------------------------------------------------------------------
Owed(n) ==
  /\ input[n].form = "object"
  /\ input[n].method \in {"initialize", "list", "call", "other"}

(* Replies come one for one and in the order of the lines that are owed    *)
(* one, which is how a client without ids of its own (a notification is    *)
(* answered with a null id) tells them apart; only the line the server is  *)
(* at, or died at, may lack its reply.                                     *)
OneReplyInOrder ==
  /\ \A i, j \in DOMAIN replies : i < j => replies[i].line < replies[j].line
  /\ \A i \in DOMAIN replies : Owed(replies[i].line) /\ replies[i].id = input[replies[i].line].id
  /\ \A n \in 1..read :
       Owed(n) => \/ \E i \in DOMAIN replies : replies[i].line = n
                  \/ n = read /\ (handling \/ server = "raised")

(* An isError answer means that no handler ran; one that ran and was not   *)
(* answered has taken the server with it.                                  *)
EffectsAnswered ==
  \A n \in effects :
    /\ \A i \in DOMAIN replies : replies[i].line = n => replies[i].content = "result"
    /\ \/ \E i \in DOMAIN replies : replies[i].line = n
       \/ n = read /\ (handling \/ server = "raised")

(* A client can trust the answers it has, and knows of which one line it   *)
(* cannot tell what became of it.                                          *)
AnswersInStep == OneReplyInOrder /\ EffectsAnswered

(* Every line is read, or the server died at an earlier one: a line that   *)
(* is blank, malformed or unknown does not stop those behind it.           *)
EveryLineRead == \A n \in 1..MaxInput : Len(input) >= n ~> read >= n \/ server = "raised"
=============================================================================
