------------------------------ MODULE AuditStream ------------------------------
(***************************************************************************)
(* One client of GET /events (api/main.py, _sse_stream): an async          *)
(* generator that polls audit.jsonl and sends what is new.  The file grows *)
(* under it: other handlers append while the generator is suspended in     *)
(* sleep or in a yield, and other processes (mcp_server.py, the demos)     *)
(* append whenever they like.  Entries are numbered by their line, file    *)
(* positions count lines (an entry is written by one append), and the      *)
(* keepalive comments that an idle stream sends are left out.              *)
(***************************************************************************)
EXTENDS Naturals, Sequences

CONSTANT MaxLines       \* bound: lines ever in the file

ASSUME MaxLinesAssumption == MaxLines \in Nat

VARIABLES lines,        \* lines in the file; 0 also when it does not exist
          place,           \* the generator: see Places
          start,        \* where the stream began
          offset,       \* where the next batch is to begin
          size,         \* what stat() said of the file before this batch
          pos,          \* how far this batch has been read
          sent          \* line numbers sent to the client, in order

streamVars == <<lines, place, start, offset, size, pos, sent>>

Places == {"connecting", "asleep", "measured", "reading", "closed"}

StreamTypeOK ==
  /\ place \in Places
  /\ {lines, start, offset, size, pos} \subseteq 0..MaxLines
  /\ sent \in Seq(1..MaxLines)

(* The log may hold entries from before (the seed, an earlier process).    *)
StreamInit ==
  /\ lines \in 0..MaxLines
  /\ place = "connecting"
  /\ start = 0 /\ offset = 0 /\ size = 0 /\ pos = 0
  /\ sent = << >>

-----------------------------------------------------------------------------
(* _audit, or _write_world_switch_event, here or in another process.       *)
AppendLine ==
  /\ lines < MaxLines
  /\ lines' = lines + 1
  /\ UNCHANGED <<place, start, offset, size, pos, sent>>

Connect ==
  /\ place = "connecting"
  /\ place' = "asleep"
  /\ start' = lines /\ offset' = lines
  /\ UNCHANGED <<lines, size, pos, sent>>

(* The sleep ends and stat() finds more than before.  When it does not,    *)
(* or there is no file, the generator goes back to sleep.                  *)
Measure ==
  /\ place = "asleep"
  /\ lines > offset
  /\ size' = lines
  /\ place' = "measured"
  /\ UNCHANGED <<lines, start, offset, pos, sent>>

OpenAndSeek ==
  /\ place = "measured"
  /\ pos' = offset
  /\ place' = "reading"
  /\ UNCHANGED <<lines, start, offset, size, sent>>

\* Deliberate error, for the mutation runs: the loop runs once more.
SendLinePastEnd ==
  /\ place = "reading"
  /\ pos <= lines
  /\ sent' = Append(sent, pos + 1)
  /\ pos' = pos + 1
  /\ UNCHANGED <<lines, place, start, offset, size>>

(* One turn of the for loop: it reads to the end of the file as that is    *)
(* now, not to the size that was measured.                                 *)
SendLine ==
  /\ place = "reading"
  /\ pos < lines
  /\ sent' = Append(sent, pos + 1)
  /\ pos' = pos + 1
  /\ UNCHANGED <<lines, place, start, offset, size>>

\* Deliberate error, for the mutation runs: the offset is measured afresh at
\* the end of a batch, after another append may have come.
EndOfFileStatAgain ==
  /\ place = "reading"
  /\ pos = lines
  /\ \E now \in lines..MaxLines : offset' = now /\ lines' = now
  /\ place' = "asleep"
  /\ UNCHANGED <<start, size, pos, sent>>

EndOfFile ==
  /\ place = "reading"
  /\ pos = lines
  /\ offset' = size
  /\ place' = "asleep"
  /\ UNCHANGED <<lines, start, size, pos, sent>>

(* The client goes away and the generator is cancelled at its await or     *)
(* yield.  A client that reconnects gets a new generator.                  *)
Disconnect ==
  /\ place \in {"asleep", "reading"}
  /\ place' = "closed"
  /\ UNCHANGED <<lines, start, offset, size, pos, sent>>

Reconnect ==
  /\ place = "closed"
  /\ place' = "connecting"
  /\ start' = 0 /\ offset' = 0 /\ size' = 0 /\ pos' = 0
  /\ sent' = << >>
  /\ UNCHANGED lines

StreamStep == Connect \/ Measure \/ OpenAndSeek \/ SendLine \/ EndOfFile

StreamNext == AppendLine \/ StreamStep \/ Disconnect \/ Reconnect

(* The event loop resumes a sleeping or suspended generator; whether       *)
(* anything is appended, or the client leaves, is not the program's.       *)
StreamFairness == WF_streamVars(StreamStep)

StreamSpec == StreamInit /\ [][StreamNext]_streamVars /\ StreamFairness

-----------------------------------------------------------------------------
(* A batch that is over has left no gap behind: every line between the     *)
(* start of the stream and the offset has been sent, although the offset   *)
(* was measured before the batch was read and appends came in between.     *)
NothingSkipped == \A n \in start + 1 .. offset : \E i \in DOMAIN sent : sent[i] = n

(* Nothing from before the stream began is sent, nothing that is not in    *)
(* the file, and after a line comes the next one or the start of the batch.*)
InFileOrder ==
  /\ \A i \in DOMAIN sent : sent[i] \in start + 1 .. lines
  /\ \A i \in DOMAIN sent : i > 1 => sent[i] <= sent[i - 1] + 1

(* Every line appended while a client is connected reaches it, unless it   *)
(* leaves.                                                                 *)
EveryLineDelivered ==
  \A n \in 1..MaxLines :
    (place \in {"asleep", "measured", "reading"} /\ start < n /\ n <= lines)
      ~> (place = "closed" \/ \E i \in DOMAIN sent : sent[i] = n)

(* What the client has received is the file from where its stream began, up*)
(* to the last batch: nothing missing, and in order.                       *)
StreamFaithful == NothingSkipped /\ InFileOrder
=============================================================================
